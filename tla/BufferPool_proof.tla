-------------------------- MODULE BufferPool_proof --------------------------
(***************************************************************************)
(* Theorems about BufferPool, for every number of threads, files, shards   *)
(* and frames: type correctness, the partition of the frames, pinned pages *)
(* stay, no write is lost, files have no gaps, and the pool with its disk  *)
(* implements PageStore.                                                   *)
(***************************************************************************)
EXTENDS BufferPool, SequenceTheorems, FiniteSetTheorems, WellFoundedInduction, TLAPS

\* What holds in every state, the unsound ones included: a page is mapped to a frame
\* that bears its number, only frames with a page are dirty or pinned, a thread that
\* works on a page has it, and a descriptor in use has a next page number.
Mapped == \A id \in PageId : Resident(id) => frames[page_table[id]].id = id
Named == \A x \in Frame : frames[x].dirty \/ frames[x].pin > 0 => frames[x].id \in PageId
Working ==
    \A w \in Worker : /\ pc[w] # "idle" => page[w] \in PageId
                      /\ pc[w] = "pinned" => frame[w] \in Frame
Numbered == \A fd \in Fd : file_of[fd] # Nil => fd2pageno[fd] > 0
Closing == /\ ddl.pc = "idle" <=> ddl = Idle
           /\ ddl.pc # "idle" => ddl.fd \in Fd /\ file_of[ddl.fd] # Nil
Base == TypeOK /\ Mapped /\ Named /\ Working /\ Numbered /\ Closing

\* What holds in sound states.  The lists of a shard are lists of its own frames,
\* without repetition, and every frame is in its place.
Lists ==
    \A s \in Shard : /\ IsInjective(free_list[s]) /\ IsInjective(lru[s])
                     /\ \A x \in Listed(s) : FrameShard[x] = s
Placed ==
    \A x \in Frame : LET s == FrameShard[x] IN
        \/ frames[x] = Free /\ x \in ToSet(free_list[s]) /\ x \notin ToSet(lru[s])
        \/ /\ frames[x].id \in PageId /\ page_table[frames[x].id] = x
           /\ shard_of(frames[x].id) = s
           /\ x \notin ToSet(free_list[s]) /\ (x \in ToSet(lru[s]) <=> frames[x].pin = 0)

\* The pin count of a frame is the number of workers that have it pinned.
Pinners(x) == {w \in Worker : pc[w] = "pinned" /\ frame[w] = x}
Pins ==
    /\ \A x \in Frame : frames[x].pin = Cardinality(Pinners(x))
    /\ \A w \in Worker : pc[w] = "pinned" => frames[frame[w]].id = page[w]

\* A file is open on one descriptor; workers use open files that are not being closed.
OneFd == \A fd, other \in Fd : file_of[fd] # Nil /\ file_of[fd] = file_of[other] => fd = other
UsersOpen ==
    \A w \in Worker : pc[w] # "idle" => file_of[page[w][1]] # Nil /\ ddl.fd # page[w][1]

\* A page in the pool belongs to an open file and has been created; a page number
\* between allocate_page and new_page is nobody else's.
ResidentBorn ==
    \A id \in PageId : Resident(id) =>
        file_of[id[1]] # Nil /\ id[2] \in born[file_of[id[1]]]
AllocsOf(fd) == {w \in Worker : pc[w] = "alloc" /\ page[w][1] = fd}
Fresh ==
    \A w \in Worker : pc[w] = "alloc" =>
        /\ page[w][2] \notin born[file_of[page[w][1]]]
        /\ \A u \in Worker : pc[u] = "alloc" /\ page[u] = page[w] => u = w

\* The numbers given out are those of the pages there are and of those under way;
\* num_pages counts the former, and the header on disk does once the file is closed.
Dense ==
    \A fd \in Fd : file_of[fd] # Nil =>
        /\ born[file_of[fd]] \cup {page[w][2] : w \in AllocsOf(fd)} = 1 .. fd2pageno[fd] - 1
        /\ num_pages[fd] + Cardinality(AllocsOf(fd)) = fd2pageno[fd]
Headed ==
    /\ \A f \in File : (\A fd \in Fd : file_of[fd] # f) => born[f] = 1 .. hdr[f] - 1
    /\ ddl.pc # "idle" => hdr[file_of[ddl.fd]] = num_pages[ddl.fd]

\* A close has discarded the shards before the present one, and of the present one
\* all but what is still to do.
Discarded ==
    ddl.pc \in {"collect", "delete"} =>
        \A id \in PageId : Resident(id) /\ id[1] = ddl.fd =>
            /\ shard_of(id) >= ddl.shard
            /\ ddl.pc = "delete" /\ shard_of(id) = ddl.shard => id \in ddl.todo

\* A page in the pool has its last content; what is not on disk is dirty, or will be
\* when the worker that wrote it unpins it.
Unsaved(id) ==
    \/ frames[page_table[id]].dirty
    \/ \E w \in Worker : pc[w] = "pinned" /\ page[w] = id /\ wrote[w]
Cached ==
    \A id \in PageId : Resident(id) =>
        frames[page_table[id]].data = latest[file_of[id[1]]][id[2]]
Kept ==
    \A f \in File, p \in PageNo :
        \/ \E fd \in Fd : file_of[fd] = f /\ Resident(<<fd, p>>) /\ Unsaved(<<fd, p>>)
        \/ /\ disk[f].data[p] = latest[f][p]
           /\ p \in born[f] => p < disk[f].size
Unborn == \A f \in File, p \in PageNo : p \notin born[f] => latest[f][p] = 0

Group1 == Lists /\ Placed /\ Pins /\ OneFd /\ UsersOpen
Group2 == ResidentBorn /\ Fresh /\ Dense /\ Headed /\ Discarded
Group3 == Cached /\ Kept /\ Unborn
IInv == Base /\ (Sound => Group1 /\ Group2 /\ Group3)

-----------------------------------------------------------------------------
(* Lists without repetition *)

LEMMA RemoveElement ==
    ASSUME NEW S, NEW q \in Seq(S), IsInjective(q), NEW k \in DOMAIN q
    PROVE  /\ RemoveAt(q, k) \in Seq(S) /\ IsInjective(RemoveAt(q, k))
           /\ ToSet(RemoveAt(q, k)) = ToSet(q) \ {q[k]}
<1> DEFINE n == Len(q)
           r == RemoveAt(q, k)
<1>1. n \in Nat /\ DOMAIN q = 1 .. n /\ k \in 1 .. n /\ \A i \in 1 .. n : q[i] \in S
  BY LenProperties, ElementOfSeq
<1>2. /\ SubSeq(q, 1, k - 1) \in Seq(S) /\ Len(SubSeq(q, 1, k - 1)) = k - 1
      /\ \A i \in 1 .. k - 1 : SubSeq(q, 1, k - 1)[i] = q[i]
  BY <1>1, SubSeqProperties
<1>3. /\ SubSeq(q, k + 1, n) \in Seq(S) /\ Len(SubSeq(q, k + 1, n)) = n - k
      /\ \A i \in 1 .. n - k : SubSeq(q, k + 1, n)[i] = q[k + i]
  BY <1>1, SubSeqProperties
<1>4. /\ r \in Seq(S) /\ Len(r) = n - 1
      /\ \A i \in 1 .. n - 1 : r[i] = IF i < k THEN q[i] ELSE q[i + 1]
  <2> DEFINE a == SubSeq(q, 1, k - 1)
             b == SubSeq(q, k + 1, n)
  <2>1. r = a \o b
    BY DEF RemoveAt
  <2>2. /\ a \in Seq(S) /\ Len(a) = k - 1 /\ \A i \in 1 .. k - 1 : a[i] = q[i]
        /\ b \in Seq(S) /\ Len(b) = n - k /\ \A i \in 1 .. n - k : b[i] = q[k + i]
    BY <1>2, <1>3
  <2> HIDE DEF a, b, r
  <2>3. /\ a \o b \in Seq(S) /\ Len(a \o b) = Len(a) + Len(b)
        /\ \A i \in 1 .. Len(a) + Len(b) :
               (a \o b)[i] = IF i <= Len(a) THEN a[i] ELSE b[i - Len(a)]
    BY <2>2, ConcatProperties
  <2>4. r \in Seq(S) /\ Len(r) = n - 1
    BY <1>1, <2>1, <2>2, <2>3
  <2>5. ASSUME NEW i \in 1 .. n - 1, i < k PROVE r[i] = q[i]
    BY <1>1, <2>1, <2>2, <2>3, <2>5
  <2>6. ASSUME NEW i \in 1 .. n - 1, ~(i < k) PROVE r[i] = q[i + 1]
    <3>1. r[i] = b[i - (k - 1)] /\ i - (k - 1) \in 1 .. n - k
      BY <1>1, <2>1, <2>2, <2>3, <2>6, SMTT(30)
    <3>2. QED BY <1>1, <2>2, <3>1
  <2>7. QED BY <2>4, <2>5, <2>6
<1>5. DOMAIN r = 1 .. n - 1
  BY <1>4, LenProperties
<1> HIDE DEF r
<1>6. \A i, j \in 1 .. n : q[i] = q[j] => i = j
  BY <1>1 DEF IsInjective
<1>7. IsInjective(r)
  BY <1>1, <1>4, <1>5, <1>6 DEF IsInjective
<1>8. ToSet(r) \subseteq ToSet(q) \ {q[k]}
  BY <1>1, <1>4, <1>5, <1>6, SMTT(30) DEF ToSet
<1>9. ASSUME NEW x \in ToSet(q), x # q[k] PROVE x \in ToSet(r)
  <2>1. PICK i \in 1 .. n : q[i] = x
    BY <1>1 DEF ToSet
  <2>2. CASE i < k
    BY <1>1, <1>4, <1>5, <2>1, <2>2 DEF ToSet
  <2>3. CASE i > k
    <3>1. i - 1 \in 1 .. n - 1 /\ r[i - 1] = x
      BY <1>1, <1>4, <2>1, <2>3
    <3>2. QED BY <1>5, <3>1 DEF ToSet
  <2>4. QED BY <1>1, <1>9, <2>1, <2>2, <2>3
<1>10. QED BY <1>4, <1>7, <1>8, <1>9 DEF r

LEMMA PinElement ==
    ASSUME NEW S, NEW q \in Seq(S), IsInjective(q), NEW x
    PROVE  /\ ReplacerPin(q, x) \in Seq(S) /\ IsInjective(ReplacerPin(q, x))
           /\ ToSet(ReplacerPin(q, x)) = ToSet(q) \ {x}
<1>1. CASE x \in ToSet(q)
  <2> DEFINE k == CHOOSE i \in DOMAIN q : q[i] = x
  <2>1. k \in DOMAIN q /\ q[k] = x
    BY <1>1 DEF ToSet
  <2>2. ReplacerPin(q, x) = RemoveAt(q, k)
    BY <1>1 DEF ReplacerPin
  <2> HIDE DEF k
  <2>3. QED BY <2>1, <2>2, RemoveElement
<1>2. CASE x \notin ToSet(q)
  BY <1>2 DEF ReplacerPin
<1>3. QED BY <1>1, <1>2

LEMMA UnpinElement ==
    ASSUME NEW S, NEW q \in Seq(S), IsInjective(q), NEW x \in S
    PROVE  /\ ReplacerUnpin(q, x) \in Seq(S) /\ IsInjective(ReplacerUnpin(q, x))
           /\ ToSet(ReplacerUnpin(q, x)) = ToSet(q) \cup {x}
<1>1. CASE x \in ToSet(q)
  BY <1>1 DEF ReplacerUnpin
<1>2. CASE x \notin ToSet(q)
  <2> DEFINE n == Len(q)
             r == <<x>> \o q
  <2>1. n \in Nat /\ DOMAIN q = 1 .. n /\ \A i \in 1 .. n : q[i] \in S /\ q[i] # x
    BY <1>2, LenProperties, ElementOfSeq DEF ToSet
  <2>2. /\ r \in Seq(S) /\ Len(r) = n + 1
        /\ r[1] = x /\ \A i \in 2 .. n + 1 : r[i] = q[i - 1]
    BY <2>1, ConcatProperties
  <2>3. DOMAIN r = 1 .. n + 1
    BY <2>2, LenProperties
  <2> HIDE DEF r
  <2>4. IsInjective(r)
    <3>1. \A i, j \in 1 .. n : q[i] = q[j] => i = j
      BY <2>1 DEF IsInjective
    <3>2. SUFFICES ASSUME NEW i \in 1 .. n + 1, NEW j \in 1 .. n + 1, r[i] = r[j]
                   PROVE i = j
      BY <2>3 DEF IsInjective
    <3>3. CASE i = 1 \/ j = 1
      BY <2>1, <2>2, <3>2, <3>3
    <3>4. CASE i # 1 /\ j # 1
      <4>1. /\ i \in 2 .. n + 1 /\ j \in 2 .. n + 1
            /\ i - 1 \in 1 .. n /\ j - 1 \in 1 .. n
        BY <2>1, <3>4
      <4>2. q[i - 1] = q[j - 1]
        BY <2>2, <3>2, <4>1
      <4>3. QED BY <3>1, <4>1, <4>2
    <3>5. QED BY <3>3, <3>4
  <2>5. ToSet(r) \subseteq ToSet(q) \cup {x}
    BY <2>1, <2>2, <2>3 DEF ToSet
  <2>6. ASSUME NEW y \in ToSet(q) PROVE y \in ToSet(r)
    <3>1. PICK i \in 1 .. n : q[i] = y
      BY <2>1 DEF ToSet
    <3>2. i + 1 \in 1 .. n + 1 /\ r[i + 1] = y
      BY <2>1, <2>2, <3>1
    <3>3. QED BY <2>3, <3>2 DEF ToSet
  <2>7. x \in ToSet(r)
    BY <2>1, <2>2, <2>3 DEF ToSet
  <2>8. ReplacerUnpin(q, x) = r
    BY <1>2 DEF ReplacerUnpin, r
  <2>9. QED BY <2>2, <2>4, <2>5, <2>6, <2>7, <2>8
<1>3. QED BY <1>1, <1>2

LEMMA TailElement ==
    ASSUME NEW S, NEW q \in Seq(S), IsInjective(q), q # <<>>
    PROVE  /\ Head(q) \in ToSet(q) /\ Head(q) \in S
           /\ Tail(q) \in Seq(S) /\ IsInjective(Tail(q))
           /\ ToSet(Tail(q)) = ToSet(q) \ {Head(q)}
<1> DEFINE n == Len(q)
           r == Tail(q)
<1>1. n \in Nat /\ n > 0 /\ DOMAIN q = 1 .. n /\ \A i \in 1 .. n : q[i] \in S
  BY LenProperties, ElementOfSeq, EmptySeq
<1>2. /\ Head(q) = q[1]
      /\ r \in Seq(S) /\ Len(r) = n - 1 /\ \A i \in 1 .. n - 1 : r[i] = q[i + 1]
  BY <1>1, HeadTailProperties
<1>3. DOMAIN r = 1 .. n - 1
  BY <1>2, LenProperties
<1> HIDE DEF r
<1>4. \A i, j \in 1 .. n : q[i] = q[j] => i = j
  BY <1>1 DEF IsInjective
<1>5. IsInjective(r)
  BY <1>1, <1>2, <1>3, <1>4 DEF IsInjective
<1>6. ToSet(r) \subseteq ToSet(q) \ {q[1]}
  BY <1>1, <1>2, <1>3, <1>4 DEF ToSet
<1>7. ASSUME NEW x \in ToSet(q), x # q[1] PROVE x \in ToSet(r)
  <2>1. PICK i \in 1 .. n : q[i] = x
    BY <1>1 DEF ToSet
  <2>2. i - 1 \in 1 .. n - 1 /\ r[i - 1] = x
    BY <1>1, <1>2, <1>7, <2>1
  <2>3. QED BY <1>3, <2>2 DEF ToSet
<1>8. Head(q) \in ToSet(q)
  BY <1>1, <1>2 DEF ToSet
<1>9. QED BY <1>1, <1>2, <1>5, <1>6, <1>7, <1>8 DEF r

LEMMA FrontElement ==
    ASSUME NEW S, NEW q \in Seq(S), IsInjective(q), q # <<>>
    PROVE  /\ Last(q) \in ToSet(q) /\ Last(q) \in S
           /\ Front(q) \in Seq(S) /\ IsInjective(Front(q))
           /\ ToSet(Front(q)) = ToSet(q) \ {Last(q)}
<1> DEFINE n == Len(q)
           r == Front(q)
<1>1. n \in Nat /\ n > 0 /\ DOMAIN q = 1 .. n /\ \A i \in 1 .. n : q[i] \in S
  BY LenProperties, ElementOfSeq, EmptySeq
<1>2. r \in Seq(S) /\ Len(r) = n - 1 /\ \A i \in 1 .. n - 1 : r[i] = q[i]
  BY <1>1, SubSeqProperties DEF Front
<1>3. DOMAIN r = 1 .. n - 1 /\ Last(q) = q[n]
  BY <1>2, LenProperties DEF Last
<1> HIDE DEF r
<1>4. \A i, j \in 1 .. n : q[i] = q[j] => i = j
  BY <1>1 DEF IsInjective
<1>5. IsInjective(r)
  BY <1>1, <1>2, <1>3, <1>4 DEF IsInjective
<1>6. ToSet(r) \subseteq ToSet(q) \ {q[n]}
  BY <1>1, <1>2, <1>3, <1>4 DEF ToSet
<1>7. ASSUME NEW x \in ToSet(q), x # q[n] PROVE x \in ToSet(r)
  BY <1>1, <1>2, <1>3, <1>7 DEF ToSet
<1>8. Last(q) \in ToSet(q)
  BY <1>1, <1>3 DEF ToSet
<1>9. QED BY <1>1, <1>2, <1>3, <1>5, <1>6, <1>7, <1>8 DEF r

LEMMA AppendElement ==
    ASSUME NEW S, NEW q \in Seq(S), IsInjective(q), NEW x \in S, x \notin ToSet(q)
    PROVE  /\ Append(q, x) \in Seq(S) /\ IsInjective(Append(q, x))
           /\ ToSet(Append(q, x)) = ToSet(q) \cup {x}
<1> DEFINE n == Len(q)
           r == Append(q, x)
<1>1. n \in Nat /\ DOMAIN q = 1 .. n /\ \A i \in 1 .. n : q[i] \in S /\ q[i] # x
  BY LenProperties, ElementOfSeq DEF ToSet
<1>2. /\ r \in Seq(S) /\ Len(r) = n + 1
      /\ r[n + 1] = x /\ \A i \in 1 .. n : r[i] = q[i]
  BY <1>1, AppendProperties
<1>3. DOMAIN r = 1 .. n + 1
  BY <1>2, LenProperties
<1> HIDE DEF r
<1>4. IsInjective(r)
  BY <1>1, <1>2, <1>3 DEF IsInjective
<1>5. ToSet(r) \subseteq ToSet(q) \cup {x}
  BY <1>1, <1>2, <1>3 DEF ToSet
<1>6. ToSet(q) \subseteq ToSet(r) /\ x \in ToSet(r)
  BY <1>1, <1>2, <1>3 DEF ToSet
<1>7. QED BY <1>2, <1>4, <1>5, <1>6 DEF r

LEMMA SetToSeqElements ==
    ASSUME NEW S, IsFiniteSet(S)
    PROVE  SetToSeq(S) \in Seq(S) /\ IsInjective(SetToSeq(S)) /\ ToSet(SetToSeq(S)) = S
<1> DEFINE n == Cardinality(S)
           q == SetToSeq(S)
<1>1. n \in Nat /\ ExistsBijection(1 .. n, S)
  BY FS_CardinalityType
<1>2. PICK b \in Bijection(1 .. n, S) : TRUE
  BY <1>1 DEF ExistsBijection
<1>3. b \in [1 .. n -> S] /\ IsInjective(b)
  BY <1>2 DEF Bijection, Injection, IsInjective
<1>4. q \in [1 .. n -> S] /\ IsInjective(q)
  BY <1>3 DEF SetToSeq
<1> HIDE DEF q
<1>5. q \in Seq(S) /\ DOMAIN q = 1 .. n
  BY <1>1, <1>4, IsASeq
<1>6. q \in Injection(1 .. n, S)
  BY <1>4 DEF Injection, IsInjective
<1>7. q \in Surjection(1 .. n, S)
  BY <1>1, <1>6, FS_Injection, FS_Interval
<1>8. ToSet(q) = S
  BY <1>5, <1>7 DEF Surjection, ToSet
<1>9. QED BY <1>4, <1>5, <1>8 DEF q

LEMMA ListTypes ==
    ASSUME NEW S, NEW q \in Seq(S), NEW x \in S
    PROVE  /\ ReplacerPin(q, x) \in Seq(S) /\ ReplacerUnpin(q, x) \in Seq(S)
           /\ Append(q, x) \in Seq(S)
           /\ q # <<>> => /\ Head(q) \in S /\ Last(q) \in S
                          /\ Tail(q) \in Seq(S) /\ Front(q) \in Seq(S)
<1> DEFINE n == Len(q)
<1>1. n \in Nat /\ DOMAIN q = 1 .. n /\ \A i \in 1 .. n : q[i] \in S
  BY LenProperties, ElementOfSeq
<1>2. ReplacerPin(q, x) \in Seq(S)
  <2>1. ASSUME NEW k \in 1 .. n PROVE RemoveAt(q, k) \in Seq(S)
    <3>1. SubSeq(q, 1, k - 1) \in Seq(S)
      BY <1>1, SubSeqProperties
    <3>2. SubSeq(q, k + 1, n) \in Seq(S)
      BY <1>1, SubSeqProperties
    <3>3. QED BY <3>1, <3>2, ConcatProperties DEF RemoveAt
  <2>2. CASE x \in ToSet(q)
    <3> DEFINE k == CHOOSE i \in DOMAIN q : q[i] = x
    <3>1. k \in 1 .. n
      BY <1>1, <2>2 DEF ToSet
    <3>2. ReplacerPin(q, x) = RemoveAt(q, k)
      BY <2>2 DEF ReplacerPin
    <3> HIDE DEF k
    <3>3. QED BY <2>1, <3>1, <3>2
  <2>3. QED BY <2>2 DEF ReplacerPin
<1>3. ReplacerUnpin(q, x) \in Seq(S)
  <2>1. <<x>> \in Seq(S)
    OBVIOUS
  <2>2. QED BY <2>1, ConcatProperties DEF ReplacerUnpin
<1>4. Append(q, x) \in Seq(S)
  BY AppendProperties
<1>5. ASSUME q # <<>> PROVE Head(q) \in S /\ Tail(q) \in Seq(S)
  BY <1>1, <1>5, HeadTailProperties, EmptySeq
<1>6. ASSUME q # <<>> PROVE Last(q) \in S /\ Front(q) \in Seq(S)
  <2>1. n > 0
    BY <1>1, <1>6, EmptySeq
  <2>2. Last(q) \in S
    BY <1>1, <2>1 DEF Last
  <2>3. Front(q) \in Seq(S)
    BY <1>1, <2>1, SubSeqProperties DEF Front
  <2>4. QED BY <2>2, <2>3
<1>7. QED BY <1>2, <1>3, <1>4, <1>5, <1>6

-----------------------------------------------------------------------------
(* Constants, and the size of a file after a flush *)

LEMMA Constants ==
    /\ \A id \in PageId : /\ id[1] \in Fd /\ id[2] \in PageNo /\ id = <<id[1], id[2]>>
                          /\ id # NoPage /\ id[1] # Nil /\ shard_of(id) \in Shard
    /\ NoPage \notin PageId /\ NoPage[1] = Nil
    /\ 0 \in Data /\ 0 \in Shard /\ EmptyFile \in [size : 1 .. MaxPage + 1, data : [PageNo -> Data]]
<1>1. \A p \in PageNo : p % NShards \in Shard
  BY BoundsAssumption DEF PageNo, Shard
<1>2. QED BY <1>1, BoundsAssumption DEF PageId, NoPage, shard_of, Data, Shard, EmptyFile, PageNo

LEMMA SizeExists ==
    ASSUME NEW size \in 1 .. MaxPage + 1, NEW ids \in SUBSET PageId
    PROVE  \E n \in 1 .. MaxPage + 1 : /\ size <= n /\ \A id \in ids : id[2] < n
                                       /\ n = size \/ \E id \in ids : n = id[2] + 1
<1> DEFINE Above == {n \in Nat : size <= n /\ \A id \in ids : id[2] < n}
<1>1. \A id \in ids : id[2] \in 1 .. MaxPage
  BY Constants DEF PageNo
<1>2. MaxPage + 1 \in Above
  BY <1>1, BoundsAssumption
<1>3. PICK n \in Above : \A m \in Above : n <= m
  <2>1. Above \subseteq Nat /\ Above # {}
    BY <1>2
  <2> HIDE DEF Above
  <2>2. PICK n \in Above : \A m \in Above : <<m, n>> \notin OpToRel(<, Nat)
    BY <2>1, WFMin, NatLessThanWellFounded
  <2>3. ASSUME NEW m \in Above PROVE n <= m
    <3>1. ~(m < n)
      <4>1. <<m, n>> \in Nat \X Nat /\ <<m, n>>[1] = m /\ <<m, n>>[2] = n
        BY <2>1
      <4>2. OpToRel(<, Nat) = {ss \in Nat \X Nat : ss[1] < ss[2]}
        BY DEF OpToRel
      <4>3. QED BY <4>1, <4>2, <2>2
    <3>2. QED BY <3>1, <2>1
  <2>4. QED BY <2>3
<1>4. n \in 1 .. MaxPage + 1 /\ size <= n /\ \A id \in ids : id[2] < n
  BY <1>2, <1>3, BoundsAssumption
<1>5. n = size \/ \E id \in ids : n = id[2] + 1
  <2> SUFFICES ASSUME n # size, \A id \in ids : n # id[2] + 1
               PROVE FALSE
    OBVIOUS
  <2>1. n - 1 \in Above
    BY <1>1, <1>4
  <2>2. QED BY <2>1, <1>3, <1>4
<1>6. QED BY <1>4, <1>5

\* The length of a file after CloseFlush has written the pages ids.
LEMMA FlushedSize ==
    ASSUME NEW size \in 1 .. MaxPage + 1, NEW ids \in SUBSET PageId,
           NEW m, m = CHOOSE n \in 1 .. MaxPage + 1 :
                         /\ size <= n /\ \A id \in ids : id[2] < n
                         /\ n = size \/ \E id \in ids : n = id[2] + 1
    PROVE  m \in 1 .. MaxPage + 1 /\ size <= m /\ \A id \in ids : id[2] < m
BY SizeExists

\* write_page sets the content of the page, and lengthens the file if need be.
LEMMA WritePage ==
    ASSUME TypeOK, NEW id \in PageId, NEW v \in Data
    PROVE  LET d == write_page(disk, id, v)
               f == file_of[id[1]]
           IN  /\ d \in [File -> [size : 1 .. MaxPage + 1, data : [PageNo -> Data]]]
               /\ f # Nil => d[f].data[id[2]] = v /\ id[2] < d[f].size
               /\ \A g \in File : /\ disk[g].size <= d[g].size
                                  /\ \A p \in PageNo : <<g, p>> # <<f, id[2]>> =>
                                                           d[g].data[p] = disk[g].data[p]
<1> DEFINE d == write_page(disk, id, v)
           f == file_of[id[1]]
<1>1. id[1] \in Fd /\ id[2] \in 1 .. MaxPage /\ PageNo = 1 .. MaxPage
  BY Constants DEF PageNo
<1>2. f \in File \cup {Nil} /\ Nil \notin File
  BY <1>1, BoundsAssumption DEF TypeOK
<1>3. disk \in [File -> [size : 1 .. MaxPage + 1, data : [PageNo -> Data]]]
  BY DEF TypeOK
<1> DEFINE e == [size |-> IF disk[f].size <= id[2] THEN id[2] + 1 ELSE disk[f].size,
                 data |-> [disk[f].data EXCEPT ![id[2]] = v]]
<1>4. d = [disk EXCEPT ![f] = e]
  BY DEF write_page
<1> SUFFICES
        /\ d \in [File -> [size : 1 .. MaxPage + 1, data : [PageNo -> Data]]]
        /\ f # Nil => d[f].data[id[2]] = v /\ id[2] < d[f].size
        /\ \A g \in File : /\ disk[g].size <= d[g].size
                           /\ \A p \in PageNo : <<g, p>> # <<f, id[2]>> =>
                                                    d[g].data[p] = disk[g].data[p]
  OBVIOUS
<1> HIDE DEF d, f
<1>5. CASE f = Nil
  <2>1. d = disk
    BY <1>2, <1>3, <1>4, <1>5
  <2>2. QED BY <1>3, <1>5, <2>1
<1>6. CASE f # Nil
  <2>1. f \in File
    BY <1>2, <1>6
  <2>2. /\ disk[f].size \in 1 .. MaxPage + 1 /\ disk[f].data \in [PageNo -> Data]
    BY <1>3, <2>1
  <2>3. /\ e \in [size : 1 .. MaxPage + 1, data : [PageNo -> Data]]
        /\ e.data[id[2]] = v /\ id[2] < e.size /\ disk[f].size <= e.size
        /\ \A p \in PageNo : p # id[2] => e.data[p] = disk[f].data[p]
    BY <1>1, <2>2, BoundsAssumption
  <2> HIDE DEF e
  <2>4. /\ d \in [File -> [size : 1 .. MaxPage + 1, data : [PageNo -> Data]]]
        /\ d[f] = e /\ \A g \in File : g # f => d[g] = disk[g]
    BY <1>3, <1>4, <2>1, <2>3
  <2>5. \A g \in File : disk[g].size \in 1 .. MaxPage + 1
    BY <1>3
  <2>6. QED BY <2>3, <2>4, <2>5
<1>7. QED BY <1>5, <1>6

LEMMA WriteBackTypes ==
    ASSUME TypeOK, Named, NEW x \in Frame, WriteBack(x)
    PROVE  disk' \in [File -> [size : 1 .. MaxPage + 1, data : [PageNo -> Data]]]
<1>1. CASE frames[x].dirty
  <2>1. frames[x].id \in PageId /\ frames[x].data \in Data
    BY <1>1 DEF TypeOK, Named
  <2>2. disk' = write_page(disk, frames[x].id, frames[x].data)
    BY <1>1 DEF WriteBack
  <2>3. QED BY <2>1, <2>2, WritePage
<1>2. CASE ~frames[x].dirty
  BY <1>2 DEF WriteBack, TypeOK
<1>3. QED BY <1>1, <1>2

LEMMA VictimTypes ==
    ASSUME TypeOK, NEW s \in Shard, NEW x, find_victim_page(s, x)
    PROVE  x \in Frame /\ free_list' \in [Shard -> Seq(Frame)] /\ lru' \in [Shard -> Seq(Frame)]
<1>1. /\ free_list \in [Shard -> Seq(Frame)] /\ free_list[s] \in Seq(Frame)
      /\ lru \in [Shard -> Seq(Frame)] /\ lru[s] \in Seq(Frame)
  BY DEF TypeOK
<1>2. CASE free_list[s] # <<>>
  <2>1. x \in Frame /\ Tail(free_list[s]) \in Seq(Frame)
    BY <1>1, <1>2, HeadTailProperties DEF find_victim_page
  <2>2. QED BY <1>1, <1>2, <2>1 DEF find_victim_page
<1>3. CASE free_list[s] = <<>>
  <2>1. lru[s] # <<>> /\ x = Last(lru[s]) /\ lru' = [lru EXCEPT ![s] = Front(@)]
        /\ free_list' = free_list
    BY <1>3 DEF find_victim_page
  <2>2. x \in Frame
    <3>1. Len(lru[s]) \in Nat \ {0}
      BY <1>1, <2>1, EmptySeq
    <3>2. lru[s][Len(lru[s])] \in Frame
      BY <1>1, <3>1, ElementOfSeq
    <3>3. QED BY <2>1, <3>2 DEF Last
  <2>3. Front(lru[s]) \in Seq(Frame)
    BY <1>1, <2>1, <2>2, ListTypes
  <2>4. QED BY <1>1, <2>1, <2>2, <2>3
<1>4. QED BY <1>2, <1>3

-----------------------------------------------------------------------------
(* What holds in every state *)

LEMMA InitBase == Init => Base
<1> SUFFICES ASSUME Init PROVE Base
  OBVIOUS
<1> USE DEF Init
<1>1. free_list \in [Shard -> Seq(Frame)] /\ lru \in [Shard -> Seq(Frame)]
  <2>1. ASSUME NEW s \in Shard PROVE SetToSeq({x \in Frame : FrameShard[x] = s}) \in Seq(Frame)
    <3> DEFINE own == {x \in Frame : FrameShard[x] = s}
    <3>1. IsFiniteSet(own)
      BY FiniteAssumption, FS_Subset
    <3>2. SetToSeq(own) \in Seq(own)
      BY <3>1, SetToSeqElements
    <3>3. QED BY <3>2, SeqMonotonic
  <2>2. QED BY <2>1, EmptySeq
<1>2. frames \in [Frame -> [id : PageId \cup {NoPage}, data : Data, dirty : BOOLEAN, pin : Nat]]
  BY Constants DEF Free
<1>3. disk \in [File -> [size : 1 .. MaxPage + 1, data : [PageNo -> Data]]]
  BY Constants
<1>4. fd2pageno \in [Fd -> Nat] /\ free_pages \in [Fd -> Seq(PageNo)]
  BY EmptySeq
<1>5. /\ file_of \in [Fd -> File \cup {Nil}] /\ num_pages \in [Fd -> Nat \ {0}]
      /\ hdr \in [File -> Nat \ {0}] /\ page_table \in [PageId -> Frame \cup {Nil}]
  OBVIOUS
<1>6. /\ pc \in [Worker -> {"idle", "alloc", "pinned"}]
      /\ page \in [Worker -> PageId \cup {NoPage}] /\ frame \in [Worker -> Frame \cup {Nil}]
      /\ wrote \in [Worker -> BOOLEAN]
  OBVIOUS
<1>7. /\ bg \in [shard : Shard, todo : SUBSET PageId]
      /\ ddl \in [pc : {"idle", "flush", "collect", "delete"}, fd : Fd \cup {Nil},
                  shard : Shard, todo : SUBSET PageId]
  BY Constants DEF Idle
<1>8. /\ latest \in [File -> [PageNo -> Data]] /\ born \in [File -> SUBSET PageNo]
      /\ writes \in 0 .. MaxWrites /\ opens \in 0 .. MaxOpens
      /\ early \in BOOLEAN /\ raced \in BOOLEAN /\ recycled \in BOOLEAN
  <2>1. 0 \in Data /\ writes \in 0 .. MaxWrites /\ opens \in 0 .. MaxOpens
    BY Constants, BoundsAssumption
  <2>2. latest \in [File -> [PageNo -> Data]] /\ born \in [File -> SUBSET PageNo]
    BY <2>1
  <2>3. QED BY <2>1, <2>2
<1>9. TypeOK
  <2> HIDE DEF Init
  <2>1. QED BY <1>1, <1>2, <1>3, <1>4, <1>5, <1>6, <1>7, <1>8 DEF TypeOK
<1>10. Mapped /\ Named /\ Working /\ Numbered /\ Closing
  BY DEF Mapped, Named, Working, Numbered, Closing, Resident, Free, Idle
<1>11. QED BY <1>9, <1>10 DEF Base

\* A victim's frame is mapped to another page.
LEMMA RemapBase ==
    ASSUME Base, NEW id \in PageId, NEW s \in Shard, NEW x \in Frame, Remap(x, id),
           NEW fr \in [id : {id}, data : Data, dirty : BOOLEAN, pin : Nat],
           frames' = [frames EXCEPT ![x] = fr]
    PROVE  /\ page_table' \in [PageId -> Frame \cup {Nil}]
           /\ frames' \in [Frame -> [id : PageId \cup {NoPage}, data : Data,
                                     dirty : BOOLEAN, pin : Nat]]
           /\ Mapped' /\ Named'
<1>1. /\ page_table \in [PageId -> Frame \cup {Nil}]
      /\ frames \in [Frame -> [id : PageId \cup {NoPage}, data : Data, dirty : BOOLEAN, pin : Nat]]
  BY DEF Base, TypeOK
<1>2. /\ fr \in [id : PageId \cup {NoPage}, data : Data, dirty : BOOLEAN, pin : Nat]
      /\ fr.id = id
  OBVIOUS
<1> HIDE DEF Data
<1>3. page_table' \in [PageId -> Frame \cup {Nil}]
  BY <1>1 DEF Remap
<1>4. frames' \in [Frame -> [id : PageId \cup {NoPage}, data : Data, dirty : BOOLEAN, pin : Nat]]
  BY <1>1, <1>2
<1>5. Mapped'
  <2> SUFFICES ASSUME NEW i \in PageId, page_table'[i] # Nil
               PROVE frames'[page_table'[i]].id = i
    BY DEF Mapped, Resident
  <2>1. CASE i = id
    BY <1>1, <1>2, <2>1 DEF Remap
  <2>2. CASE i # id
    <3>1. page_table'[i] = page_table[i] /\ i # frames[x].id
      BY <2>2 DEF Remap
    <3>2. page_table[i] \in Frame /\ frames[page_table[i]].id = i
      BY <1>1, <3>1 DEF Base, Mapped, Resident
    <3>3. QED BY <1>1, <3>1, <3>2
  <2>3. QED BY <2>1, <2>2
<1>6. Named'
  BY <1>1, <1>2 DEF Base, Named
<1>7. QED BY <1>3, <1>4, <1>5, <1>6

LEMMA FetchBase ==
    ASSUME Base, NEW w \in Worker, NEW id \in PageId,
           FetchHit(w, id) \/ FetchMiss(w, id) \/ FetchShortRead(w, id)
    PROVE  Base'
<1> USE DEF Base
<1>1. /\ id[1] \in Fd /\ id[2] \in PageNo /\ shard_of(id) \in Shard /\ 0 \in Data
      /\ file_of[id[1]] \in File
  BY Constants DEF FetchHit, FetchMiss, FetchShortRead, Fetchable, TypeOK
<1>2. CASE FetchHit(w, id)
  <2> DEFINE x == page_table[id]
  <2>1. x \in Frame /\ frames[x].id = id
    BY <1>2 DEF FetchHit, Resident, TypeOK, Mapped
  <2>2. lru' \in [Shard -> Seq(Frame)]
    <3>1. lru[shard_of(id)] \in Seq(Frame)
      BY <1>1 DEF TypeOK
    <3>2. ReplacerPin(lru[shard_of(id)], x) \in Seq(Frame)
      BY <2>1, <3>1, ListTypes
    <3>3. QED BY <1>2, <3>2 DEF FetchHit, TypeOK
  <2>3. frames' = [frames EXCEPT ![x] = [frames[x] EXCEPT !.pin = frames[x].pin + 1]]
    BY <1>2 DEF FetchHit
  <2>4. /\ frames' \in [Frame -> [id : PageId \cup {NoPage}, data : Data, dirty : BOOLEAN,
                                  pin : Nat]]
        /\ \A y \in Frame : /\ frames'[y].id = frames[y].id
                            /\ frames'[y].dirty = frames[y].dirty
                            /\ y # x => frames'[y] = frames[y]
    <3> DEFINE fr == [frames[x] EXCEPT !.pin = frames[x].pin + 1]
    <3>1. /\ frames \in [Frame -> [id : PageId \cup {NoPage}, data : Data, dirty : BOOLEAN,
                                    pin : Nat]]
          /\ frames[x] \in [id : PageId \cup {NoPage}, data : Data, dirty : BOOLEAN, pin : Nat]
      BY <2>1 DEF TypeOK
    <3>2. /\ fr \in [id : PageId \cup {NoPage}, data : Data, dirty : BOOLEAN, pin : Nat]
          /\ fr.id = frames[x].id /\ fr.dirty = frames[x].dirty
      BY <3>1
    <3> HIDE DEF fr
    <3>3. frames' = [frames EXCEPT ![x] = fr]
      BY <2>3 DEF fr
    <3>4. QED BY <2>1, <3>1, <3>2, <3>3
  <2>5. TypeOK'
    BY <1>1, <1>2, <2>1, <2>2, <2>4
       DEF TypeOK, FetchHit, Pinned, Early, diskvars
  <2>6. Mapped' /\ Named'
    BY <1>2, <2>1, <2>4 DEF FetchHit, Mapped, Named, Resident, TypeOK
  <2>7. Working' /\ Numbered' /\ Closing'
    BY <1>2, <2>1 DEF FetchHit, Pinned, Working, Numbered, Closing, Idle, diskvars, TypeOK
  <2>8. QED BY <2>5, <2>6, <2>7
<1>3. CASE FetchMiss(w, id)
  <2>1. PICK x \in Frame :
           /\ find_victim_page(shard_of(id), x) /\ WriteBack(x) /\ Remap(x, id)
           /\ frames' = [frames EXCEPT ![x] =
                  [id |-> id, data |-> disk'[file_of[id[1]]].data[id[2]],
                   dirty |-> FALSE, pin |-> 1]]
           /\ Pinned(w, id, x)
    BY <1>3 DEF FetchMiss
  <2>2. disk' \in [File -> [size : 1 .. MaxPage + 1, data : [PageNo -> Data]]]
    BY <2>1, WriteBackTypes
  <2>3. free_list' \in [Shard -> Seq(Frame)] /\ lru' \in [Shard -> Seq(Frame)]
    BY <1>1, <2>1, VictimTypes
  <2>4. disk'[file_of[id[1]]].data[id[2]] \in Data
    BY <1>1, <2>2
  <2>5. /\ page_table' \in [PageId -> Frame \cup {Nil}]
        /\ frames' \in [Frame -> [id : PageId \cup {NoPage}, data : Data, dirty : BOOLEAN,
                                  pin : Nat]]
        /\ Mapped' /\ Named'
    <3> DEFINE fr == [id |-> id, data |-> disk'[file_of[id[1]]].data[id[2]],
                      dirty |-> FALSE, pin |-> 1]
    <3>1. fr \in [id : {id}, data : Data, dirty : BOOLEAN, pin : Nat]
      BY <2>4
    <3>2. frames' = [frames EXCEPT ![x] = fr]
      BY <2>1
    <3> HIDE DEF fr
    <3>3. QED BY <1>1, <2>1, <3>1, <3>2, RemapBase
  <2>6. TypeOK'
    BY <1>3, <2>1, <2>2, <2>3, <2>5 DEF TypeOK, FetchMiss, Pinned, Early, diskvars
  <2>7. Working' /\ Numbered' /\ Closing'
    BY <1>3, <2>1 DEF FetchMiss, Pinned, Working, Numbered, Closing, Idle, diskvars, TypeOK
  <2>8. QED BY <2>5, <2>6, <2>7
<1>4. CASE FetchShortRead(w, id)
  <2>1. PICK x \in Frame :
           /\ find_victim_page(shard_of(id), x) /\ WriteBack(x) /\ Remap(x, id)
           /\ frames' = [frames EXCEPT ![x] = [Free EXCEPT !.id = id]]
    BY <1>4 DEF FetchShortRead
  <2>2. disk' \in [File -> [size : 1 .. MaxPage + 1, data : [PageNo -> Data]]]
    BY <2>1, WriteBackTypes
  <2>3. free_list' \in [Shard -> Seq(Frame)] /\ lru' \in [Shard -> Seq(Frame)]
    BY <1>1, <2>1, VictimTypes
  <2>5. /\ page_table' \in [PageId -> Frame \cup {Nil}]
        /\ frames' \in [Frame -> [id : PageId \cup {NoPage}, data : Data, dirty : BOOLEAN,
                                  pin : Nat]]
        /\ Mapped' /\ Named'
    <3> DEFINE fr == [Free EXCEPT !.id = id]
    <3>1. fr \in [id : {id}, data : Data, dirty : BOOLEAN, pin : Nat]
      BY <1>1 DEF Free
    <3>2. frames' = [frames EXCEPT ![x] = fr]
      BY <2>1
    <3> HIDE DEF fr
    <3>3. QED BY <1>1, <2>1, <3>1, <3>2, RemapBase
  <2>6. TypeOK'
    BY <1>4, <2>1, <2>2, <2>3, <2>5 DEF TypeOK, FetchShortRead, workers, Early, diskvars
  <2>7. Working' /\ Numbered' /\ Closing'
    BY <1>4, <2>1 DEF FetchShortRead, workers, Working, Numbered, Closing, Idle, diskvars, TypeOK
  <2>8. QED BY <2>5, <2>6, <2>7
<1>5. QED BY <1>2, <1>3, <1>4

LEMMA NewPageBase ==
    ASSUME Base, NEW w \in Worker,
           (\E fd \in Fd : NewPageNumber(w, fd)) \/ NewPageFrame(w)
    PROVE  Base'
<1> USE DEF Base
<1>1. ASSUME NEW fd \in Fd, NewPageNumber(w, fd) PROVE Base'
  <2>1. file_of[fd] # Nil /\ free_pages[fd] \in Seq(PageNo) /\ fd2pageno[fd] \in Nat \ {0}
    BY <1>1 DEF NewPageNumber, TypeOK, Numbered
  <2>2. CASE free_pages[fd] # <<>>
    <3>1. <<fd, Last(free_pages[fd])>> \in PageId /\ Front(free_pages[fd]) \in Seq(PageNo)
      <4>1. free_pages[fd][1] \in PageNo
        BY <2>1, <2>2, EmptySeq, ElementOfSeq
      <4>2. QED BY <2>1, <2>2, <4>1, ListTypes DEF PageId
    <3>2. /\ page' = [page EXCEPT ![w] = <<fd, Last(free_pages[fd])>>]
          /\ free_pages' = [free_pages EXCEPT ![fd] = Front(@)]
          /\ recycled' = TRUE /\ fd2pageno' = fd2pageno
      BY <1>1, <2>2 DEF NewPageNumber
    <3>3. TypeOK'
      BY <1>1, <3>1, <3>2 DEF TypeOK, NewPageNumber, poolvars
    <3>4. Working' /\ Numbered'
      BY <1>1, <3>1, <3>2 DEF TypeOK, NewPageNumber, Working, Numbered
    <3>5. QED BY <1>1, <3>3, <3>4
              DEF NewPageNumber, poolvars, Mapped, Named, Closing, Idle, Resident
  <2>3. CASE free_pages[fd] = <<>>
    <3>1. <<fd, fd2pageno[fd]>> \in PageId
      BY <1>1, <2>1, <2>3, BoundsAssumption DEF NewPageNumber, PageId, PageNo
    <3>2. /\ page' = [page EXCEPT ![w] = <<fd, fd2pageno[fd]>>]
          /\ fd2pageno' = [fd2pageno EXCEPT ![fd] = @ + 1]
          /\ free_pages' = free_pages /\ recycled' = recycled
      BY <1>1, <2>3 DEF NewPageNumber, next_page_no
    <3>3. TypeOK'
      BY <1>1, <2>1, <3>1, <3>2, SMTT(30) DEF TypeOK, NewPageNumber, poolvars
    <3>4. Working' /\ Numbered'
      BY <1>1, <2>1, <3>1, <3>2 DEF TypeOK, NewPageNumber, Working, Numbered
    <3>5. QED BY <1>1, <3>3, <3>4
              DEF NewPageNumber, poolvars, Mapped, Named, Closing, Idle, Resident
  <2>4. QED BY <2>2, <2>3
<1>2. CASE NewPageFrame(w)
  <2> DEFINE id == page[w]
  <2>1. /\ id \in PageId /\ id[1] \in Fd /\ id[2] \in PageNo /\ shard_of(id) \in Shard
        /\ 0 \in Data
    BY <1>2, Constants DEF NewPageFrame, Working
  <2>2. PICK x \in Frame :
           /\ find_victim_page(shard_of(id), x) /\ WriteBack(x) /\ Remap(x, id)
           /\ frames' = [frames EXCEPT ![x] =
                  [id |-> id, data |-> reset_memory(x), dirty |-> FALSE, pin |-> 1]]
           /\ frame' = [frame EXCEPT ![w] = x]
    BY <1>2 DEF NewPageFrame
  <2>3. disk' \in [File -> [size : 1 .. MaxPage + 1, data : [PageNo -> Data]]]
    BY <2>2, WriteBackTypes
  <2>4. free_list' \in [Shard -> Seq(Frame)] /\ lru' \in [Shard -> Seq(Frame)]
    BY <2>1, <2>2, VictimTypes
  <2>5. /\ page_table' \in [PageId -> Frame \cup {Nil}]
        /\ frames' \in [Frame -> [id : PageId \cup {NoPage}, data : Data, dirty : BOOLEAN,
                                  pin : Nat]]
        /\ Mapped' /\ Named'
    <3> DEFINE fr == [id |-> id, data |-> reset_memory(x), dirty |-> FALSE, pin |-> 1]
    <3>1. fr \in [id : {id}, data : Data, dirty : BOOLEAN, pin : Nat]
      BY <2>1 DEF reset_memory
    <3>2. frames' = [frames EXCEPT ![x] = fr]
      BY <2>2
    <3> HIDE DEF fr, id
    <3>3. QED BY <2>1, <2>2, <3>1, <3>2, RemapBase
  <2>6. /\ num_pages' \in [Fd -> Nat \ {0}] /\ raced' \in BOOLEAN
        /\ born' \in [File -> SUBSET PageNo]
    <3>1. num_pages' \in [Fd -> Nat \ {0}] /\ raced' \in BOOLEAN
      <4>1. num_pages[id[1]] + 1 \in Nat \ {0}
        <5>1. num_pages \in [Fd -> Nat \ {0}]
          BY DEF TypeOK
        <5> HIDE DEF id
        <5>2. num_pages[id[1]] \in Nat
          BY <2>1, <5>1
        <5>3. QED BY <5>2
      <4>2. CountPage(w, id[1])
        BY <1>2 DEF NewPageFrame
      <4>3. num_pages \in [Fd -> Nat \ {0}] /\ raced \in BOOLEAN
        BY DEF TypeOK
      <4>4. \/ num_pages' = [num_pages EXCEPT ![id[1]] = @ + 1] /\ raced' = raced
            \/ num_pages' = num_pages /\ raced' = TRUE
        BY <4>2 DEF CountPage
      <4>5. num_pages' \in [Fd -> Nat \ {0}]
        BY <2>1, <4>1, <4>3, <4>4
      <4>6. QED BY <4>3, <4>4, <4>5
    <3>2. born' \in [File -> SUBSET PageNo]
      BY <1>2, <2>1 DEF NewPageFrame, TypeOK
    <3>3. QED BY <3>1, <3>2
  <2>7. TypeOK'
    BY <1>2, <2>2, <2>3, <2>4, <2>5, <2>6 DEF TypeOK, NewPageFrame
  <2>8. Working' /\ Numbered' /\ Closing'
    BY <1>2, <2>1, <2>2 DEF NewPageFrame, Working, Numbered, Closing, Idle, TypeOK
  <2>9. QED BY <2>5, <2>7, <2>8
<1>3. QED BY <1>1, <1>2

\* A step that changes the frames without moving a page.
LEMMA FramesKept ==
    ASSUME Mapped, Named, page_table \in [PageId -> Frame \cup {Nil}],
           page_table' = page_table,
           \A y \in Frame : /\ frames'[y].id = frames[y].id
                            /\ frames'[y].dirty \/ frames'[y].pin > 0 => frames[y].id \in PageId
    PROVE  Mapped' /\ Named'
BY DEF Mapped, Named, Resident

LEMMA PinnedBase ==
    ASSUME Base, NEW w \in Worker, Write(w) \/ Unpin(w)
    PROVE  Base'
<1> USE DEF Base
<1> DEFINE FrameType == [id : PageId \cup {NoPage}, data : Data, dirty : BOOLEAN, pin : Nat]
           id == page[w]
<1>1. /\ frames \in [Frame -> FrameType] /\ id \in PageId /\ id[1] \in Fd /\ id[2] \in PageNo
      /\ shard_of(id) \in Shard /\ frame[w] \in Frame /\ pc[w] = "pinned"
  BY Constants DEF TypeOK, Working, Write, Unpin
<1>2. CASE Write(w)
  <2> DEFINE fr == [frames[frame[w]] EXCEPT !.data = writes + 1]
  <2>1. writes' = writes + 1 /\ writes' \in 0 .. MaxWrites /\ writes' \in Data
    <3>1. writes \in 0 .. MaxWrites /\ MaxWrites \in Nat
      BY BoundsAssumption DEF TypeOK
    <3>2. writes' = writes + 1 /\ writes < MaxWrites
      BY <1>2 DEF Write
    <3>3. QED BY <3>1, <3>2 DEF Data
  <2>2. frames' = [frames EXCEPT ![frame[w]] = fr]
    BY <1>2, <2>1 DEF Write
  <2>3. /\ fr \in FrameType /\ fr.id = frames[frame[w]].id
        /\ fr.dirty = frames[frame[w]].dirty /\ fr.pin = frames[frame[w]].pin
    BY <1>1, <2>1
  <2> HIDE DEF fr, FrameType
  <2>4. frames' \in [Frame -> FrameType]
    BY <1>1, <2>2, <2>3
  <2>5. \A y \in Frame : /\ frames'[y].id = frames[y].id
                         /\ frames'[y].dirty = frames[y].dirty
                         /\ frames'[y].pin = frames[y].pin
    BY <1>1, <2>2, <2>3
  <2>6. latest' \in [File -> [PageNo -> Data]]
    <3>1. latest' = [latest EXCEPT ![file_of[id[1]]] = [@ EXCEPT ![id[2]] = writes']]
      BY <1>2 DEF Write
    <3>2. QED BY <1>1, <2>1, <3>1 DEF TypeOK
  <2>7. TypeOK'
    BY <1>2, <2>1, <2>4, <2>6 DEF TypeOK, Write, diskvars, FrameType
  <2>8. Mapped' /\ Named'
    <3>1. page_table' = page_table /\ page_table \in [PageId -> Frame \cup {Nil}]
      BY <1>2 DEF Write, TypeOK
    <3>2. QED BY <2>5, <3>1, FramesKept DEF Named
  <2>9. Working' /\ Numbered' /\ Closing'
    BY <1>2 DEF Write, Working, Numbered, Closing, Idle, diskvars
  <2>10. QED BY <2>7, <2>8, <2>9
<1>3. CASE Unpin(w)
  <2>1. /\ frames' \in [Frame -> FrameType] /\ lru' \in [Shard -> Seq(Frame)]
        /\ Mapped' /\ Named'
    <3> DEFINE x == page_table[id]
               d == DirtyAfter(w, x)
               fr == [frames[x] EXCEPT !.pin = frames[x].pin - 1, !.dirty = d]
    <3>1. page_table' = page_table /\ page_table \in [PageId -> Frame \cup {Nil}]
      BY <1>3 DEF Unpin, TypeOK
    <3>2. CASE Resident(id) /\ frames[x].pin > 0
      <4>1. x \in Frame /\ frames[x] \in FrameType /\ frames[x].id = id
        BY <1>1, <3>2 DEF Mapped, TypeOK, Resident
      <4>2. d \in BOOLEAN
        BY <4>1 DEF DirtyAfter, TypeOK
      <4>3. frames' = [frames EXCEPT ![x] = fr]
        BY <1>3, <3>2 DEF Unpin
      <4> HIDE DEF d
      <4>4. fr \in FrameType /\ fr.id = id
        <5>1. frames[x].pin - 1 \in Nat
          BY <3>2, <4>1
        <5>2. QED BY <4>1, <4>2, <5>1
      <4>5. ReplacerUnpin(lru[shard_of(id)], x) \in Seq(Frame)
        BY <1>1, <4>1, ListTypes DEF TypeOK
      <4>6. lru' \in [Shard -> Seq(Frame)]
        <5>1. lru' = IF LastPin(x)
                     THEN [lru EXCEPT ![shard_of(id)] = ReplacerUnpin(@, x)] ELSE lru
          BY <1>3, <3>2 DEF Unpin
        <5>2. QED BY <4>5, <5>1 DEF TypeOK
      <4> HIDE DEF fr, FrameType, id, x
      <4>7. frames' \in [Frame -> FrameType]
        BY <1>1, <4>1, <4>3, <4>4
      <4>8. \A y \in Frame : /\ frames'[y].id = frames[y].id
                             /\ frames'[y].dirty \/ frames'[y].pin > 0 => frames[y].id \in PageId
        BY <1>1, <4>1, <4>3, <4>4 DEF Named
      <4>9. QED BY <3>1, <4>6, <4>7, <4>8, FramesKept
    <3>3. CASE ~(Resident(id) /\ frames[x].pin > 0)
      <4>1. frames' = frames /\ lru' = lru
        BY <1>3, <3>3 DEF Unpin
      <4>2. QED BY <1>1, <3>1, <4>1, FramesKept DEF TypeOK, Named
    <3>4. QED BY <3>2, <3>3
  <2> HIDE DEF FrameType
  <2>2. TypeOK'
    BY <1>3, <2>1 DEF TypeOK, Unpin, diskvars, ghosts, FrameType
  <2>3. Working' /\ Numbered' /\ Closing'
    BY <1>1, <1>3 DEF Unpin, Working, Numbered, Closing, Idle, diskvars, TypeOK
  <2>4. QED BY <2>1, <2>2, <2>3
<1>4. QED BY <1>2, <1>3

LEMMA FlushBase ==
    ASSUME Base, FlushCollect \/ \E id \in PageId : FlushPage(id)
    PROVE  Base'
<1> USE DEF Base
<1>1. CASE FlushCollect
  <2>1. bg' \in [shard : Shard, todo : SUBSET PageId]
    <3>1. bg.shard \in Shard
      BY DEF TypeOK
    <3>2. (bg.shard + 1) % NShards \in Shard
      BY <3>1, BoundsAssumption DEF Shard
    <3> HIDE DEF Shard
    <3>3. QED BY <1>1, <3>2 DEF FlushCollect
  <2>2. TypeOK'
    BY <1>1, <2>1 DEF FlushCollect, TypeOK, diskvars, poolvars, workers, ghosts
  <2>3. QED BY <1>1, <2>2 DEF FlushCollect, diskvars, poolvars, workers, ghosts, Mapped,
               Named, Working, Numbered, Closing, Idle, Resident
<1>2. ASSUME NEW id \in PageId, FlushPage(id) PROVE Base'
  <2> DEFINE FrameType == [id : PageId \cup {NoPage}, data : Data, dirty : BOOLEAN, pin : Nat]
             x == page_table[id]
             fr == [frames[x] EXCEPT !.dirty = FALSE]
  <2>1. bg' \in [shard : Shard, todo : SUBSET PageId]
    BY <1>2 DEF FlushPage, TypeOK
  <2>2. page_table' = page_table /\ page_table \in [PageId -> Frame \cup {Nil}]
    BY <1>2 DEF FlushPage, TypeOK
  <2>3. /\ frames' \in [Frame -> FrameType] /\ Mapped' /\ Named'
        /\ disk' \in [File -> [size : 1 .. MaxPage + 1, data : [PageNo -> Data]]]
    <3>1. CASE Resident(id)
      <4>1. x \in Frame /\ frames \in [Frame -> FrameType] /\ frames[x] \in FrameType
        BY <3>1 DEF Resident, TypeOK
      <4>2. frames' = [frames EXCEPT ![x] = fr]
        BY <1>2, <3>1 DEF FlushPage
      <4>3. fr \in FrameType /\ fr.id = frames[x].id /\ fr.pin = frames[x].pin /\ ~fr.dirty
        BY <4>1
      <4>4. disk' = write_page(disk, id, frames[x].data) /\ frames[x].data \in Data
        BY <1>2, <3>1, <4>1 DEF FlushPage
      <4>5. disk' \in [File -> [size : 1 .. MaxPage + 1, data : [PageNo -> Data]]]
        BY <4>4, WritePage
      <4> HIDE DEF fr, FrameType, x
      <4>6. frames' \in [Frame -> FrameType]
        BY <4>1, <4>2, <4>3
      <4>7. \A y \in Frame : /\ frames'[y].id = frames[y].id
                             /\ frames'[y].dirty \/ frames'[y].pin > 0 => frames[y].id \in PageId
        BY <4>1, <4>2, <4>3 DEF Named
      <4>8. QED BY <2>2, <4>5, <4>6, <4>7, FramesKept
    <3>2. CASE ~Resident(id)
      <4>1. frames' = frames /\ disk' = disk
        BY <1>2, <3>2 DEF FlushPage
      <4>2. QED BY <2>2, <4>1, FramesKept DEF TypeOK, Named
    <3>3. QED BY <3>1, <3>2
  <2> HIDE DEF FrameType
  <2>4. TypeOK'
    BY <1>2, <2>1, <2>3 DEF FlushPage, TypeOK, diskvars, workers, ghosts, FrameType
  <2>5. QED BY <1>2, <2>3, <2>4 DEF FlushPage, diskvars, workers, ghosts, Working, Numbered,
               Closing, Idle
<1>3. QED BY <1>1, <1>2

LEMMA FileBase ==
    ASSUME Base, \E f \in File : OpenFile(f) \/ ReplaceFile(f)
    PROVE  Base'
<1> USE DEF Base
<1>1. ASSUME NEW f \in File, OpenFile(f) PROVE Base'
  <2>1. PICK fd \in Fd : /\ file_of[fd] = Nil /\ file_of' = [file_of EXCEPT ![fd] = f]
                         /\ num_pages' = [num_pages EXCEPT ![fd] = hdr[f]]
                         /\ fd2pageno' = [fd2pageno EXCEPT ![fd] = hdr[f]]
    BY <1>1 DEF OpenFile
  <2>2. hdr[f] \in Nat \ {0}
    BY DEF TypeOK
  <2>3. /\ file_of' \in [Fd -> File \cup {Nil}] /\ num_pages' \in [Fd -> Nat \ {0}]
        /\ fd2pageno' \in [Fd -> Nat]
    BY <2>1, <2>2 DEF TypeOK
  <2>4. opens' \in 0 .. MaxOpens
    BY <1>1, BoundsAssumption DEF OpenFile, TypeOK
  <2>5. TypeOK'
    BY <1>1, <2>3, <2>4 DEF OpenFile, TypeOK, poolvars, workers
  <2>6. Numbered'
    BY <2>1, <2>2 DEF Numbered, TypeOK
  <2>7. QED BY <1>1, <2>5, <2>6 DEF OpenFile, poolvars, workers, Mapped, Named, Working,
               Closing, Idle, Resident
<1>2. ASSUME NEW f \in File, ReplaceFile(f) PROVE Base'
  <2>1. 0 \in Data /\ EmptyFile \in [size : 1 .. MaxPage + 1, data : [PageNo -> Data]]
    BY Constants
  <2>2. /\ hdr' \in [File -> Nat \ {0}] /\ born' \in [File -> SUBSET PageNo]
        /\ disk' \in [File -> [size : 1 .. MaxPage + 1, data : [PageNo -> Data]]]
        /\ latest' \in [File -> [PageNo -> Data]]
    BY <1>2, <2>1 DEF ReplaceFile, TypeOK
  <2>3. TypeOK'
    BY <1>2, <2>2 DEF ReplaceFile, TypeOK, poolvars, workers
  <2>4. QED BY <1>2, <2>3 DEF ReplaceFile, poolvars, workers, Mapped, Named, Working,
               Numbered, Closing, Idle, Resident
<1>3. QED BY <1>1, <1>2

LEMMA CloseBase ==
    ASSUME Base,
           \/ \E fd \in Fd : CloseBegin(fd)
           \/ DiscardCollect \/ DiscardNext \/ CloseEnd
    PROVE  Base'
<1> USE DEF Base
<1> DEFINE DdlType == [pc : {"idle", "flush", "collect", "delete"}, fd : Fd \cup {Nil},
                       shard : Shard, todo : SUBSET PageId]
<1>1. ddl \in DdlType /\ 0 \in Shard
  BY Constants DEF TypeOK
<1>2. ASSUME NEW fd \in Fd, CloseBegin(fd) PROVE Base'
  <2>1. hdr' \in [File -> Nat \ {0}]
    <3>1. file_of[fd] \in File /\ num_pages[fd] \in Nat \ {0}
      BY <1>2 DEF CloseBegin, TypeOK
    <3>2. QED BY <1>2, <3>1 DEF CloseBegin, header_at_close, TypeOK
  <2>2. /\ ddl' = [pc |-> "flush", fd |-> fd, shard |-> 0, todo |-> {}]
        /\ ddl' \in DdlType
    BY <1>1, <1>2 DEF CloseBegin
  <2>3. TypeOK'
    BY <1>2, <2>1, <2>2 DEF CloseBegin, TypeOK, poolvars, workers, ghosts
  <2>4. Closing'
    BY <1>2, <2>2 DEF CloseBegin, Closing, Idle
  <2>5. QED BY <1>2, <2>3, <2>4 DEF CloseBegin, poolvars, workers, Mapped, Named, Working,
               Numbered, Resident
<1>3. CASE DiscardCollect
  <2>1. /\ ddl.pc = "collect"
        /\ ddl' = [ddl EXCEPT !.pc = "delete", !.todo = OfShard(ddl.fd, ddl.shard)]
    BY <1>3 DEF DiscardCollect
  <2>2. OfShard(ddl.fd, ddl.shard) \in SUBSET PageId
    BY DEF OfShard
  <2>3. ddl' \in DdlType /\ ddl'.pc = "delete" /\ ddl'.fd = ddl.fd
    BY <1>1, <2>1, <2>2
  <2> HIDE DEF DdlType
  <2>4. TypeOK'
    BY <1>3, <2>3 DEF DiscardCollect, TypeOK, diskvars, poolvars, workers, ghosts, DdlType
  <2>5. Closing'
    <3>1. ddl.fd \in Fd /\ file_of[ddl.fd] # Nil /\ file_of' = file_of
      BY <1>3, <2>1 DEF DiscardCollect, Closing, diskvars
    <3>2. QED BY <2>3, <3>1 DEF Closing, Idle
  <2>6. QED BY <1>3, <2>4, <2>5 DEF DiscardCollect, diskvars, poolvars, workers, Mapped,
               Named, Working, Numbered, Resident
<1>4. CASE DiscardNext
  <2>1. /\ ddl.pc = "delete"
        /\ ddl' = [ddl EXCEPT !.pc = "collect", !.shard = @ + 1]
        /\ ddl.shard + 1 < NShards
    BY <1>4 DEF DiscardNext
  <2>2. ddl.shard + 1 \in Shard
    BY <1>1, <2>1, BoundsAssumption DEF Shard
  <2> HIDE DEF Shard
  <2>3. ddl' \in DdlType /\ ddl'.pc = "collect" /\ ddl'.fd = ddl.fd
    BY <1>1, <2>1, <2>2
  <2> HIDE DEF DdlType
  <2>4. TypeOK'
    BY <1>4, <2>3 DEF DiscardNext, TypeOK, diskvars, poolvars, workers, ghosts, DdlType
  <2>5. Closing'
    <3>1. ddl.fd \in Fd /\ file_of[ddl.fd] # Nil /\ file_of' = file_of
      BY <1>4, <2>1 DEF DiscardNext, Closing, diskvars
    <3>2. QED BY <2>3, <3>1 DEF Closing, Idle
  <2>6. QED BY <1>4, <2>4, <2>5 DEF DiscardNext, diskvars, poolvars, workers, Mapped,
               Named, Working, Numbered, Resident
<1>5. CASE CloseEnd
  <2>1. file_of' = [file_of EXCEPT ![ddl.fd] = Nil] /\ ddl' = Idle /\ ddl' \in DdlType
    BY <1>1, <1>5 DEF CloseEnd, Idle
  <2>2. TypeOK'
    BY <1>5, <2>1 DEF CloseEnd, TypeOK, poolvars, workers, ghosts
  <2>3. Closing' /\ Numbered'
    BY <1>5, <2>1 DEF CloseEnd, Closing, Numbered, Idle, TypeOK
  <2>4. QED BY <1>5, <2>2, <2>3 DEF CloseEnd, poolvars, workers, Mapped, Named, Working,
               Resident
<1>6. QED BY <1>2, <1>3, <1>4, <1>5

\* flush_all_pages writes the pages of one shard and marks their frames clean.
LEMMA CloseFlushEffect ==
    ASSUME Base, CloseFlush
    PROVE  LET f == file_of[ddl.fd]
               ids == OfShard(ddl.fd, ddl.shard)
           IN  /\ f \in File /\ ids \in SUBSET PageId
               /\ disk' \in [File -> [size : 1 .. MaxPage + 1, data : [PageNo -> Data]]]
               /\ \A g \in File : g # f => disk'[g] = disk[g]
               /\ disk[f].size <= disk'[f].size /\ \A id \in ids : id[2] < disk'[f].size
               /\ \A p \in PageNo : disk'[f].data[p] =
                      IF <<ddl.fd, p>> \in ids THEN frames[page_table[<<ddl.fd, p>>]].data
                      ELSE disk[f].data[p]
               /\ frames' \in [Frame -> [id : PageId \cup {NoPage}, data : Data,
                                         dirty : BOOLEAN, pin : Nat]]
               /\ \A x \in Frame :
                      /\ frames'[x].id = frames[x].id /\ frames'[x].data = frames[x].data
                      /\ frames'[x].pin = frames[x].pin
                      /\ frames'[x].dirty <=> /\ frames[x].dirty
                                              /\ \A id \in ids : page_table[id] # x
<1> USE DEF Base
<1> DEFINE f == file_of[ddl.fd]
           ids == OfShard(ddl.fd, ddl.shard)
           FrameType == [id : PageId \cup {NoPage}, data : Data, dirty : BOOLEAN, pin : Nat]
           FileType == [size : 1 .. MaxPage + 1, data : [PageNo -> Data]]
           n == CHOOSE m \in 1 .. MaxPage + 1 :
                    /\ disk[f].size <= m /\ \A id \in ids : id[2] < m
                    /\ m = disk[f].size \/ \E id \in ids : m = id[2] + 1
           d == [p \in PageNo |-> IF <<ddl.fd, p>> \in ids
                                  THEN frames[page_table[<<ddl.fd, p>>]].data
                                  ELSE disk[f].data[p]]
<1>1. ddl.fd \in Fd /\ f \in File /\ ids \in SUBSET PageId
  BY DEF CloseFlush, Closing, TypeOK, OfShard
<1>2. disk' = [disk EXCEPT ![f] = [size |-> n, data |-> d]]
  BY DEF CloseFlush
<1>3. disk \in [File -> FileType] /\ disk[f] \in FileType
  BY <1>1 DEF TypeOK
<1>4. n \in 1 .. MaxPage + 1 /\ disk[f].size <= n /\ \A id \in ids : id[2] < n
  <2>1. disk[f].size \in 1 .. MaxPage + 1 /\ ids \in SUBSET PageId
    BY <1>1, <1>3
  <2> HIDE DEF f, ids
  <2>2. QED BY <2>1, FlushedSize
<1>5. d \in [PageNo -> Data]
  <2>1. ASSUME NEW p \in PageNo, <<ddl.fd, p>> \in ids
        PROVE frames[page_table[<<ddl.fd, p>>]].data \in Data
    BY <1>1, <2>1 DEF OfShard, Resident, TypeOK
  <2>2. QED BY <1>3, <2>1
<1> HIDE DEF n, d
<1>6. /\ disk' \in [File -> FileType] /\ disk'[f].size = n /\ disk'[f].data = d
      /\ \A g \in File : g # f => disk'[g] = disk[g]
  BY <1>1, <1>2, <1>3, <1>4, <1>5
<1>7. \A p \in PageNo : disk'[f].data[p] =
          IF <<ddl.fd, p>> \in ids THEN frames[page_table[<<ddl.fd, p>>]].data
          ELSE disk[f].data[p]
  BY <1>6 DEF d
<1>8. frames \in [Frame -> FrameType]
  BY DEF TypeOK
<1>9. frames' = [x \in Frame |-> [frames[x] EXCEPT
                 !.dirty = @ /\ \A id \in ids : page_table[id] # x]]
  BY DEF CloseFlush
<1>10. \A x \in Frame :
          /\ frames'[x] \in FrameType
          /\ frames'[x].id = frames[x].id /\ frames'[x].data = frames[x].data
          /\ frames'[x].pin = frames[x].pin
          /\ frames'[x].dirty <=> frames[x].dirty /\ \A id \in ids : page_table[id] # x
  <2> SUFFICES ASSUME NEW x \in Frame
               PROVE  /\ frames'[x] \in FrameType
                      /\ frames'[x].id = frames[x].id /\ frames'[x].data = frames[x].data
                      /\ frames'[x].pin = frames[x].pin
                      /\ frames'[x].dirty <=> /\ frames[x].dirty
                                              /\ \A id \in ids : page_table[id] # x
    OBVIOUS
  <2> DEFINE b == frames[x].dirty /\ \A id \in ids : page_table[id] # x
  <2>1. frames'[x] = [frames[x] EXCEPT !.dirty = b]
    BY <1>9
  <2>2. b \in BOOLEAN /\ frames[x] \in FrameType
    BY <1>8
  <2> HIDE DEF b
  <2>3. /\ frames'[x] \in FrameType
        /\ frames'[x].id = frames[x].id /\ frames'[x].data = frames[x].data
        /\ frames'[x].pin = frames[x].pin /\ frames'[x].dirty = b
    BY <2>1, <2>2
  <2>4. QED BY <2>3 DEF b
<1>11. frames' \in [Frame -> FrameType]
  BY <1>9, <1>10
<1>12. QED BY <1>1, <1>4, <1>6, <1>7, <1>10, <1>11

LEMMA CloseFlushBase ==
    ASSUME Base, CloseFlush
    PROVE  Base'
<1> USE DEF Base
<1> DEFINE DdlType == [pc : {"idle", "flush", "collect", "delete"}, fd : Fd \cup {Nil},
                       shard : Shard, todo : SUBSET PageId]
<1>1. ddl' \in DdlType /\ ddl'.fd = ddl.fd /\ ddl'.pc \in {"flush", "collect"}
  <2>1. ddl \in DdlType /\ 0 \in Shard
    BY Constants DEF TypeOK
  <2>2. /\ ddl.pc = "flush"
        /\ ddl' = IF ddl.shard + 1 < NShards THEN [ddl EXCEPT !.shard = @ + 1]
                  ELSE [ddl EXCEPT !.pc = "collect", !.shard = 0]
    BY DEF CloseFlush
  <2>3. ddl.shard + 1 < NShards => ddl.shard + 1 \in Shard
    BY <2>1, BoundsAssumption DEF Shard
  <2> HIDE DEF Shard
  <2>4. QED BY <2>1, <2>2, <2>3
<1>2. TypeOK'
  BY <1>1, CloseFlushEffect DEF TypeOK, CloseFlush, diskvars, workers, ghosts
<1>3. Mapped' /\ Named'
  <2>1. page_table' = page_table /\ page_table \in [PageId -> Frame \cup {Nil}]
    BY DEF CloseFlush, TypeOK
  <2>2. \A y \in Frame : /\ frames'[y].id = frames[y].id
                         /\ frames'[y].dirty \/ frames'[y].pin > 0 => frames[y].id \in PageId
    BY CloseFlushEffect DEF Named
  <2>3. QED BY <2>1, <2>2, FramesKept
<1>4. Working' /\ Numbered' /\ Closing'
  BY <1>1 DEF CloseFlush, Working, Numbered, Closing, Idle, diskvars, workers
<1>5. QED BY <1>2, <1>3, <1>4

\* delete_page frees the frame of an unpinned page; otherwise it does nothing.
LEMMA DeleteBase ==
    ASSUME Base, NEW id \in PageId, DeletePage(id)
    PROVE  Base'
<1> USE DEF Base
<1> DEFINE DdlType == [pc : {"idle", "flush", "collect", "delete"}, fd : Fd \cup {Nil},
                       shard : Shard, todo : SUBSET PageId]
           FrameType == [id : PageId \cup {NoPage}, data : Data, dirty : BOOLEAN, pin : Nat]
           x == page_table[id]
<1>1. ddl' \in DdlType /\ ddl'.fd = ddl.fd /\ ddl'.pc = ddl.pc /\ ddl.pc = "delete"
  BY DEF DeletePage, TypeOK
<1>2. id[1] \in Fd /\ id[2] \in PageNo /\ shard_of(id) \in Shard
  BY Constants
<1>3. /\ disk' \in [File -> [size : 1 .. MaxPage + 1, data : [PageNo -> Data]]]
      /\ page_table' \in [PageId -> Frame \cup {Nil}] /\ frames' \in [Frame -> FrameType]
      /\ free_list' \in [Shard -> Seq(Frame)] /\ lru' \in [Shard -> Seq(Frame)]
      /\ free_pages' \in [Fd -> Seq(PageNo)]
      /\ Mapped' /\ Named'
  <2>1. CASE Resident(id) /\ frames[x].pin = 0
    <3>1. x \in Frame
      BY <2>1 DEF Resident, TypeOK
    <3>2. /\ WriteBack(x) /\ frames' = [frames EXCEPT ![x] = Free]
          /\ page_table' = [page_table EXCEPT ![id] = Nil]
          /\ lru' = [lru EXCEPT ![shard_of(id)] = ReplacerPin(@, x)]
          /\ free_list' = [free_list EXCEPT ![shard_of(id)] = Append(@, x)]
          /\ free_pages' = [free_pages EXCEPT ![id[1]] = Append(@, id[2])]
      BY <2>1 DEF DeletePage, Unmap
    <3>3. disk' \in [File -> [size : 1 .. MaxPage + 1, data : [PageNo -> Data]]]
      BY <3>1, <3>2, WriteBackTypes
    <3>4. /\ ReplacerPin(lru[shard_of(id)], x) \in Seq(Frame)
          /\ Append(free_list[shard_of(id)], x) \in Seq(Frame)
      BY <1>2, <3>1, ListTypes DEF TypeOK
    <3>5. Append(free_pages[id[1]], id[2]) \in Seq(PageNo)
      BY <1>2, ListTypes DEF TypeOK
    <3>6. /\ free_list' \in [Shard -> Seq(Frame)] /\ lru' \in [Shard -> Seq(Frame)]
          /\ free_pages' \in [Fd -> Seq(PageNo)]
      BY <3>2, <3>4, <3>5 DEF TypeOK
    <3>7. page_table' \in [PageId -> Frame \cup {Nil}]
      BY <3>2 DEF TypeOK
    <3>8. Free \in FrameType /\ Free.id = NoPage /\ ~Free.dirty /\ Free.pin = 0
      BY Constants DEF Free
    <3>9. frames \in [Frame -> FrameType]
      BY DEF TypeOK
    <3> HIDE DEF FrameType
    <3>10. frames' \in [Frame -> FrameType]
      BY <3>1, <3>2, <3>8, <3>9
    <3>11. Named'
      BY <3>1, <3>2, <3>8, <3>9 DEF Named
    <3>12. Mapped'
      <4> SUFFICES ASSUME NEW i \in PageId, page_table'[i] # Nil
                   PROVE frames'[page_table'[i]].id = i
        BY DEF Mapped, Resident
      <4>1. i # id /\ page_table'[i] = page_table[i]
        BY <3>2 DEF TypeOK
      <4>2. page_table[i] \in Frame /\ frames[page_table[i]].id = i /\ frames[x].id = id
        BY <2>1, <4>1 DEF Mapped, Resident, TypeOK
      <4>3. QED BY <3>2, <3>9, <4>1, <4>2
    <3>13. QED BY <3>3, <3>6, <3>7, <3>10, <3>11, <3>12
  <2>2. CASE ~(Resident(id) /\ frames[x].pin = 0)
    BY <2>2 DEF DeletePage, poolvars, TypeOK, Mapped, Named, Resident
  <2>3. QED BY <2>1, <2>2
<1> HIDE DEF FrameType
<1>4. TypeOK'
  BY <1>1, <1>3 DEF DeletePage, TypeOK, workers, ghosts, FrameType
<1>5. Working' /\ Numbered' /\ Closing'
  BY <1>1 DEF DeletePage, Working, Numbered, Closing, Idle, workers
<1>6. QED BY <1>3, <1>4, <1>5

LEMMA BaseStep == Base /\ [Next]_vars => Base'
<1> SUFFICES ASSUME Base, [Next]_vars PROVE Base'
  OBVIOUS
<1>1. ASSUME NEW w \in Worker, WorkerStep(w) PROVE Base'
  BY <1>1, FetchBase, NewPageBase, PinnedBase DEF WorkerStep
<1>2. CASE FlushCollect \/ \E id \in PageId : FlushPage(id)
  BY <1>2, FlushBase
<1>3. CASE DdlStep
  BY <1>3, FileBase, CloseBase, CloseFlushBase, DeleteBase DEF DdlStep
<1>4. CASE UNCHANGED vars
  BY <1>4 DEF vars, diskvars, poolvars, workers, ghosts, Base, TypeOK, Mapped, Named, Working,
              Numbered, Closing, Idle, Resident
<1>5. QED BY <1>1, <1>2, <1>3, <1>4 DEF Next

\* The variables of the pool, the disk and the threads keep to their types, whatever
\* the threads do in whatever order, the unsound runs included.
THEOREM TypeCorrect == Spec => []TypeOK
<1>1. Init => Base
  BY InitBase
<1>2. Base /\ [Next]_vars => Base'
  BY BaseStep
<1>3. Base => TypeOK
  BY DEF Base
<1>4. QED BY <1>1, <1>2, <1>3, PTL DEF Spec

-----------------------------------------------------------------------------
(* What holds in sound states: facts used for several actions *)

Inner == Group1 /\ Group2 /\ Group3

LEMMA WorkersFinite ==
    ASSUME NEW W \in SUBSET Worker
    PROVE  /\ IsFiniteSet(W) /\ Cardinality(W) \in Nat
           /\ Cardinality(W) = 0 <=> W = {}
BY FiniteAssumption, FS_Subset, FS_CardinalityType, FS_EmptySet

\* A pinned frame is the one its page is mapped to.
LEMMA PinnedFrame ==
    ASSUME Base, Placed, Pins, NEW w \in Worker, pc[w] = "pinned"
    PROVE  /\ frame[w] \in Frame /\ page[w] \in PageId
           /\ frames[frame[w]].id = page[w] /\ page_table[page[w]] = frame[w]
           /\ frames[frame[w]].pin > 0 /\ Resident(page[w])
<1>1. frame[w] \in Frame /\ page[w] \in PageId /\ frames[frame[w]].id = page[w]
  BY DEF Base, Working, Pins
<1>2. page_table[page[w]] = frame[w]
  BY <1>1, Constants DEF Placed, Free
<1>3. frames[frame[w]].pin > 0
  <2>1. w \in Pinners(frame[w]) /\ Pinners(frame[w]) \in SUBSET Worker
    BY DEF Pinners
  <2>2. frames[frame[w]].pin = Cardinality(Pinners(frame[w]))
    BY <1>1 DEF Pins
  <2>3. QED BY <2>1, <2>2, WorkersFinite
<1>4. QED BY <1>1, <1>2, <1>3, BoundsAssumption DEF Resident

\* A frame that is not pinned has its page saved by WriteBack, so that whatever is not
\* on disk afterwards is a page of another frame.
LEMMA SaveVictim ==
    ASSUME Base, Inner, NEW x \in Frame, frames[x].pin = 0, WriteBack(x),
           NEW f \in File, NEW p \in PageNo
    PROVE  \/ \E fd \in Fd : /\ file_of[fd] = f /\ Resident(<<fd, p>>) /\ Unsaved(<<fd, p>>)
                             /\ page_table[<<fd, p>>] # x
           \/ /\ disk'[f].data[p] = latest[f][p]
              /\ p \in born[f] => p < disk'[f].size
<1> USE DEF Inner, Group1, Group2, Group3
<1>1. disk \in [File -> [size : 1 .. MaxPage + 1, data : [PageNo -> Data]]]
  BY DEF Base, TypeOK
<1>2. p \in Nat /\ disk[f].size \in Nat
  BY <1>1 DEF PageNo
<1>3. CASE frames[x].dirty
  <2> DEFINE i == frames[x].id
  <2>1. i \in PageId /\ frames[x].data \in Data
    BY <1>3 DEF Base, Named, TypeOK
  <2>2. i[1] \in Fd /\ i[2] \in PageNo /\ page_table[i] = x /\ Resident(i)
    BY <2>1, Constants, BoundsAssumption DEF Placed, Free, Resident
  <2>3. file_of[i[1]] # Nil /\ frames[x].data = latest[file_of[i[1]]][i[2]]
    BY <2>1, <2>2 DEF ResidentBorn, Cached
  <2>4. disk' = write_page(disk, i, frames[x].data)
    BY <1>3 DEF WriteBack
  <2>5. /\ disk' \in [File -> [size : 1 .. MaxPage + 1, data : [PageNo -> Data]]]
        /\ disk'[file_of[i[1]]].data[i[2]] = frames[x].data
        /\ i[2] < disk'[file_of[i[1]]].size
        /\ disk[f].size <= disk'[f].size
        /\ <<f, p>> # <<file_of[i[1]], i[2]>> => disk'[f].data[p] = disk[f].data[p]
    <3> HIDE DEF i
    <3>1. TypeOK
      BY DEF Base
    <3>2. /\ disk' \in [File -> [size : 1 .. MaxPage + 1, data : [PageNo -> Data]]]
          /\ file_of[i[1]] # Nil => /\ disk'[file_of[i[1]]].data[i[2]] = frames[x].data
                                    /\ i[2] < disk'[file_of[i[1]]].size
          /\ \A g \in File : /\ disk[g].size <= disk'[g].size
                             /\ \A q \in PageNo : <<g, q>> # <<file_of[i[1]], i[2]>> =>
                                                      disk'[g].data[q] = disk[g].data[q]
      BY <2>1, <2>4, <3>1, WritePage
    <3>3. QED BY <2>3, <3>2
  <2>6. CASE <<f, p>> = <<file_of[i[1]], i[2]>>
    BY <2>3, <2>5, <2>6
  <2>7. CASE <<f, p>> # <<file_of[i[1]], i[2]>>
    <3>1. CASE \E fd \in Fd : file_of[fd] = f /\ Resident(<<fd, p>>) /\ Unsaved(<<fd, p>>)
      <4>1. PICK fd \in Fd : file_of[fd] = f /\ Resident(<<fd, p>>) /\ Unsaved(<<fd, p>>)
        BY <3>1
      <4>2. <<fd, p>> \in PageId /\ <<fd, p>> # i
        BY <2>7, <4>1 DEF PageId
      <4>3. page_table[<<fd, p>>] # x
        BY <4>1, <4>2 DEF Base, Mapped
      <4>4. QED BY <4>1, <4>3
    <3>2. CASE disk[f].data[p] = latest[f][p] /\ (p \in born[f] => p < disk[f].size)
      <4>1. disk'[f].size \in Nat
        BY <2>5
      <4>2. QED BY <1>2, <2>5, <2>7, <3>2, <4>1
    <3>3. QED BY <3>1, <3>2 DEF Kept
  <2>8. QED BY <2>6, <2>7
<1>4. CASE ~frames[x].dirty
  <2>1. disk' = disk
    BY <1>4 DEF WriteBack
  <2>2. CASE \E fd \in Fd : file_of[fd] = f /\ Resident(<<fd, p>>) /\ Unsaved(<<fd, p>>)
    <3>1. PICK fd \in Fd : file_of[fd] = f /\ Resident(<<fd, p>>) /\ Unsaved(<<fd, p>>)
      BY <2>2
    <3>2. page_table[<<fd, p>>] # x
      <4>1. SUFFICES ASSUME page_table[<<fd, p>>] = x PROVE FALSE
        OBVIOUS
      <4>2. PICK w \in Worker : pc[w] = "pinned" /\ page[w] = <<fd, p>>
        BY <1>4, <3>1, <4>1 DEF Unsaved
      <4>3. page_table[page[w]] = frame[w] /\ frames[frame[w]].pin > 0
        BY <4>2, PinnedFrame
      <4>4. QED BY <4>1, <4>2, <4>3
    <3>3. QED BY <3>1, <3>2
  <2>3. CASE disk[f].data[p] = latest[f][p] /\ (p \in born[f] => p < disk[f].size)
    BY <2>1, <2>3
  <2>4. QED BY <2>2, <2>3 DEF Kept
<1>5. QED BY <1>3, <1>4

\* The victim of a shard is a frame of it that nobody has pinned; it leaves its list.
LEMMA Victim ==
    ASSUME Base, Lists, Placed, Pins, NEW s \in Shard, NEW x \in Frame, find_victim_page(s, x)
    PROVE  /\ FrameShard[x] = s /\ frames[x].pin = 0 /\ Pinners(x) = {}
           /\ Lists'
           /\ \A t \in Shard : /\ ToSet(free_list'[t]) = ToSet(free_list[t]) \ {x}
                               /\ ToSet(lru'[t]) = ToSet(lru[t]) \ {x}
<1>1. /\ free_list \in [Shard -> Seq(Frame)] /\ lru \in [Shard -> Seq(Frame)]
      /\ free_list[s] \in Seq(Frame) /\ lru[s] \in Seq(Frame)
      /\ IsInjective(free_list[s]) /\ IsInjective(lru[s])
  BY DEF Base, TypeOK, Lists
<1>2. CASE free_list[s] # <<>>
  <2>1. /\ x = Head(free_list[s]) /\ free_list' = [free_list EXCEPT ![s] = Tail(free_list[s])]
        /\ lru' = lru
    BY <1>2 DEF find_victim_page
  <2>2. x \in ToSet(free_list[s])
    BY <1>1, <1>2, <2>1, TailElement
  <2>3. /\ IsInjective(Tail(free_list[s]))
        /\ ToSet(Tail(free_list[s])) = ToSet(free_list[s]) \ {x}
    BY <1>1, <1>2, <2>1, TailElement
  <2>4. FrameShard[x] = s
    BY <2>2 DEF Lists, Listed
  <2>5. frames[x].pin = 0 /\ x \notin ToSet(lru[s])
    BY <2>2, <2>4 DEF Placed, Free
  <2>6. \A t \in Shard : t # s => x \notin ToSet(free_list[t]) /\ x \notin ToSet(lru[t])
    BY <2>4 DEF Lists, Listed
  <2>7. \A t \in Shard : /\ free_list'[t] = IF t = s THEN Tail(free_list[s]) ELSE free_list[t]
                         /\ lru'[t] = lru[t]
    BY <1>1, <2>1
  <2>8. \A t \in Shard : /\ ToSet(free_list'[t]) = ToSet(free_list[t]) \ {x}
                         /\ ToSet(lru'[t]) = ToSet(lru[t]) \ {x}
    BY <2>3, <2>5, <2>6, <2>7
  <2>9. Lists'
    BY <2>3, <2>7, <2>8 DEF Lists, Listed
  <2>10. Pinners(x) = {}
    <3>1. Pinners(x) \in SUBSET Worker
      BY DEF Pinners
    <3>2. QED BY <2>5, <3>1, WorkersFinite DEF Pins
  <2>11. QED BY <2>4, <2>5, <2>8, <2>9, <2>10
<1>3. CASE free_list[s] = <<>>
  <2>1. /\ x = Last(lru[s]) /\ lru[s] # <<>> /\ lru' = [lru EXCEPT ![s] = Front(lru[s])]
        /\ free_list' = free_list
    BY <1>3 DEF find_victim_page
  <2>2. x \in ToSet(lru[s])
    BY <1>1, <2>1, FrontElement
  <2>3. IsInjective(Front(lru[s])) /\ ToSet(Front(lru[s])) = ToSet(lru[s]) \ {x}
    BY <1>1, <2>1, FrontElement
  <2>4. FrameShard[x] = s
    BY <2>2 DEF Lists, Listed
  <2>5. frames[x].pin = 0 /\ x \notin ToSet(free_list[s])
    BY <2>2, <2>4 DEF Placed, Free
  <2>6. \A t \in Shard : t # s => x \notin ToSet(free_list[t]) /\ x \notin ToSet(lru[t])
    BY <2>4 DEF Lists, Listed
  <2>7. \A t \in Shard : /\ lru'[t] = IF t = s THEN Front(lru[s]) ELSE lru[t]
                         /\ free_list'[t] = free_list[t]
    BY <1>1, <2>1
  <2>8. \A t \in Shard : /\ ToSet(free_list'[t]) = ToSet(free_list[t]) \ {x}
                         /\ ToSet(lru'[t]) = ToSet(lru[t]) \ {x}
    BY <2>3, <2>5, <2>6, <2>7
  <2>9. Lists'
    BY <2>3, <2>7, <2>8 DEF Lists, Listed
  <2>10. Pinners(x) = {}
    <3>1. Pinners(x) \in SUBSET Worker
      BY DEF Pinners
    <3>2. QED BY <2>5, <3>1, WorkersFinite DEF Pins
  <2>11. QED BY <2>4, <2>5, <2>8, <2>9, <2>10
<1>4. QED BY <1>2, <1>3

\* A frame of the right shard is evicted and mapped, pinned, to a page that was not
\* in the pool: everything else stays where it was.
LEMMA Evict ==
    ASSUME Base, Inner, NEW id \in PageId, ~Resident(id), NEW x \in Frame,
           find_victim_page(shard_of(id), x), WriteBack(x), Remap(x, id), NEW v,
           frames' = [frames EXCEPT ![x] = [id |-> id, data |-> v, dirty |-> FALSE, pin |-> 1]]
    PROVE  /\ Pinners(x) = {} /\ frames[x].pin = 0 /\ Lists' /\ Placed'
           /\ page_table'[id] = x /\ frames'[x].id = id /\ frames'[x].pin = 1
           /\ frames'[x].data = v
           /\ \A y \in Frame : y # x => frames'[y] = frames[y]
           /\ \A i \in PageId : i # id =>
                  /\ page_table'[i] # Nil => page_table'[i] = page_table[i]
                  /\ page_table[i] # x => page_table'[i] = page_table[i]
                  /\ page_table'[i] # x
<1> USE DEF Inner, Group1
<1> DEFINE s == shard_of(id)
<1>1. s \in Shard /\ id # NoPage /\ x # Nil
  BY Constants, BoundsAssumption
<1>2. /\ FrameShard[x] = s /\ frames[x].pin = 0 /\ Pinners(x) = {} /\ Lists'
      /\ \A t \in Shard : /\ ToSet(free_list'[t]) = ToSet(free_list[t]) \ {x}
                          /\ ToSet(lru'[t]) = ToSet(lru[t]) \ {x}
  BY <1>1, Victim
<1>3. /\ page_table \in [PageId -> Frame \cup {Nil}] /\ DOMAIN frames = Frame
      /\ FrameShard \in [Frame -> Shard]
  BY BoundsAssumption DEF Base, TypeOK
<1>4. /\ frames'[x] = [id |-> id, data |-> v, dirty |-> FALSE, pin |-> 1]
      /\ \A y \in Frame : y # x => frames'[y] = frames[y]
  BY <1>3
<1>5. /\ frames'[x].id = id /\ frames'[x].pin = 1 /\ frames'[x].data = v
  BY <1>4
<1>6. page_table'[id] = x
  BY <1>3 DEF Remap
<1>7. ASSUME NEW i \in PageId, i # id
      PROVE  /\ page_table'[i] # Nil => page_table'[i] = page_table[i]
             /\ page_table[i] # x => page_table'[i] = page_table[i]
             /\ page_table'[i] # x
  <2>1. page_table'[i] = IF i = frames[x].id THEN Nil ELSE page_table[i]
    BY <1>7 DEF Remap
  <2>2. i = frames[x].id => page_table[i] = x
    BY <1>1, Constants DEF Placed, Free
  <2>3. page_table[i] = x => i = frames[x].id
    BY <1>1 DEF Base, Mapped, Resident
  <2>4. QED BY <1>1, <2>1, <2>2, <2>3
<1>8. Placed'
  <2> SUFFICES ASSUME NEW y \in Frame
               PROVE LET t == FrameShard[y] IN
                   \/ /\ frames'[y] = Free /\ y \in ToSet(free_list'[t])
                      /\ y \notin ToSet(lru'[t])
                   \/ /\ frames'[y].id \in PageId /\ page_table'[frames'[y].id] = y
                      /\ shard_of(frames'[y].id) = t
                      /\ y \notin ToSet(free_list'[t])
                      /\ (y \in ToSet(lru'[t]) <=> frames'[y].pin = 0)
    BY DEF Placed, shard_of
  <2>1. CASE y = x
    BY <1>1, <1>2, <1>5, <1>6, <2>1
  <2>2. CASE y # x
    <3> DEFINE t == FrameShard[y]
               i == frames[y].id
    <3>1. /\ frames'[y] = frames[y] /\ t \in Shard
          /\ y \in ToSet(free_list'[t]) <=> y \in ToSet(free_list[t])
          /\ y \in ToSet(lru'[t]) <=> y \in ToSet(lru[t])
      BY <1>2, <1>3, <1>4, <2>2
    <3>2. CASE frames[y] = Free /\ y \in ToSet(free_list[t]) /\ y \notin ToSet(lru[t])
      BY <3>1, <3>2
    <3>3. CASE /\ i \in PageId /\ page_table[i] = y /\ shard_of(i) = t
               /\ y \notin ToSet(free_list[t]) /\ (y \in ToSet(lru[t]) <=> frames[y].pin = 0)
      <4>1. i # id
        BY <3>3, BoundsAssumption DEF Resident
      <4>2. page_table'[i] = y
        BY <1>7, <2>2, <3>3, <4>1
      <4>3. QED BY <3>1, <3>3, <4>2
    <3>4. QED BY <3>2, <3>3 DEF Placed
  <2>3. QED BY <2>1, <2>2
<1>9. QED BY <1>2, <1>4, <1>5, <1>6, <1>7, <1>8

-----------------------------------------------------------------------------
(* Every step keeps what holds in sound states, as long as it leads to one *)

LEMMA InitInner == Init => Inner
<1> SUFFICES ASSUME Init PROVE Inner
  OBVIOUS
<1> USE DEF Init
<1>1. Lists /\ Placed
  <2>1. ASSUME NEW s \in Shard
        PROVE  /\ IsInjective(free_list[s]) /\ ToSet(lru[s]) = {} /\ IsInjective(lru[s])
               /\ ToSet(free_list[s]) = {x \in Frame : FrameShard[x] = s}
    <3>1. IsFiniteSet({x \in Frame : FrameShard[x] = s})
      BY FiniteAssumption, FS_Subset
    <3>2. free_list[s] = SetToSeq({x \in Frame : FrameShard[x] = s}) /\ lru[s] = <<>>
      OBVIOUS
    <3>3. ToSet(<<>>) = {} /\ IsInjective(<<>>)
      <4>1. DOMAIN <<>> = {}
        OBVIOUS
      <4>2. QED BY <4>1 DEF ToSet, IsInjective
    <3>4. /\ IsInjective(free_list[s])
          /\ ToSet(free_list[s]) = {x \in Frame : FrameShard[x] = s}
      BY <3>1, <3>2, SetToSeqElements
    <3> HIDE DEF Init
    <3>5. QED BY <3>2, <3>3, <3>4
  <2>2. Lists
    <3> HIDE DEF Init
    <3>1. QED BY <2>1 DEF Lists, Listed
  <2>3. Placed
    BY <2>1, BoundsAssumption, ZenonT(60) DEF Placed
  <2>4. QED BY <2>2, <2>3
<1>2. Pins
  <2>1. \A x \in Frame : Pinners(x) = {} /\ frames[x].pin = 0
    BY DEF Pinners, Free
  <2>2. QED BY <2>1, FS_EmptySet DEF Pins
<1>3. OneFd /\ UsersOpen /\ ResidentBorn /\ Fresh /\ Discarded /\ Cached /\ Unborn
  BY DEF OneFd, UsersOpen, ResidentBorn, Fresh, Discarded, Cached, Unborn, Resident, Idle
<1>4. Dense /\ Headed
  BY DEF Dense, Headed, Idle
<1>5. Kept
  BY DEF Kept, EmptyFile
<1>6. QED BY <1>1, <1>2, <1>3, <1>4, <1>5 DEF Inner, Group1, Group2, Group3

\* fetch_page of a page in the pool.
LEMMA FetchHitInner ==
    ASSUME Base, Inner, NEW w \in Worker, NEW id \in PageId, FetchHit(w, id)
    PROVE  Inner'
<1> USE DEF Inner, Group1, Group2, Group3
<1> DEFINE s == shard_of(id)
<1>1. PICK x \in Frame : x = page_table[id]
  BY DEF FetchHit, Resident, Base, TypeOK
<1>2. /\ pc[w] = "idle" /\ file_of[id[1]] # Nil /\ ddl.fd # id[1]
      /\ frames' = [frames EXCEPT ![x] = [frames[x] EXCEPT !.pin = frames[x].pin + 1]]
      /\ lru' = [lru EXCEPT ![s] = ReplacerPin(lru[s], x)] /\ free_list' = free_list
      /\ pc' = [pc EXCEPT ![w] = "pinned"] /\ page' = [page EXCEPT ![w] = id]
      /\ frame' = [frame EXCEPT ![w] = x] /\ wrote' = [wrote EXCEPT ![w] = FALSE]
      /\ page_table' = page_table /\ disk' = disk /\ file_of' = file_of /\ ddl' = ddl
      /\ num_pages' = num_pages /\ hdr' = hdr /\ fd2pageno' = fd2pageno
      /\ latest' = latest /\ born' = born
  BY <1>1 DEF FetchHit, Fetchable, Pinned, diskvars
<1>3. /\ x \in Frame /\ frames[x].id = id /\ FrameShard[x] = s /\ s \in Shard
      /\ x \notin ToSet(free_list[s]) /\ (x \in ToSet(lru[s]) <=> frames[x].pin = 0)
  <2>1. x \in Frame /\ frames[x].id = id
    BY <1>1, BoundsAssumption DEF Resident, Base, Mapped
  <2>2. id # NoPage /\ s \in Shard
    BY Constants
  <2>3. QED BY <1>1, <2>1, <2>2 DEF Placed, Free
<1>4. /\ pc \in [Worker -> {"idle", "alloc", "pinned"}] /\ DOMAIN page = Worker
      /\ DOMAIN frame = Worker /\ DOMAIN wrote = Worker
      /\ frames \in [Frame -> [id : PageId \cup {NoPage}, data : Data, dirty : BOOLEAN, pin : Nat]]
      /\ lru \in [Shard -> Seq(Frame)] /\ FrameShard \in [Frame -> Shard]
  BY BoundsAssumption DEF Base, TypeOK
<1>5. /\ frames'[x].id = id /\ frames'[x].data = frames[x].data
      /\ frames'[x].dirty = frames[x].dirty /\ frames'[x].pin = frames[x].pin + 1
      /\ \A y \in Frame : y # x => frames'[y] = frames[y]
  BY <1>2, <1>3, <1>4
<1>6. /\ pc'[w] = "pinned" /\ page'[w] = id /\ frame'[w] = x
      /\ \A u \in Worker : u # w => /\ pc'[u] = pc[u] /\ page'[u] = page[u]
                                    /\ frame'[u] = frame[u] /\ wrote'[u] = wrote[u]
  BY <1>2, <1>4
<1>7. \A t \in Shard : /\ lru'[t] = IF t = s THEN ReplacerPin(lru[s], x) ELSE lru[t]
                       /\ IsInjective(lru'[t]) /\ ToSet(lru'[t]) = ToSet(lru[t]) \ {x}
  <2>1. /\ lru[s] \in Seq(Frame) /\ IsInjective(lru[s])
    BY <1>3, <1>4 DEF Lists
  <2>2. /\ IsInjective(ReplacerPin(lru[s], x))
        /\ ToSet(ReplacerPin(lru[s], x)) = ToSet(lru[s]) \ {x}
    BY <2>1, PinElement
  <2>3. \A t \in Shard : t # s => x \notin ToSet(lru[t]) /\ IsInjective(lru[t])
    BY <1>3 DEF Lists, Listed
  <2>4. \A t \in Shard : lru'[t] = IF t = s THEN ReplacerPin(lru[s], x) ELSE lru[t]
    BY <1>2, <1>4
  <2>5. QED BY <2>2, <2>3, <2>4
<1> HIDE DEF s
<1>8. Lists'
  BY <1>2, <1>7, SMTT(30) DEF Lists, Listed
<1>9. Placed'
  <2> SUFFICES ASSUME NEW y \in Frame
               PROVE LET t == FrameShard[y] IN
                   \/ /\ frames'[y] = Free /\ y \in ToSet(free_list[t])
                      /\ y \notin ToSet(lru'[t])
                   \/ /\ frames'[y].id \in PageId /\ page_table[frames'[y].id] = y
                      /\ shard_of(frames'[y].id) = t
                      /\ y \notin ToSet(free_list[t])
                      /\ (y \in ToSet(lru'[t]) <=> frames'[y].pin = 0)
    BY <1>2 DEF Placed, shard_of
  <2>1. CASE y = x
    <3>1. frames[x].pin + 1 # 0
      BY <1>3, <1>4
    <3>2. QED BY <1>3, <1>5, <1>7, <2>1, <3>1, <1>1 DEF s
  <2>2. CASE y # x
    <3>1. /\ frames'[y] = frames[y] /\ FrameShard[y] \in Shard
          /\ y \in ToSet(lru'[FrameShard[y]]) <=> y \in ToSet(lru[FrameShard[y]])
      BY <1>4, <1>5, <1>7, <2>2
    <3>2. QED BY <3>1 DEF Placed
  <2>3. QED BY <2>1, <2>2
<1>10. Pins'
  <2>1. Pinners(x)' = Pinners(x) \cup {w} /\ w \notin Pinners(x)
    BY <1>2, <1>6 DEF Pinners
  <2>2. \A y \in Frame : y # x => Pinners(y)' = Pinners(y)
    BY <1>2, <1>6 DEF Pinners
  <2>3. Cardinality(Pinners(x)') = frames[x].pin + 1
    <3>1. Pinners(x) \in SUBSET Worker
      BY DEF Pinners
    <3>2. QED BY <1>3, <2>1, <3>1, WorkersFinite, FS_AddElement DEF Pins
  <2>4. \A y \in Frame : frames'[y].pin = Cardinality(Pinners(y)')
    BY <1>5, <2>2, <2>3 DEF Pins
  <2>5. \A u \in Worker : pc'[u] = "pinned" => frames'[frame'[u]].id = page'[u]
    <3>1. \A u \in Worker : pc[u] = "pinned" => frame[u] \in Frame /\ frames[frame[u]].id = page[u]
      BY DEF Base, Working, Pins
    <3>2. \A y \in Frame : frames'[y].id = frames[y].id
      BY <1>3, <1>5
    <3>3. QED BY <1>3, <1>5, <1>6, <3>1, <3>2
  <2>6. QED BY <2>4, <2>5 DEF Pins
<1>11. OneFd' /\ UsersOpen' /\ ResidentBorn' /\ Unborn' /\ Discarded'
  BY <1>2, <1>6 DEF OneFd, UsersOpen, ResidentBorn, Unborn, Discarded, Resident
<1>12. Fresh'
  BY <1>2, <1>6 DEF Fresh
<1>13. Dense' /\ Headed'
  <2>1. \A fd \in Fd : AllocsOf(fd)' = AllocsOf(fd) /\ w \notin AllocsOf(fd)
    BY <1>2, <1>6 DEF AllocsOf
  <2>2. \A fd \in Fd : {page'[u][2] : u \in AllocsOf(fd)'} = {page[u][2] : u \in AllocsOf(fd)}
    BY <1>6, <2>1 DEF AllocsOf
  <2>3. QED BY <1>2, <2>1, <2>2 DEF Dense, Headed
<1>14. Cached'
  <2>1. \A y \in Frame : frames'[y].data = frames[y].data
    BY <1>5
  <2>2. \A i \in PageId : Resident(i) => page_table[i] \in Frame
    BY DEF Base, TypeOK, Resident
  <2>3. QED BY <1>2, <2>1, <2>2 DEF Cached, Resident
<1>15. Kept'
  <2>1. \A y \in Frame : frames'[y].dirty = frames[y].dirty
    BY <1>5
  <2>2. ASSUME NEW i \in PageId, Resident(i), Unsaved(i) PROVE Resident(i)' /\ Unsaved(i)'
    <3>1. page_table[i] \in Frame /\ Resident(i)'
      BY <1>2, <2>2 DEF Base, TypeOK, Resident
    <3>2. CASE frames[page_table[i]].dirty
      BY <1>2, <2>1, <3>1, <3>2 DEF Unsaved
    <3>3. CASE ~frames[page_table[i]].dirty
      <4>1. PICK u \in Worker : pc[u] = "pinned" /\ page[u] = i /\ wrote[u]
        BY <2>2, <3>3 DEF Unsaved
      <4>2. u # w
        BY <1>2, <4>1
      <4>3. QED BY <1>6, <3>1, <4>1, <4>2 DEF Unsaved
    <3>4. QED BY <3>2, <3>3
  <2>3. \A fd \in Fd, p \in PageNo : <<fd, p>> \in PageId
    BY DEF PageId
  <2>4. QED BY <1>2, <2>2, <2>3 DEF Kept
<1>16. QED BY <1>8, <1>9, <1>10, <1>11, <1>12, <1>13, <1>14, <1>15

\* fetch_page of a page on disk: it replaces the victim's.
LEMMA FetchMissInner ==
    ASSUME Base, Inner, NEW w \in Worker, NEW id \in PageId, FetchMiss(w, id), ~early'
    PROVE  Inner'
<1> USE DEF Inner, Group1, Group2, Group3
<1> DEFINE file == file_of[id[1]]
           v == disk'[file].data[id[2]]
<1>1. PICK x \in Frame :
         /\ find_victim_page(shard_of(id), x) /\ WriteBack(x) /\ Remap(x, id)
         /\ frames' = [frames EXCEPT ![x] = [id |-> id, data |-> v, dirty |-> FALSE, pin |-> 1]]
         /\ pc' = [pc EXCEPT ![w] = "pinned"] /\ page' = [page EXCEPT ![w] = id]
         /\ frame' = [frame EXCEPT ![w] = x] /\ wrote' = [wrote EXCEPT ![w] = FALSE]
  BY DEF FetchMiss, Pinned
<1>2. /\ pc[w] = "idle" /\ file # Nil /\ ddl.fd # id[1] /\ ~Resident(id)
      /\ file_of' = file_of /\ ddl' = ddl /\ num_pages' = num_pages /\ hdr' = hdr
      /\ fd2pageno' = fd2pageno /\ latest' = latest /\ born' = born /\ id[2] \in born[file]
  BY DEF FetchMiss, Fetchable, diskvars, Early
<1>3. /\ id[1] \in Fd /\ id[2] \in PageNo /\ file \in File /\ x # Nil
      /\ id = <<id[1], id[2]>>
  BY <1>2, Constants, BoundsAssumption DEF Base, TypeOK
<1>4. /\ pc'[w] = "pinned" /\ page'[w] = id /\ frame'[w] = x
      /\ \A u \in Worker : u # w => /\ pc'[u] = pc[u] /\ page'[u] = page[u]
                                    /\ frame'[u] = frame[u] /\ wrote'[u] = wrote[u]
  BY <1>1 DEF Base, TypeOK
<1>5. /\ Pinners(x) = {} /\ frames[x].pin = 0 /\ Lists' /\ Placed'
      /\ page_table'[id] = x /\ frames'[x].id = id /\ frames'[x].pin = 1
      /\ frames'[x].data = v
      /\ \A y \in Frame : y # x => frames'[y] = frames[y]
      /\ \A i \in PageId : i # id =>
             /\ page_table'[i] # Nil => page_table'[i] = page_table[i]
             /\ page_table[i] # x => page_table'[i] = page_table[i]
             /\ page_table'[i] # x
  <2> HIDE DEF v, file
  <2>1. QED BY <1>1, <1>2, Evict, ZenonT(60)
<1> HIDE DEF v
<1>6. Pins'
  <2>1. \A y \in Frame : Pinners(y)' = IF y = x THEN {w} ELSE Pinners(y)
    BY <1>2, <1>4, <1>5 DEF Pinners
  <2>2. \A y \in Frame : frames'[y].pin = Cardinality(Pinners(y)')
    <3>1. Cardinality({w}) = 1
      BY FS_Singleton
    <3>2. QED BY <1>5, <2>1, <3>1 DEF Pins
  <2>3. \A u \in Worker : pc'[u] = "pinned" => frames'[frame'[u]].id = page'[u]
    <3> SUFFICES ASSUME NEW u \in Worker, u # w, pc[u] = "pinned"
                 PROVE frames'[frame[u]].id = page[u]
      BY <1>4, <1>5
    <3>1. frame[u] \in Frame /\ frame[u] # x
      BY <1>5 DEF Pinners, Base, Working
    <3>2. QED BY <1>5, <3>1 DEF Pins
  <2>4. QED BY <2>2, <2>3 DEF Pins
<1>7. OneFd' /\ UsersOpen' /\ Unborn'
  BY <1>2, <1>4 DEF OneFd, UsersOpen, Unborn
<1>8. \A i \in PageId : Resident(i)' /\ i # id => Resident(i) /\ page_table'[i] = page_table[i]
  BY <1>5 DEF Resident
<1>9. ResidentBorn'
  BY <1>2, <1>8 DEF ResidentBorn
<1>10. Discarded'
  BY <1>2, <1>8 DEF Discarded
<1>11. Fresh'
  BY <1>2, <1>4 DEF Fresh
<1>12. Dense' /\ Headed'
  <2>1. \A fd \in Fd : AllocsOf(fd)' = AllocsOf(fd) /\ w \notin AllocsOf(fd)
    BY <1>2, <1>4 DEF AllocsOf
  <2>2. \A fd \in Fd : {page'[u][2] : u \in AllocsOf(fd)'} = {page[u][2] : u \in AllocsOf(fd)}
    BY <1>4, <2>1 DEF AllocsOf
  <2>3. QED BY <1>2, <2>1, <2>2 DEF Dense, Headed
<1>13. \A f \in File, p \in PageNo :
          \/ \E fd \in Fd : /\ file_of[fd] = f /\ Resident(<<fd, p>>) /\ Unsaved(<<fd, p>>)
                            /\ page_table[<<fd, p>>] # x
          \/ disk'[f].data[p] = latest[f][p] /\ (p \in born[f] => p < disk'[f].size)
  BY <1>1, <1>5, SaveVictim
<1>14. Cached'
  <2>1. v = latest[file][id[2]]
    <3>1. \A fd \in Fd : file_of[fd] = file => <<fd, id[2]>> = id
      BY <1>2, <1>3 DEF OneFd
    <3>2. QED BY <1>2, <1>3, <1>13, <3>1 DEF v
  <2>2. ASSUME NEW i \in PageId, Resident(i)', i # id
        PROVE frames'[page_table'[i]].data = latest[file_of[i[1]]][i[2]]
    <3>1. /\ Resident(i) /\ page_table'[i] = page_table[i] /\ page_table[i] # x
          /\ page_table[i] \in Frame
      BY <1>5, <1>8, <2>2 DEF Resident, Base, TypeOK
    <3>2. QED BY <1>5, <3>1 DEF Cached
  <2>3. QED BY <1>2, <1>5, <2>1, <2>2 DEF Cached
<1>15. Kept'
  <2> SUFFICES ASSUME NEW f \in File, NEW p \in PageNo
               PROVE \/ \E fd \in Fd : /\ file_of[fd] = f /\ Resident(<<fd, p>>)'
                                       /\ Unsaved(<<fd, p>>)'
                     \/ /\ disk'[f].data[p] = latest[f][p]
                        /\ p \in born[f] => p < disk'[f].size
    BY <1>2 DEF Kept
  <2>1. ASSUME NEW fd \in Fd, Resident(<<fd, p>>), Unsaved(<<fd, p>>),
               page_table[<<fd, p>>] # x
        PROVE  Resident(<<fd, p>>)' /\ Unsaved(<<fd, p>>)'
    <3> DEFINE i == <<fd, p>>
    <3>1. i \in PageId /\ i # id
      BY <1>2, <2>1 DEF PageId
    <3>2. /\ page_table[i] \in Frame /\ page_table'[i] = page_table[i] /\ Resident(i)'
          /\ frames'[page_table[i]] = frames[page_table[i]]
      BY <1>5, <2>1, <3>1 DEF Resident, Base, TypeOK
    <3>3. CASE frames[page_table[i]].dirty
      BY <3>2, <3>3 DEF Unsaved
    <3>4. CASE ~frames[page_table[i]].dirty
      <4>1. PICK u \in Worker : pc[u] = "pinned" /\ page[u] = i /\ wrote[u]
        BY <2>1, <3>4 DEF Unsaved
      <4>2. pc'[u] = "pinned" /\ page'[u] = i /\ wrote'[u]
        BY <1>2, <1>4, <4>1
      <4>3. QED BY <3>2, <4>2 DEF Unsaved
    <3>5. QED BY <3>3, <3>4
  <2>2. QED BY <1>13, <2>1
<1>16. QED BY <1>5, <1>6, <1>7, <1>9, <1>10, <1>11, <1>12, <1>14, <1>15

\* A page that exists is in the pool or on disk: a fetch does not fail.
LEMMA NoShortRead ==
    ASSUME Base, Inner, NEW w \in Worker, NEW id \in PageId, FetchShortRead(w, id), ~early'
    PROVE  FALSE
<1> USE DEF Inner, Group1, Group2, Group3
<1> DEFINE file == file_of[id[1]]
<1>1. PICK x \in Frame : /\ find_victim_page(shard_of(id), x) /\ WriteBack(x)
                         /\ id[2] >= disk'[file].size
  BY DEF FetchShortRead
<1>2. file # Nil /\ ~Resident(id) /\ id[2] \in born[file]
  BY DEF FetchShortRead, Fetchable, Early
<1>3. /\ id[1] \in Fd /\ id[2] \in PageNo /\ file \in File /\ shard_of(id) \in Shard
      /\ id = <<id[1], id[2]>>
  BY <1>2, Constants, BoundsAssumption DEF Base, TypeOK
<1>4. frames[x].pin = 0
  BY <1>1, <1>3, Victim
<1>5. \A fd \in Fd : file_of[fd] = file => <<fd, id[2]>> = id
  BY <1>2, <1>3 DEF OneFd
<1>6. id[2] < disk'[file].size
  BY <1>1, <1>2, <1>3, <1>4, <1>5, SaveVictim
<1>7. disk'[file].size \in Nat /\ id[2] \in Nat
  <2>1. disk' \in [File -> [size : 1 .. MaxPage + 1, data : [PageNo -> Data]]]
    BY <1>1, WriteBackTypes DEF Base
  <2>2. QED BY <1>3, <2>1 DEF PageNo
<1>8. QED BY <1>1, <1>6, <1>7

\* allocate_page hands out the number after the last.
LEMMA NewPageNumberInner ==
    ASSUME Base, Inner, NEW w \in Worker, NEW fd \in Fd, NewPageNumber(w, fd), ~recycled'
    PROVE  Inner'
<1> USE DEF Inner, Group1, Group2, Group3
<1> DEFINE n == fd2pageno[fd]
<1>1. /\ pc[w] = "idle" /\ file_of[fd] # Nil /\ ddl.fd # fd
      /\ page' = [page EXCEPT ![w] = <<fd, n>>] /\ pc' = [pc EXCEPT ![w] = "alloc"]
      /\ fd2pageno' = [fd2pageno EXCEPT ![fd] = n + 1]
      /\ frame' = frame /\ wrote' = wrote /\ file_of' = file_of /\ num_pages' = num_pages
      /\ hdr' = hdr /\ disk' = disk /\ ddl' = ddl /\ latest' = latest /\ born' = born
      /\ page_table' = page_table /\ frames' = frames /\ free_list' = free_list /\ lru' = lru
  BY DEF NewPageNumber, poolvars, next_page_no
<1>2. /\ pc'[w] = "alloc" /\ page'[w] = <<fd, n>>
      /\ \A u \in Worker : u # w => pc'[u] = pc[u] /\ page'[u] = page[u]
      /\ fd2pageno'[fd] = n + 1 /\ \A g \in Fd : g # fd => fd2pageno'[g] = fd2pageno[g]
      /\ n \in Nat \ {0} /\ num_pages[fd] \in Nat /\ <<fd, n>>[1] = fd /\ <<fd, n>>[2] = n
  BY <1>1 DEF Base, TypeOK, Numbered
<1>3. born[file_of[fd]] \cup {page[u][2] : u \in AllocsOf(fd)} = 1 .. n - 1
  BY <1>1 DEF Dense
<1>4. Lists' /\ Placed' /\ OneFd' /\ ResidentBorn' /\ Discarded' /\ Cached' /\ Unborn'
  BY <1>1 DEF Lists, Listed, Placed, OneFd, ResidentBorn, Discarded, Cached, Unborn, Resident
<1>5. Pins'
  <2>1. \A x \in Frame : Pinners(x)' = Pinners(x)
    BY <1>1, <1>2 DEF Pinners
  <2>2. QED BY <1>1, <1>2, <2>1 DEF Pins
<1>6. UsersOpen'
  BY <1>1, <1>2 DEF UsersOpen
<1>7. Fresh'
  <2>1. n \notin born[file_of[fd]]
    BY <1>2, <1>3
  <2>2. \A u \in Worker : pc[u] = "alloc" => page[u] # <<fd, n>>
    <3> SUFFICES ASSUME NEW u \in Worker, pc[u] = "alloc", page[u] = <<fd, n>> PROVE FALSE
      OBVIOUS
    <3>1. u \in AllocsOf(fd) /\ page[u][2] = n
      BY <1>2 DEF AllocsOf
    <3>2. QED BY <1>2, <1>3, <3>1
  <2>3. QED BY <1>1, <1>2, <2>1, <2>2 DEF Fresh
<1>8. Dense' /\ Headed'
  <2>1. AllocsOf(fd)' = AllocsOf(fd) \cup {w} /\ w \notin AllocsOf(fd)
    BY <1>1, <1>2 DEF AllocsOf
  <2>2. \A g \in Fd : g # fd => AllocsOf(g)' = AllocsOf(g) /\ w \notin AllocsOf(g)
    BY <1>1, <1>2 DEF AllocsOf
  <2>3. {page'[u][2] : u \in AllocsOf(fd)'} = {page[u][2] : u \in AllocsOf(fd)} \cup {n}
    <3>1. \A u \in AllocsOf(fd) : u \in Worker /\ u # w
      BY <2>1 DEF AllocsOf
    <3>2. QED BY <1>2, <2>1, <3>1
  <2>4. Cardinality(AllocsOf(fd)') = Cardinality(AllocsOf(fd)) + 1
    <3>1. AllocsOf(fd) \in SUBSET Worker
      BY DEF AllocsOf
    <3>2. QED BY <2>1, <3>1, WorkersFinite, FS_AddElement
  <2>5. \A g \in Fd : g # fd =>
            {page'[u][2] : u \in AllocsOf(g)'} = {page[u][2] : u \in AllocsOf(g)}
    <3>1. \A g \in Fd : g # fd => \A u \in AllocsOf(g) : page'[u] = page[u]
      BY <1>2, <2>2 DEF AllocsOf
    <3>2. QED BY <2>2, <3>1
  <2>6. ASSUME NEW g \in Fd, file_of[g] # Nil
        PROVE /\ born[file_of[g]] \cup {page'[u][2] : u \in AllocsOf(g)'}
                     = 1 .. fd2pageno'[g] - 1
              /\ num_pages[g] + Cardinality(AllocsOf(g)') = fd2pageno'[g]
    <3>1. CASE g = fd
      <4>1. num_pages[fd] + Cardinality(AllocsOf(fd)) = n
        BY <1>1 DEF Dense
      <4>2. Cardinality(AllocsOf(fd)) \in Nat
        BY WorkersFinite DEF AllocsOf
      <4>3. (1 .. n - 1) \cup {n} = 1 .. n + 1 - 1
        BY <1>2
      <4>4. QED BY <1>2, <1>3, <2>3, <2>4, <3>1, <4>1, <4>2, <4>3
    <3>2. CASE g # fd
      BY <1>2, <2>2, <2>5, <2>6, <3>2 DEF Dense
    <3>3. QED BY <3>1, <3>2
  <2>7. Headed'
    BY <1>1 DEF Headed
  <2>8. QED BY <1>1, <2>6, <2>7 DEF Dense
<1>9. Kept'
  <2>1. \A i : Unsaved(i) => Unsaved(i)'
    BY <1>1, <1>2 DEF Unsaved
  <2>2. QED BY <1>1, <2>1 DEF Kept, Resident
<1>10. QED BY <1>4, <1>5, <1>6, <1>7, <1>8, <1>9

\* new_page gives the number a frame, and num_pages counts it.
LEMMA NewPageFrameInner ==
    ASSUME Base, Inner, NEW w \in Worker, NewPageFrame(w), ~raced'
    PROVE  Inner'
<1> USE DEF Inner, Group1, Group2, Group3
<1>1. PICK id \in PageId : id = page[w]
  BY DEF NewPageFrame, Base, Working
<1> DEFINE file == file_of[id[1]]
<1>2. PICK x \in Frame :
         /\ find_victim_page(shard_of(id), x) /\ WriteBack(x) /\ Remap(x, id)
         /\ frames' = [frames EXCEPT ![x] = [id |-> id, data |-> 0, dirty |-> FALSE, pin |-> 1]]
         /\ frame' = [frame EXCEPT ![w] = x]
  BY <1>1 DEF NewPageFrame, reset_memory
<1>3. /\ pc[w] = "alloc" /\ file # Nil /\ ddl.fd # id[1] /\ id[2] \notin born[file]
      /\ file_of' = file_of /\ ddl' = ddl /\ hdr' = hdr /\ page' = page
      /\ fd2pageno' = fd2pageno /\ latest' = latest
      /\ num_pages' = [num_pages EXCEPT ![id[1]] = @ + 1]
      /\ born' = [born EXCEPT ![file] = born[file] \cup {id[2]}]
      /\ pc' = [pc EXCEPT ![w] = "pinned"] /\ wrote' = [wrote EXCEPT ![w] = TRUE]
  BY <1>1 DEF NewPageFrame, CountPage, UsersOpen, Fresh
<1>4. /\ id[1] \in Fd /\ id[2] \in PageNo /\ file \in File /\ x # Nil
      /\ id = <<id[1], id[2]>>
  BY <1>3, Constants, BoundsAssumption DEF Base, TypeOK
<1>5. /\ pc'[w] = "pinned" /\ frame'[w] = x /\ wrote'[w] = TRUE
      /\ \A u \in Worker : u # w => pc'[u] = pc[u] /\ frame'[u] = frame[u] /\ wrote'[u] = wrote[u]
      /\ born'[file] = born[file] \cup {id[2]}
      /\ \A f \in File : f # file => born'[f] = born[f]
      /\ num_pages'[id[1]] = num_pages[id[1]] + 1
      /\ \A g \in Fd : g # id[1] => num_pages'[g] = num_pages[g]
  BY <1>2, <1>3, <1>4 DEF Base, TypeOK
<1>6. ~Resident(id)
  BY <1>3 DEF ResidentBorn
<1>7. \A g \in Fd : file_of[g] = file => g = id[1]
  BY <1>3, <1>4 DEF OneFd
<1>8. /\ Pinners(x) = {} /\ frames[x].pin = 0 /\ Lists' /\ Placed'
      /\ page_table'[id] = x /\ frames'[x].id = id /\ frames'[x].pin = 1
      /\ frames'[x].data = 0
      /\ \A y \in Frame : y # x => frames'[y] = frames[y]
      /\ \A i \in PageId : i # id =>
             /\ page_table'[i] # Nil => page_table'[i] = page_table[i]
             /\ page_table[i] # x => page_table'[i] = page_table[i]
             /\ page_table'[i] # x
  BY <1>2, <1>6, Evict
<1>9. Pins'
  <2>1. \A y \in Frame : Pinners(y)' = IF y = x THEN {w} ELSE Pinners(y)
    BY <1>3, <1>5, <1>8 DEF Pinners
  <2>2. \A y \in Frame : frames'[y].pin = Cardinality(Pinners(y)')
    <3>1. Cardinality({w}) = 1
      BY FS_Singleton
    <3>2. QED BY <1>8, <2>1, <3>1 DEF Pins
  <2>3. \A u \in Worker : pc'[u] = "pinned" => frames'[frame'[u]].id = page'[u]
    <3> SUFFICES ASSUME NEW u \in Worker, u # w, pc[u] = "pinned"
                 PROVE frames'[frame[u]].id = page[u]
      BY <1>1, <1>3, <1>5, <1>8
    <3>1. frame[u] \in Frame /\ frame[u] # x
      BY <1>8 DEF Pinners, Base, Working
    <3>2. QED BY <1>8, <3>1 DEF Pins
  <2>4. QED BY <2>2, <2>3 DEF Pins
<1>10. OneFd' /\ UsersOpen'
  BY <1>1, <1>3, <1>5 DEF OneFd, UsersOpen
<1>11. Unborn'
  BY <1>3, <1>5 DEF Unborn
<1>12. \A i \in PageId : Resident(i)' /\ i # id => Resident(i) /\ page_table'[i] = page_table[i]
  BY <1>8 DEF Resident
<1>13. ResidentBorn'
  <2> SUFFICES ASSUME NEW i \in PageId, Resident(i)'
               PROVE file_of[i[1]] # Nil /\ i[2] \in born'[file_of[i[1]]]
    BY <1>3 DEF ResidentBorn
  <2>1. CASE i = id
    BY <1>3, <1>5, <2>1
  <2>2. CASE i # id
    <3>1. file_of[i[1]] \in File /\ i[2] \in born[file_of[i[1]]]
      BY <1>12, <2>2, Constants DEF ResidentBorn, Base, TypeOK
    <3>2. QED BY <1>5, <3>1, BoundsAssumption
  <2>3. QED BY <2>1, <2>2
<1>14. Discarded'
  BY <1>3, <1>12 DEF Discarded
<1>15. Fresh'
  <2> SUFFICES ASSUME NEW u \in Worker, u # w, pc[u] = "alloc"
               PROVE  /\ page[u][2] \notin born'[file_of[page[u][1]]]
                      /\ \A z \in Worker : pc'[z] = "alloc" /\ page[z] = page[u] => z = u
    BY <1>3, <1>5 DEF Fresh
  <2>1. /\ page[u] \in PageId /\ page[u] = <<page[u][1], page[u][2]>> /\ page[u][1] \in Fd
        /\ file_of[page[u][1]] \in File /\ page[u] # id
    <3>1. page[u] \in PageId
      BY DEF Base, Working
    <3>2. file_of[page[u][1]] # Nil
      BY DEF UsersOpen
    <3>3. QED BY <1>1, <1>3, <3>1, <3>2, Constants DEF Base, TypeOK, Fresh
  <2>2. page[u][2] \notin born[file_of[page[u][1]]]
    BY DEF Fresh
  <2>3. page[u][2] \notin born'[file_of[page[u][1]]]
    <3>1. CASE file_of[page[u][1]] = file
      BY <1>4, <1>5, <1>7, <2>1, <2>2, <3>1
    <3>2. CASE file_of[page[u][1]] # file
      BY <1>5, <2>1, <2>2, <3>2
    <3>3. QED BY <3>1, <3>2
  <2>4. QED BY <1>3, <1>5, <2>3 DEF Fresh
<1>16. Dense'
  <2> SUFFICES ASSUME NEW g \in Fd, file_of[g] # Nil
               PROVE /\ born'[file_of[g]] \cup {page[u][2] : u \in AllocsOf(g)'}
                            = 1 .. fd2pageno[g] - 1
                     /\ num_pages'[g] + Cardinality(AllocsOf(g)') = fd2pageno[g]
    BY <1>3 DEF Dense
  <2>1. /\ born[file_of[g]] \cup {page[u][2] : u \in AllocsOf(g)} = 1 .. fd2pageno[g] - 1
        /\ num_pages[g] + Cardinality(AllocsOf(g)) = fd2pageno[g]
    BY DEF Dense
  <2>2. AllocsOf(g)' = AllocsOf(g) \ {w}
    BY <1>3, <1>5 DEF AllocsOf
  <2>3. CASE g = id[1]
    <3>1. w \in AllocsOf(g) /\ page[w][2] = id[2]
      BY <1>1, <1>3, <2>3 DEF AllocsOf
    <3>2. /\ AllocsOf(g) \in SUBSET Worker /\ IsFiniteSet(AllocsOf(g))
          /\ Cardinality(AllocsOf(g)) \in Nat
      BY WorkersFinite DEF AllocsOf
    <3>3. Cardinality(AllocsOf(g)') = Cardinality(AllocsOf(g)) - 1
      BY <2>2, <3>1, <3>2, FS_RemoveElement
    <3>4. num_pages[g] \in Nat
      BY DEF Base, TypeOK
    <3>5. born'[file_of[g]] \cup {page[u][2] : u \in AllocsOf(g)'}
          = born[file_of[g]] \cup {page[u][2] : u \in AllocsOf(g)}
      BY <1>5, <2>2, <2>3, <3>1
    <3>6. QED BY <1>5, <2>1, <2>3, <3>2, <3>3, <3>4, <3>5
  <2>4. CASE g # id[1]
    <3>1. file_of[g] # file /\ file_of[g] \in File
      BY <1>7, <2>4 DEF Base, TypeOK
    <3>2. w \notin AllocsOf(g)
      BY <1>1, <2>4 DEF AllocsOf
    <3>3. AllocsOf(g)' = AllocsOf(g)
      BY <2>2, <3>2
    <3>4. QED BY <1>5, <2>1, <2>4, <3>1, <3>3
  <2>5. QED BY <2>3, <2>4
<1>17. Headed'
  <2>1. ASSUME NEW f \in File, \A g \in Fd : file_of[g] # f PROVE born'[f] = 1 .. hdr[f] - 1
    <3>1. f # file
      BY <1>4, <2>1
    <3>2. QED BY <1>5, <2>1, <3>1 DEF Headed
  <2>2. ddl.pc # "idle" => hdr[file_of[ddl.fd]] = num_pages'[ddl.fd]
    BY <1>3, <1>5 DEF Headed, Base, Closing
  <2>3. QED BY <1>3, <2>1, <2>2 DEF Headed
<1>18. \A f \in File, p \in PageNo :
          \/ \E fd \in Fd : /\ file_of[fd] = f /\ Resident(<<fd, p>>) /\ Unsaved(<<fd, p>>)
                            /\ page_table[<<fd, p>>] # x
          \/ disk'[f].data[p] = latest[f][p] /\ (p \in born[f] => p < disk'[f].size)
  BY <1>2, <1>8, SaveVictim
<1>19. Cached'
  <2>1. latest[file][id[2]] = 0
    BY <1>3, <1>4 DEF Unborn
  <2>2. ASSUME NEW i \in PageId, Resident(i)', i # id
        PROVE frames'[page_table'[i]].data = latest[file_of[i[1]]][i[2]]
    <3>1. /\ Resident(i) /\ page_table'[i] = page_table[i] /\ page_table[i] # x
          /\ page_table[i] \in Frame
      BY <1>8, <1>12, <2>2 DEF Resident, Base, TypeOK
    <3>2. QED BY <1>8, <3>1 DEF Cached
  <2>3. QED BY <1>3, <1>8, <2>1, <2>2 DEF Cached
<1>20. Kept'
  <2> SUFFICES ASSUME NEW f \in File, NEW p \in PageNo
               PROVE \/ \E fd \in Fd : /\ file_of[fd] = f /\ Resident(<<fd, p>>)'
                                       /\ Unsaved(<<fd, p>>)'
                     \/ /\ disk'[f].data[p] = latest[f][p]
                        /\ p \in born'[f] => p < disk'[f].size
    BY <1>3 DEF Kept
  <2>1. ASSUME NEW fd \in Fd, Resident(<<fd, p>>), Unsaved(<<fd, p>>),
               page_table[<<fd, p>>] # x
        PROVE  Resident(<<fd, p>>)' /\ Unsaved(<<fd, p>>)'
    <3> DEFINE i == <<fd, p>>
    <3>1. i \in PageId /\ i # id
      BY <1>6, <2>1 DEF PageId
    <3>2. /\ page_table[i] \in Frame /\ page_table'[i] = page_table[i] /\ Resident(i)'
          /\ frames'[page_table[i]] = frames[page_table[i]]
      BY <1>8, <2>1, <3>1 DEF Resident, Base, TypeOK
    <3>3. CASE frames[page_table[i]].dirty
      BY <3>2, <3>3 DEF Unsaved
    <3>4. CASE ~frames[page_table[i]].dirty
      <4>1. PICK u \in Worker : pc[u] = "pinned" /\ page[u] = i /\ wrote[u]
        BY <2>1, <3>4 DEF Unsaved
      <4>2. pc'[u] = "pinned" /\ page'[u] = i /\ wrote'[u]
        BY <1>3, <1>5, <4>1
      <4>3. QED BY <3>2, <4>2 DEF Unsaved
    <3>5. QED BY <3>3, <3>4
  <2>2. CASE f = file /\ p = id[2]
    <3>1. Resident(id)' /\ Unsaved(id)'
      BY <1>1, <1>3, <1>4, <1>5, <1>8 DEF Resident, Unsaved
    <3>2. QED BY <1>4, <2>2, <3>1
  <2>3. CASE ~(f = file /\ p = id[2])
    <3>1. p \in born'[f] => p \in born[f]
      BY <1>5, <2>3
    <3>2. QED BY <1>18, <2>1, <3>1
  <2>4. QED BY <2>2, <2>3
<1>21. QED BY <1>8, <1>9, <1>10, <1>11, <1>13, <1>14, <1>15, <1>16, <1>17, <1>19, <1>20

\* A write to a pinned page.
LEMMA WriteInner ==
    ASSUME Base, Inner, NEW w \in Worker, Write(w)
    PROVE  Inner'
<1> USE DEF Inner, Group1, Group2, Group3
<1>1. pc[w] = "pinned"
  BY DEF Write
<1>2. PICK id \in PageId, x \in Frame :
         /\ id = page[w] /\ x = frame[w] /\ frames[x].id = id /\ page_table[id] = x
         /\ Resident(id)
  BY <1>1, PinnedFrame
<1>3. PICK v \in Data : v = writes + 1
  <2>1. writes \in 0 .. MaxWrites /\ writes < MaxWrites
    BY DEF Write, Base, TypeOK
  <2>2. writes + 1 \in Data
    BY <2>1, BoundsAssumption DEF Data
  <2>3. QED BY <2>2
<1> DEFINE file == file_of[id[1]]
<1>4. /\ id[1] \in Fd /\ id[2] \in PageNo /\ id = <<id[1], id[2]>> /\ id # NoPage
      /\ file # Nil /\ file \in File /\ id[2] \in born[file]
  BY <1>2, Constants DEF ResidentBorn, Base, TypeOK
<1>5. /\ frames' = [frames EXCEPT ![x] = [frames[x] EXCEPT !.data = v]]
      /\ wrote' = [wrote EXCEPT ![w] = TRUE]
      /\ latest' = [latest EXCEPT ![file] = [latest[file] EXCEPT ![id[2]] = v]]
      /\ pc' = pc /\ page' = page /\ frame' = frame /\ file_of' = file_of /\ ddl' = ddl
      /\ num_pages' = num_pages /\ hdr' = hdr /\ fd2pageno' = fd2pageno /\ born' = born
      /\ disk' = disk /\ page_table' = page_table /\ free_list' = free_list /\ lru' = lru
  BY <1>2, <1>3 DEF Write, diskvars
<1>6. /\ frames \in [Frame -> [id : PageId \cup {NoPage}, data : Data, dirty : BOOLEAN, pin : Nat]]
      /\ wrote \in [Worker -> BOOLEAN] /\ latest \in [File -> [PageNo -> Data]]
  BY DEF Base, TypeOK
<1>7. /\ frames'[x].id = id /\ frames'[x].data = v /\ frames'[x].dirty = frames[x].dirty
      /\ frames'[x].pin = frames[x].pin
      /\ \A y \in Frame : y # x => frames'[y] = frames[y]
  BY <1>2, <1>5, <1>6
<1>8. /\ wrote'[w] = TRUE /\ \A u \in Worker : wrote[u] => wrote'[u]
      /\ latest'[file][id[2]] = v
      /\ \A f \in File, p \in PageNo : <<f, p>> # <<file, id[2]>> => latest'[f][p] = latest[f][p]
  BY <1>4, <1>5, <1>6
<1>9. Lists' /\ OneFd' /\ UsersOpen' /\ ResidentBorn' /\ Discarded'
  BY <1>5 DEF Lists, Listed, OneFd, UsersOpen, ResidentBorn, Discarded, Resident
<1>10. Fresh' /\ Dense' /\ Headed'
  BY <1>5, SMTT(30) DEF Fresh, Dense, Headed, AllocsOf
<1>11. Placed'
  <2>1. frames[x] # Free
    BY <1>2, <1>4 DEF Free
  <2>2. ASSUME NEW y \in Frame
        PROVE LET t == FrameShard[y] IN
            \/ /\ frames'[y] = Free /\ y \in ToSet(free_list[t]) /\ y \notin ToSet(lru[t])
            \/ /\ frames'[y].id \in PageId /\ page_table[frames'[y].id] = y
               /\ shard_of(frames'[y].id) = t
               /\ y \notin ToSet(free_list[t]) /\ (y \in ToSet(lru[t]) <=> frames'[y].pin = 0)
    <3>1. CASE y = x
      BY <1>2, <1>7, <2>1, <3>1 DEF Placed
    <3>2. CASE y # x
      BY <1>7, <3>2 DEF Placed
    <3>3. QED BY <3>1, <3>2
  <2>3. QED BY <1>5, <2>2 DEF Placed, shard_of
<1>12. Pins'
  <2>1. \A y \in Frame : /\ frames'[y].id = frames[y].id /\ frames'[y].pin = frames[y].pin
                         /\ Pinners(y)' = Pinners(y)
    BY <1>2, <1>5, <1>7 DEF Pinners
  <2>2. \A u \in Worker : pc[u] = "pinned" => frame[u] \in Frame
    BY DEF Base, Working
  <2>3. QED BY <1>5, <2>1, <2>2 DEF Pins
<1>13. Cached'
  <2> SUFFICES ASSUME NEW i \in PageId, Resident(i)
               PROVE frames'[page_table[i]].data = latest'[file_of[i[1]]][i[2]]
    BY <1>5 DEF Cached, Resident
  <2>1. CASE i = id
    BY <1>2, <1>7, <1>8, <2>1
  <2>2. CASE i # id
    <3>1. page_table[i] \in Frame /\ page_table[i] # x
      BY <1>2, <2>2 DEF Base, Mapped, TypeOK, Resident
    <3>2. /\ i[1] \in Fd /\ i[2] \in PageNo /\ i = <<i[1], i[2]>>
          /\ file_of[i[1]] # Nil /\ file_of[i[1]] \in File
      BY Constants DEF ResidentBorn, Base, TypeOK
    <3>3. <<file_of[i[1]], i[2]>> # <<file, id[2]>>
      BY <1>4, <2>2, <3>2 DEF OneFd
    <3>4. QED BY <1>7, <1>8, <3>1, <3>2, <3>3 DEF Cached
  <2>3. QED BY <2>1, <2>2
<1>14. Unborn'
  <2> SUFFICES ASSUME NEW f \in File, NEW p \in PageNo, p \notin born[f]
               PROVE latest'[f][p] = 0
    BY <1>5 DEF Unborn
  <2>1. <<f, p>> # <<file, id[2]>>
    BY <1>4
  <2>2. QED BY <1>8, <2>1 DEF Unborn
<1>15. Kept'
  <2>1. \A i \in PageId : Resident(i) /\ Unsaved(i) => Unsaved(i)'
    <3>1. \A y \in Frame : frames'[y].dirty = frames[y].dirty
      BY <1>7
    <3>2. \A i \in PageId : Resident(i) => page_table[i] \in Frame
      BY DEF Resident, Base, TypeOK
    <3>3. QED BY <1>5, <1>8, <3>1, <3>2 DEF Unsaved
  <2>2. Unsaved(id)'
    BY <1>1, <1>2, <1>5, <1>8 DEF Unsaved
  <2>3. \A fd \in Fd, p \in PageNo : <<fd, p>> \in PageId
    BY DEF PageId
  <2> SUFFICES ASSUME NEW f \in File, NEW p \in PageNo
               PROVE \/ \E fd \in Fd : /\ file_of[fd] = f /\ Resident(<<fd, p>>)
                                       /\ Unsaved(<<fd, p>>)'
                     \/ /\ disk[f].data[p] = latest'[f][p]
                        /\ p \in born[f] => p < disk[f].size
    BY <1>5 DEF Kept, Resident
  <2>4. CASE <<f, p>> = <<file, id[2]>>
    BY <1>2, <1>4, <2>2, <2>4
  <2>5. CASE <<f, p>> # <<file, id[2]>>
    BY <1>8, <2>1, <2>3, <2>5 DEF Kept
  <2>6. QED BY <2>4, <2>5
<1>16. QED BY <1>9, <1>10, <1>11, <1>12, <1>13, <1>14, <1>15

\* An unpin, which marks the page dirty if the worker wrote it.
LEMMA UnpinInner ==
    ASSUME Base, Inner, NEW w \in Worker, Unpin(w)
    PROVE  Inner'
<1> USE DEF Inner, Group1, Group2, Group3
<1>1. pc[w] = "pinned"
  BY DEF Unpin
<1>2. PICK id \in PageId, x \in Frame :
         /\ id = page[w] /\ x = frame[w] /\ frames[x].id = id /\ page_table[id] = x
         /\ Resident(id) /\ frames[x].pin > 0
  BY <1>1, PinnedFrame
<1> DEFINE s == shard_of(id)
<1>3. /\ frames \in [Frame -> [id : PageId \cup {NoPage}, data : Data, dirty : BOOLEAN, pin : Nat]]
      /\ lru \in [Shard -> Seq(Frame)] /\ FrameShard \in [Frame -> Shard]
      /\ s \in Shard /\ id # NoPage /\ id[1] \in Fd
      /\ wrote[w] \in BOOLEAN /\ frames[x].pin \in Nat
  BY <1>2, Constants, BoundsAssumption DEF Base, TypeOK
<1>4. PICK b \in BOOLEAN : b = (frames[x].dirty \/ wrote[w])
  OBVIOUS
<1>5. /\ frames' = [frames EXCEPT ![x] = [frames[x] EXCEPT !.pin = frames[x].pin - 1,
                                                           !.dirty = b]]
      /\ lru' = IF frames[x].pin = 1 THEN [lru EXCEPT ![s] = ReplacerUnpin(lru[s], x)] ELSE lru
      /\ pc' = [pc EXCEPT ![w] = "idle"] /\ page' = [page EXCEPT ![w] = NoPage]
      /\ frame' = [frame EXCEPT ![w] = Nil] /\ wrote' = [wrote EXCEPT ![w] = FALSE]
      /\ file_of' = file_of /\ ddl' = ddl /\ free_list' = free_list /\ latest' = latest
      /\ num_pages' = num_pages /\ hdr' = hdr /\ fd2pageno' = fd2pageno /\ born' = born
      /\ disk' = disk /\ page_table' = page_table
  BY <1>2, <1>4, ZenonT(60) DEF Unpin, diskvars, ghosts, DirtyAfter, LastPin
<1>6. /\ frames'[x].id = id /\ frames'[x].data = frames[x].data /\ frames'[x].dirty = b
      /\ frames'[x].pin = frames[x].pin - 1
      /\ \A y \in Frame : y # x => frames'[y] = frames[y]
  BY <1>2, <1>3, <1>4, <1>5
<1>7. /\ pc'[w] = "idle"
      /\ \A u \in Worker : u # w => /\ pc'[u] = pc[u] /\ page'[u] = page[u]
                                    /\ frame'[u] = frame[u] /\ wrote'[u] = wrote[u]
  BY <1>5 DEF Base, TypeOK
<1>8. /\ FrameShard[x] = s /\ x \notin ToSet(free_list[s]) /\ x \notin ToSet(lru[s])
  BY <1>2, <1>3 DEF Placed, Free
<1>9. \A t \in Shard :
          /\ IsInjective(lru'[t])
          /\ x \in ToSet(lru'[t]) <=> t = s /\ frames[x].pin = 1
          /\ \A y : y # x => (y \in ToSet(lru'[t]) <=> y \in ToSet(lru[t]))
  <2>1. lru[s] \in Seq(Frame) /\ \A t \in Shard : IsInjective(lru[t])
    BY <1>3 DEF Lists
  <2>2. /\ IsInjective(ReplacerUnpin(lru[s], x))
        /\ ToSet(ReplacerUnpin(lru[s], x)) = ToSet(lru[s]) \cup {x}
    BY <1>3, <2>1, UnpinElement
  <2>3. \A t \in Shard : x \notin ToSet(lru[t])
    BY <1>8 DEF Lists, Listed
  <2>4. CASE frames[x].pin = 1
    <3>1. \A t \in Shard : lru'[t] = IF t = s THEN ReplacerUnpin(lru[s], x) ELSE lru[t]
      BY <1>3, <1>5, <2>4
    <3>2. QED BY <2>1, <2>2, <2>3, <2>4, <3>1
  <2>5. CASE frames[x].pin # 1
    <3>1. lru' = lru
      BY <1>5, <2>5
    <3>2. QED BY <2>1, <2>3, <2>5, <3>1
  <2>6. QED BY <2>4, <2>5
<1>10. Lists'
  <2>1. \A t \in Shard : IsInjective(free_list[t]) /\ IsInjective(lru'[t])
    BY <1>9 DEF Lists
  <2>2. ASSUME NEW t \in Shard, NEW y, y \in ToSet(free_list[t]) \/ y \in ToSet(lru'[t])
        PROVE FrameShard[y] = t
    BY <1>8, <1>9, <2>2 DEF Lists, Listed
  <2>3. QED BY <1>5, <2>1, <2>2 DEF Lists, Listed
<1>11. Placed'
  <2> SUFFICES ASSUME NEW y \in Frame
               PROVE LET t == FrameShard[y] IN
                   \/ /\ frames'[y] = Free /\ y \in ToSet(free_list[t])
                      /\ y \notin ToSet(lru'[t])
                   \/ /\ frames'[y].id \in PageId /\ page_table[frames'[y].id] = y
                      /\ shard_of(frames'[y].id) = t
                      /\ y \notin ToSet(free_list[t])
                      /\ (y \in ToSet(lru'[t]) <=> frames'[y].pin = 0)
    BY <1>5 DEF Placed, shard_of
  <2>1. CASE y = x
    <3>1. frames[x].pin - 1 = 0 <=> frames[x].pin = 1
      BY <1>3
    <3>2. x \in ToSet(lru'[s]) <=> frames[x].pin = 1
      BY <1>3, <1>8, <1>9
    <3>3. QED BY <1>2, <1>6, <1>8, <2>1, <3>1, <3>2
  <2>2. CASE y # x
    <3>1. /\ frames'[y] = frames[y] /\ FrameShard[y] \in Shard
          /\ y \in ToSet(lru'[FrameShard[y]]) <=> y \in ToSet(lru[FrameShard[y]])
      BY <1>3, <1>6, <1>9, <2>2
    <3>2. QED BY <3>1 DEF Placed
  <2>3. QED BY <2>1, <2>2
<1>12. Pins'
  <2>1. Pinners(x)' = Pinners(x) \ {w} /\ w \in Pinners(x) /\ Pinners(x) \in SUBSET Worker
    BY <1>1, <1>2, <1>7 DEF Pinners
  <2>2. \A y \in Frame : y # x => Pinners(y)' = Pinners(y)
    BY <1>1, <1>2, <1>7 DEF Pinners
  <2>3. Cardinality(Pinners(x)') = frames[x].pin - 1
    BY <1>2, <2>1, WorkersFinite, FS_RemoveElement DEF Pins
  <2>4. \A y \in Frame : frames'[y].pin = Cardinality(Pinners(y)')
    BY <1>6, <2>2, <2>3 DEF Pins
  <2>5. \A u \in Worker : pc'[u] = "pinned" => frames'[frame'[u]].id = page'[u]
    <3>1. \A u \in Worker : pc[u] = "pinned" => frame[u] \in Frame /\ frames[frame[u]].id = page[u]
      BY DEF Base, Working, Pins
    <3>2. \A y \in Frame : frames'[y].id = frames[y].id
      BY <1>2, <1>6
    <3>3. QED BY <1>7, <3>1, <3>2
  <2>6. QED BY <2>4, <2>5 DEF Pins
<1>13. OneFd' /\ UsersOpen' /\ ResidentBorn' /\ Unborn' /\ Discarded'
  BY <1>5, <1>7 DEF OneFd, UsersOpen, ResidentBorn, Unborn, Discarded, Resident
<1>14. Fresh'
  BY <1>5, <1>7 DEF Fresh
<1>15. Dense' /\ Headed'
  <2>1. \A fd \in Fd : AllocsOf(fd)' = AllocsOf(fd) /\ w \notin AllocsOf(fd)
    BY <1>1, <1>7 DEF AllocsOf
  <2>2. \A fd \in Fd : {page'[u][2] : u \in AllocsOf(fd)'} = {page[u][2] : u \in AllocsOf(fd)}
    BY <1>7, <2>1 DEF AllocsOf
  <2>3. QED BY <1>5, <2>1, <2>2 DEF Dense, Headed
<1>16. Cached'
  <2>1. \A y \in Frame : frames'[y].data = frames[y].data
    BY <1>6
  <2>2. \A i \in PageId : Resident(i) => page_table[i] \in Frame
    BY DEF Base, TypeOK, Resident
  <2>3. QED BY <1>5, <2>1, <2>2 DEF Cached, Resident
<1>17. Kept'
  <2>1. ASSUME NEW i \in PageId, Resident(i), Unsaved(i) PROVE Unsaved(i)'
    <3>1. page_table[i] \in Frame /\ page_table'[i] = page_table[i]
      BY <1>5, <2>1 DEF Base, TypeOK, Resident
    <3>2. CASE frames[page_table[i]].dirty
      <4>1. frames'[page_table[i]].dirty
        BY <1>4, <1>6, <3>1, <3>2
      <4>2. QED BY <3>1, <4>1 DEF Unsaved
    <3>3. CASE ~frames[page_table[i]].dirty
      <4>1. PICK u \in Worker : pc[u] = "pinned" /\ page[u] = i /\ wrote[u]
        BY <2>1, <3>3 DEF Unsaved
      <4>2. CASE u = w
        <5>1. b
          BY <1>4, <4>1, <4>2
        <5>2. i = id
          BY <1>2, <4>1, <4>2
        <5>3. QED BY <1>2, <1>6, <3>1, <5>1, <5>2 DEF Unsaved
      <4>3. CASE u # w
        BY <1>7, <3>1, <4>1, <4>3 DEF Unsaved
      <4>4. QED BY <4>2, <4>3
    <3>4. QED BY <3>2, <3>3
  <2>2. \A fd \in Fd, p \in PageNo : <<fd, p>> \in PageId
    BY DEF PageId
  <2>3. QED BY <1>5, <2>1, <2>2 DEF Kept, Resident
<1>18. QED BY <1>10, <1>11, <1>12, <1>13, <1>14, <1>15, <1>16, <1>17

\* A flush of one page: it is on disk then, and clean.
LEMMA FlushPageInner ==
    ASSUME Base, Inner, NEW id \in PageId, FlushPage(id)
    PROVE  Inner'
<1> USE DEF Inner, Group1, Group2, Group3
<1>1. /\ UNCHANGED <<file_of, num_pages, hdr, fd2pageno, page_table, free_list, lru, pc, page,
                     frame, wrote, ddl, latest, born>>
  BY DEF FlushPage, diskvars, workers, ghosts
<1>2. Lists' /\ OneFd' /\ UsersOpen' /\ ResidentBorn' /\ Discarded' /\ Unborn' /\ Fresh'
  BY <1>1 DEF Lists, Listed, OneFd, UsersOpen, ResidentBorn, Discarded, Resident, Unborn, Fresh
<1>3. Dense' /\ Headed'
  BY <1>1 DEF Dense, Headed, AllocsOf
<1>4. CASE ~Resident(id)
  <2>1. disk' = disk /\ frames' = frames
    BY <1>4 DEF FlushPage
  <2>2. Placed'
    BY <1>1, <2>1 DEF Placed, shard_of
  <2>3. Pins'
    BY <1>1, <2>1 DEF Pins, Pinners
  <2>4. Cached' /\ Kept'
    BY <1>1, <2>1 DEF Cached, Kept, Unsaved, Resident
  <2>5. QED BY <1>2, <1>3, <2>2, <2>3, <2>4
<1>5. CASE Resident(id)
  <2>1. PICK x \in Frame : x = page_table[id]
    BY <1>5 DEF Resident, Base, TypeOK
  <2>2. /\ disk' = write_page(disk, id, frames[x].data)
        /\ frames' = [frames EXCEPT ![x] = [frames[x] EXCEPT !.dirty = FALSE]]
        /\ frames[x].data \in Data
    BY <1>5, <2>1 DEF FlushPage, Base, TypeOK
  <2>3. frames \in [Frame -> [id : PageId \cup {NoPage}, data : Data, dirty : BOOLEAN, pin : Nat]]
    BY DEF Base, TypeOK
  <2>4. /\ frames'[x].id = frames[x].id /\ frames'[x].data = frames[x].data
        /\ frames'[x].dirty = FALSE /\ frames'[x].pin = frames[x].pin
        /\ \A y \in Frame : y # x => frames'[y] = frames[y]
    BY <2>2, <2>3
  <2>5. frames[x].id = id /\ id # NoPage
    BY <1>5, <2>1, Constants DEF Base, Mapped
  <2> DEFINE file == file_of[id[1]]
  <2>6. /\ id[1] \in Fd /\ id[2] \in PageNo /\ id = <<id[1], id[2]>>
        /\ file # Nil /\ file \in File /\ frames[x].data = latest[file][id[2]]
    BY <1>5, <2>1, Constants DEF ResidentBorn, Cached, Base, TypeOK
  <2>7. /\ disk' \in [File -> [size : 1 .. MaxPage + 1, data : [PageNo -> Data]]]
        /\ disk'[file].data[id[2]] = latest[file][id[2]] /\ id[2] < disk'[file].size
        /\ \A g \in File : /\ disk[g].size <= disk'[g].size
                           /\ \A p \in PageNo : <<g, p>> # <<file, id[2]>> =>
                                                    disk'[g].data[p] = disk[g].data[p]
    <3>1. TypeOK
      BY DEF Base
    <3>2. /\ disk' \in [File -> [size : 1 .. MaxPage + 1, data : [PageNo -> Data]]]
          /\ file_of[id[1]] # Nil => /\ disk'[file_of[id[1]]].data[id[2]] = frames[x].data
                                     /\ id[2] < disk'[file_of[id[1]]].size
          /\ \A g \in File : /\ disk[g].size <= disk'[g].size
                             /\ \A p \in PageNo : <<g, p>> # <<file_of[id[1]], id[2]>> =>
                                                      disk'[g].data[p] = disk[g].data[p]
      BY <2>2, <3>1, WritePage
    <3>3. QED BY <2>6, <3>2
  <2>8. Placed'
    <3> SUFFICES ASSUME NEW y \in Frame
                 PROVE LET t == FrameShard[y] IN
                     \/ /\ frames'[y] = Free /\ y \in ToSet(free_list[t])
                        /\ y \notin ToSet(lru[t])
                     \/ /\ frames'[y].id \in PageId /\ page_table[frames'[y].id] = y
                        /\ shard_of(frames'[y].id) = t
                        /\ y \notin ToSet(free_list[t])
                        /\ (y \in ToSet(lru[t]) <=> frames'[y].pin = 0)
      BY <1>1 DEF Placed, shard_of
    <3>1. CASE y = x
      BY <2>4, <2>5, <3>1 DEF Placed, Free
    <3>2. CASE y # x
      BY <2>4, <3>2 DEF Placed
    <3>3. QED BY <3>1, <3>2
  <2>9. \A y \in Frame : /\ frames'[y].id = frames[y].id /\ frames'[y].pin = frames[y].pin
                         /\ frames'[y].data = frames[y].data
    BY <2>4
  <2>10. Pins'
    <3>1. \A y \in Frame : Pinners(y)' = Pinners(y)
      BY <1>1 DEF Pinners
    <3>2. \A u \in Worker : pc[u] = "pinned" => frame[u] \in Frame
      BY DEF Base, Working
    <3>3. QED BY <1>1, <2>9, <3>1, <3>2 DEF Pins
  <2>11. Cached'
    <3>1. \A i \in PageId : Resident(i) => page_table[i] \in Frame
      BY DEF Base, TypeOK, Resident
    <3>2. QED BY <1>1, <2>9, <3>1 DEF Cached, Resident
  <2>12. Kept'
    <3> SUFFICES ASSUME NEW f \in File, NEW p \in PageNo
                 PROVE \/ \E fd \in Fd : /\ file_of[fd] = f /\ Resident(<<fd, p>>)
                                         /\ Unsaved(<<fd, p>>)'
                       \/ /\ disk'[f].data[p] = latest[f][p]
                          /\ p \in born[f] => p < disk'[f].size
      BY <1>1 DEF Kept, Resident
    <3>1. CASE <<f, p>> = <<file, id[2]>>
      BY <2>7, <3>1
    <3>2. CASE <<f, p>> # <<file, id[2]>>
      <4>1. ASSUME NEW fd \in Fd, file_of[fd] = f, Resident(<<fd, p>>), Unsaved(<<fd, p>>)
            PROVE  Unsaved(<<fd, p>>)'
        <5>1. <<fd, p>> \in PageId /\ <<fd, p>> # id
          BY <3>2, <4>1 DEF PageId
        <5>2. page_table[<<fd, p>>] # x /\ page_table[<<fd, p>>] \in Frame
          BY <2>5, <4>1, <5>1 DEF Base, Mapped, TypeOK, Resident
        <5>3. QED BY <1>1, <2>4, <4>1, <5>2 DEF Unsaved
      <4>2. p \in Nat /\ disk[f].size \in Nat /\ disk'[f].size \in Nat
        <5>1. /\ disk \in [File -> [size : 1 .. MaxPage + 1, data : [PageNo -> Data]]]
              /\ p \in 1 .. MaxPage
          BY DEF Base, TypeOK, PageNo
        <5>2. QED BY <2>7, <5>1
      <4>3. CASE disk[f].data[p] = latest[f][p] /\ (p \in born[f] => p < disk[f].size)
        BY <2>7, <3>2, <4>2, <4>3
      <4>4. QED BY <4>1, <4>3 DEF Kept
    <3>3. QED BY <3>1, <3>2
  <2>13. QED BY <1>2, <1>3, <2>8, <2>10, <2>11, <2>12
<1>6. QED BY <1>4, <1>5

\* Steps that only move the flush thread.
LEMMA IdleInner ==
    ASSUME Base, Inner, FlushCollect \/ UNCHANGED vars
    PROVE  Inner'
<1>1. UNCHANGED <<file_of, num_pages, hdr, fd2pageno, disk, page_table, frames, free_list, lru,
                  pc, page, frame, wrote, ddl, latest, born>>
  BY DEF FlushCollect, vars, diskvars, poolvars, workers, ghosts
<1>2. Group1'
  BY <1>1 DEF Inner, Group1, Lists, Listed, Placed, Pins, Pinners, OneFd, UsersOpen
<1>3. Group2'
  BY <1>1, SMTT(30) DEF Inner, Group2, ResidentBorn, Fresh, Dense, AllocsOf, Headed, Discarded, Resident
<1>4. Group3'
  BY <1>1 DEF Inner, Group3, Cached, Kept, Unsaved, Unborn, Resident
<1>5. QED BY <1>2, <1>3, <1>4 DEF Inner

\* Opening a file: what is known of it comes from its header.
LEMMA OpenFileInner ==
    ASSUME Base, Inner, NEW f \in File, OpenFile(f)
    PROVE  Inner'
<1> USE DEF Inner, Group1, Group2, Group3
<1>1. PICK fd \in Fd : /\ file_of[fd] = Nil /\ file_of' = [file_of EXCEPT ![fd] = f]
                       /\ num_pages' = [num_pages EXCEPT ![fd] = hdr[f]]
                       /\ fd2pageno' = [fd2pageno EXCEPT ![fd] = hdr[f]]
  BY DEF OpenFile
<1>2. /\ ddl = Idle /\ \A g \in Fd : file_of[g] # f
      /\ UNCHANGED <<hdr, disk, page_table, frames, free_list, lru, pc, page, frame, wrote, ddl,
                     latest, born>>
  BY DEF OpenFile, FdOf, poolvars, workers
<1>3. /\ file_of'[fd] = f /\ num_pages'[fd] = hdr[f] /\ fd2pageno'[fd] = hdr[f]
      /\ \A g \in Fd : g # fd => /\ file_of'[g] = file_of[g] /\ num_pages'[g] = num_pages[g]
                                 /\ fd2pageno'[g] = fd2pageno[g]
      /\ hdr[f] \in Nat /\ f # Nil
  BY <1>1, BoundsAssumption DEF Base, TypeOK
<1>4. \A i \in PageId : i[1] \in Fd /\ (Resident(i) => i[1] # fd)
  BY <1>1, Constants DEF ResidentBorn
<1>5. \A w \in Worker : pc[w] # "idle" => page[w][1] \in Fd /\ page[w][1] # fd
  BY <1>1, Constants DEF UsersOpen, Base, Working
<1>6. Lists' /\ Placed' /\ Pins' /\ Unborn'
  BY <1>2 DEF Lists, Listed, Placed, Pins, Pinners, Unborn
<1>7. OneFd'
  BY <1>2, <1>3 DEF OneFd
<1>8. UsersOpen'
  BY <1>2, <1>3, <1>5 DEF UsersOpen
<1>9. ResidentBorn'
  BY <1>2, <1>3, <1>4 DEF ResidentBorn, Resident
<1>10. Fresh'
  BY <1>2, <1>3, <1>5 DEF Fresh
<1>11. Dense'
  <2>1. \A g \in Fd : AllocsOf(g)' = AllocsOf(g)
    BY <1>2 DEF AllocsOf
  <2>2. AllocsOf(fd) = {}
    BY <1>5 DEF AllocsOf
  <2>3. born[f] = 1 .. hdr[f] - 1
    BY <1>2 DEF Headed
  <2>4. ASSUME NEW g \in Fd, file_of'[g] # Nil
        PROVE /\ born[file_of'[g]] \cup {page[u][2] : u \in AllocsOf(g)} = 1 .. fd2pageno'[g] - 1
              /\ num_pages'[g] + Cardinality(AllocsOf(g)) = fd2pageno'[g]
    <3>1. CASE g = fd
      <4>1. {page[u][2] : u \in AllocsOf(g)} = {} /\ Cardinality(AllocsOf(g)) = 0
        BY <2>2, <3>1, FS_EmptySet
      <4>2. file_of'[g] = f /\ num_pages'[g] = hdr[f] /\ fd2pageno'[g] = hdr[f]
        BY <1>3, <3>1
      <4>3. born[file_of'[g]] \cup {page[u][2] : u \in AllocsOf(g)} = born[f]
        BY <4>1, <4>2
      <4>4. num_pages'[g] + Cardinality(AllocsOf(g)) = fd2pageno'[g]
        BY <1>3, <4>1, <4>2
      <4>5. QED BY <2>3, <4>2, <4>3, <4>4
    <3>2. CASE g # fd
      BY <1>3, <2>4, <3>2 DEF Dense
    <3>3. QED BY <3>1, <3>2
  <2>5. QED BY <1>2, <2>1, <2>4 DEF Dense
<1>12. Headed' /\ Discarded'
  <2>1. ddl.pc = "idle"
    BY <1>2 DEF Idle
  <2>2. ASSUME NEW h \in File, \A g \in Fd : file_of'[g] # h PROVE born[h] = 1 .. hdr[h] - 1
    <3>1. \A g \in Fd : file_of[g] # h
      BY <1>1, <1>3, <2>2, BoundsAssumption
    <3>2. QED BY <3>1 DEF Headed
  <2>3. QED BY <1>2, <2>1, <2>2 DEF Headed, Discarded
<1>13. Cached'
  BY <1>2, <1>3, <1>4 DEF Cached, Resident
<1>14. Kept'
  <2>1. \A i : Unsaved(i)' <=> Unsaved(i)
    BY <1>2 DEF Unsaved
  <2>2. \A g \in Fd : file_of[g] \in File => file_of'[g] = file_of[g]
    BY <1>1, <1>3, BoundsAssumption
  <2>3. QED BY <1>2, <2>1, <2>2 DEF Kept, Resident
<1>15. QED BY <1>6, <1>7, <1>8, <1>9, <1>10, <1>11, <1>12, <1>13, <1>14

\* A closed file is removed and made anew, empty.
LEMMA ReplaceFileInner ==
    ASSUME Base, Inner, NEW f \in File, ReplaceFile(f)
    PROVE  Inner'
<1> USE DEF Inner, Group1, Group2, Group3
<1>1. /\ \A g \in Fd : file_of[g] # f
      /\ hdr' = [hdr EXCEPT ![f] = 1] /\ disk' = [disk EXCEPT ![f] = EmptyFile]
      /\ latest' = [latest EXCEPT ![f] = [p \in PageNo |-> 0]]
      /\ born' = [born EXCEPT ![f] = {}] /\ ddl = Idle
      /\ UNCHANGED <<file_of, num_pages, fd2pageno, page_table, frames, free_list, lru, pc, page,
                     frame, wrote, ddl>>
  BY DEF ReplaceFile, FdOf, poolvars, workers
<1>2. /\ hdr'[f] = 1 /\ disk'[f] = EmptyFile /\ born'[f] = {}
      /\ \A p \in PageNo : latest'[f][p] = 0
      /\ \A g \in File : g # f => /\ hdr'[g] = hdr[g] /\ disk'[g] = disk[g]
                                  /\ latest'[g] = latest[g] /\ born'[g] = born[g]
  BY <1>1 DEF Base, TypeOK
<1>3. \A g \in Fd : file_of[g] # Nil => file_of[g] \in File /\ file_of[g] # f
  BY <1>1 DEF Base, TypeOK
<1>4. Lists' /\ Placed' /\ Pins' /\ OneFd' /\ UsersOpen' /\ Discarded'
  BY <1>1 DEF Lists, Listed, Placed, Pins, Pinners, OneFd, UsersOpen, Discarded, Resident, Idle
<1>5. ResidentBorn' /\ Cached'
  BY <1>1, <1>2, <1>3, Constants DEF ResidentBorn, Cached, Resident
<1>6. Fresh'
  <2>1. \A w \in Worker : pc[w] = "alloc" => page[w][1] \in Fd /\ file_of[page[w][1]] # Nil
    BY Constants DEF UsersOpen, Base, Working
  <2>2. QED BY <1>1, <1>2, <1>3, <2>1 DEF Fresh
<1>7. Dense'
  <2>1. \A g \in Fd : AllocsOf(g)' = AllocsOf(g)
    BY <1>1 DEF AllocsOf
  <2>2. QED BY <1>1, <1>2, <1>3, <2>1 DEF Dense
<1>8. Headed'
  <2>1. born'[f] = 1 .. hdr'[f] - 1
    BY <1>2
  <2>2. QED BY <1>1, <1>2, <2>1 DEF Headed, Idle
<1>9. Unborn'
  BY <1>2 DEF Unborn
<1>10. Kept'
  <2>1. \A i : Unsaved(i)' <=> Unsaved(i)
    BY <1>1 DEF Unsaved
  <2>2. ASSUME NEW g \in File, NEW p \in PageNo
        PROVE \/ \E fd \in Fd : file_of[fd] = g /\ Resident(<<fd, p>>) /\ Unsaved(<<fd, p>>)
              \/ disk'[g].data[p] = latest'[g][p] /\ (p \in born'[g] => p < disk'[g].size)
    <3>1. CASE g = f
      BY <1>2, <3>1 DEF EmptyFile
    <3>2. CASE g # f
      BY <1>2, <3>2 DEF Kept
    <3>3. QED BY <3>1, <3>2
  <2>3. QED BY <1>1, <2>1, <2>2 DEF Kept, Resident
<1>11. QED BY <1>4, <1>5, <1>6, <1>7, <1>8, <1>9, <1>10

\* close_file begins: the header takes the number of pages.
LEMMA CloseBeginInner ==
    ASSUME Base, Inner, NEW fd \in Fd, CloseBegin(fd)
    PROVE  Inner'
<1> USE DEF Inner, Group1, Group2, Group3
<1> DEFINE f == file_of[fd]
<1>1. /\ f # Nil /\ \A w \in Worker : pc[w] # "idle" => page[w][1] # fd
      /\ hdr' = [hdr EXCEPT ![f] = num_pages[fd]]
      /\ ddl' = [pc |-> "flush", fd |-> fd, shard |-> 0, todo |-> {}]
      /\ UNCHANGED <<file_of, num_pages, fd2pageno, disk, page_table, frames, free_list, lru, pc,
                     page, frame, wrote, latest, born>>
  BY DEF CloseBegin, Users, header_at_close, poolvars, workers, ghosts
<1>2. /\ f \in File /\ hdr'[f] = num_pages[fd] /\ \A g \in File : g # f => hdr'[g] = hdr[g]
      /\ ddl'.pc = "flush" /\ ddl'.fd = fd
  BY <1>1 DEF Base, TypeOK
<1>3. Lists' /\ Placed' /\ Pins' /\ OneFd' /\ ResidentBorn' /\ Fresh' /\ Cached' /\ Unborn'
  BY <1>1 DEF Lists, Listed, Placed, Pins, Pinners, OneFd, ResidentBorn, Fresh, Cached, Unborn,
              Resident
<1>4. UsersOpen' /\ Discarded'
  BY <1>1, <1>2 DEF UsersOpen, Discarded
<1>5. Dense'
  BY <1>1 DEF Dense, AllocsOf
<1>6. Headed'
  BY <1>1, <1>2 DEF Headed
<1>7. Kept'
  BY <1>1 DEF Kept, Unsaved, Resident
<1>8. QED BY <1>3, <1>4, <1>5, <1>6, <1>7

\* flush_all_pages of a shard.
LEMMA CloseFlushInner ==
    ASSUME Base, Inner, CloseFlush
    PROVE  Inner'
<1> USE DEF Inner, Group1, Group2, Group3
<1>1. PICK f \in File, ids \in SUBSET PageId :
         /\ f = file_of[ddl.fd] /\ ids = OfShard(ddl.fd, ddl.shard)
         /\ disk' \in [File -> [size : 1 .. MaxPage + 1, data : [PageNo -> Data]]]
         /\ \A g \in File : g # f => disk'[g] = disk[g]
         /\ disk[f].size <= disk'[f].size /\ \A id \in ids : id[2] < disk'[f].size
         /\ \A p \in PageNo : disk'[f].data[p] =
                IF <<ddl.fd, p>> \in ids THEN frames[page_table[<<ddl.fd, p>>]].data
                ELSE disk[f].data[p]
         /\ \A x \in Frame :
                /\ frames'[x].id = frames[x].id /\ frames'[x].data = frames[x].data
                /\ frames'[x].pin = frames[x].pin
                /\ frames'[x].dirty <=> frames[x].dirty /\ \A id \in ids : page_table[id] # x
  BY CloseFlushEffect
<1>2. /\ ddl.pc = "flush" /\ ddl'.fd = ddl.fd /\ ddl.fd \in Fd
      /\ (ddl'.pc = "flush" \/ (ddl'.pc = "collect" /\ ddl'.shard = 0))
      /\ UNCHANGED <<file_of, num_pages, hdr, fd2pageno, page_table, free_list, lru, pc, page,
                     frame, wrote, latest, born>>
  <2>1. ddl \in [pc : {"idle", "flush", "collect", "delete"}, fd : Fd \cup {Nil},
                shard : Shard, todo : SUBSET PageId]
    BY DEF Base, TypeOK
  <2>2. /\ ddl.pc = "flush" /\ ddl.fd \in Fd
        /\ ddl' = IF ddl.shard + 1 < NShards THEN [ddl EXCEPT !.shard = @ + 1]
                  ELSE [ddl EXCEPT !.pc = "collect", !.shard = 0]
    BY DEF CloseFlush, Base, Closing
  <2>3. /\ ddl'.fd = ddl.fd
        /\ (ddl'.pc = "flush" \/ (ddl'.pc = "collect" /\ ddl'.shard = 0))
    <3>1. CASE ddl.shard + 1 < NShards
      <4>1. ddl' = [ddl EXCEPT !.shard = ddl.shard + 1]
        BY <2>2, <3>1
      <4>2. QED BY <2>1, <2>2, <4>1
    <3>2. CASE ~(ddl.shard + 1 < NShards)
      <4>1. ddl' = [ddl EXCEPT !.pc = "collect", !.shard = 0]
        BY <2>2, <3>2
      <4>2. QED BY <2>1, <4>1
    <3>3. QED BY <3>1, <3>2
  <2>4. UNCHANGED <<file_of, num_pages, hdr, fd2pageno, page_table, free_list, lru, pc, page,
                    frame, wrote, latest, born>>
    BY DEF CloseFlush, diskvars, workers, ghosts
  <2>5. QED BY <2>2, <2>3, <2>4
<1>3. /\ frames \in [Frame -> [id : PageId \cup {NoPage}, data : Data, dirty : BOOLEAN, pin : Nat]]
      /\ frames' = [x \in Frame |-> [frames[x] EXCEPT
                       !.dirty = @ /\ \A id \in ids : page_table[id] # x]]
  BY <1>1, SMTT(30) DEF CloseFlush, Base, TypeOK
<1>4. \A x \in Frame : frames[x] = Free => frames'[x] = Free
  <2> SUFFICES ASSUME NEW x \in Frame, frames[x] = Free PROVE frames'[x] = Free
    OBVIOUS
  <2> DEFINE b == Free.dirty /\ \A id \in ids : page_table[id] # x
  <2>1. frames'[x] = [Free EXCEPT !.dirty = b]
    BY <1>3
  <2>2. b = FALSE
    BY DEF Free
  <2> HIDE DEF b
  <2>3. QED BY <2>1, <2>2 DEF Free
<1>5. Lists' /\ OneFd' /\ ResidentBorn' /\ Fresh' /\ Unborn'
  BY <1>2 DEF Lists, Listed, OneFd, ResidentBorn, Fresh, Unborn, Resident
<1>6. UsersOpen' /\ Headed'
  BY <1>2 DEF UsersOpen, Headed
<1>7. Dense'
  BY <1>2 DEF Dense, AllocsOf
<1>8. Discarded'
  <2>1. \A id \in PageId : shard_of(id) >= 0
    BY Constants DEF Shard
  <2>2. QED BY <1>2, <2>1 DEF Discarded
<1>9. Placed'
  <2>1. ASSUME NEW y \in Frame
        PROVE LET t == FrameShard[y] IN
            \/ /\ frames'[y] = Free /\ y \in ToSet(free_list[t]) /\ y \notin ToSet(lru[t])
            \/ /\ frames'[y].id \in PageId /\ page_table[frames'[y].id] = y
               /\ shard_of(frames'[y].id) = t
               /\ y \notin ToSet(free_list[t]) /\ (y \in ToSet(lru[t]) <=> frames'[y].pin = 0)
    BY <1>1, <1>4 DEF Placed
  <2>2. QED BY <1>2, <2>1 DEF Placed, shard_of
<1>10. Pins'
  <2>1. \A y \in Frame : Pinners(y)' = Pinners(y)
    BY <1>2 DEF Pinners
  <2>2. \A u \in Worker : pc[u] = "pinned" => frame[u] \in Frame
    BY DEF Base, Working
  <2>3. QED BY <1>1, <1>2, <2>1, <2>2 DEF Pins
<1>11. Cached'
  <2>1. \A i \in PageId : Resident(i) => page_table[i] \in Frame
    BY DEF Base, TypeOK, Resident
  <2>2. QED BY <1>1, <1>2, <2>1 DEF Cached, Resident
<1>12. Kept'
  <2> SUFFICES ASSUME NEW g \in File, NEW p \in PageNo
               PROVE \/ \E fd \in Fd : /\ file_of[fd] = g /\ Resident(<<fd, p>>)
                                       /\ Unsaved(<<fd, p>>)'
                     \/ /\ disk'[g].data[p] = latest[g][p]
                        /\ p \in born[g] => p < disk'[g].size
    BY <1>2 DEF Kept, Resident
  <2>1. CASE g = f /\ <<ddl.fd, p>> \in ids
    <3>1. <<ddl.fd, p>> \in PageId /\ Resident(<<ddl.fd, p>>)
      BY <1>1, <2>1 DEF OfShard
    <3>2. disk'[f].data[p] = latest[f][p] /\ p < disk'[f].size
      BY <1>1, <2>1, <3>1 DEF Cached
    <3>3. QED BY <2>1, <3>2
  <2>2. CASE ~(g = f /\ <<ddl.fd, p>> \in ids)
    <3>1. ASSUME NEW fd \in Fd, file_of[fd] = g, Resident(<<fd, p>>), Unsaved(<<fd, p>>)
          PROVE  Unsaved(<<fd, p>>)'
      <4> DEFINE i == <<fd, p>>
      <4>1. i \in PageId /\ i \notin ids
        <5>1. i \in PageId /\ i[1] = fd
          BY DEF PageId
        <5>2. i \in ids => fd = ddl.fd
          BY <1>1, <5>1 DEF OfShard
        <5>3. QED BY <1>1, <2>2, <3>1, <5>1, <5>2
      <4>2. \A id \in ids : page_table[id] # page_table[i]
        <5>1. \A id \in ids : id \in PageId /\ Resident(id)
          BY <1>1 DEF OfShard
        <5>2. QED BY <3>1, <4>1, <5>1 DEF Base, Mapped
      <4>3. page_table[i] \in Frame
        BY <3>1, <4>1 DEF Base, TypeOK, Resident
      <4>4. frames'[page_table[i]].dirty <=> frames[page_table[i]].dirty
        BY <1>1, <4>2, <4>3
      <4>5. QED BY <1>2, <3>1, <4>4 DEF Unsaved
    <3>2. CASE disk[g].data[p] = latest[g][p] /\ (p \in born[g] => p < disk[g].size)
      <4>1. CASE g # f
        BY <1>1, <3>2, <4>1
      <4>2. CASE g = f
        <5>1. disk'[f].data[p] = disk[f].data[p]
          BY <1>1, <2>2, <4>2
        <5>2. p \in Nat /\ disk[f].size \in Nat /\ disk'[f].size \in Nat
          <6>1. /\ disk \in [File -> [size : 1 .. MaxPage + 1, data : [PageNo -> Data]]]
                /\ p \in 1 .. MaxPage
            BY DEF Base, TypeOK, PageNo
          <6>2. QED BY <1>1, <6>1
        <5>3. QED BY <1>1, <3>2, <4>2, <5>1, <5>2
      <4>3. QED BY <4>1, <4>2
    <3>3. QED BY <3>1, <3>2 DEF Kept
  <2>3. QED BY <2>1, <2>2
<1>13. QED BY <1>5, <1>6, <1>7, <1>8, <1>9, <1>10, <1>11, <1>12

\* discard_pages goes over the shards; the file is closed when the last is done.
LEMMA DiscardInner ==
    ASSUME Base, Inner, DiscardCollect \/ DiscardNext
    PROVE  Inner'
<1> USE DEF Inner, Group1, Group2, Group3
<1> DEFINE DdlType == [pc : {"idle", "flush", "collect", "delete"}, fd : Fd \cup {Nil},
                       shard : Shard, todo : SUBSET PageId]
<1>1. UNCHANGED <<file_of, num_pages, hdr, fd2pageno, disk, page_table, frames, free_list, lru,
                  pc, page, frame, wrote, latest, born>>
  BY DEF DiscardCollect, DiscardNext, diskvars, poolvars, workers, ghosts
<1>2. ddl \in DdlType /\ \A id \in PageId : shard_of(id) \in Nat
  BY Constants DEF Base, TypeOK, Shard
<1>3. ddl.shard \in Nat
  BY <1>2 DEF Shard
<1>4. ddl.pc # "idle" /\ ddl'.fd = ddl.fd /\ ddl'.pc # "idle"
  BY <1>2 DEF DiscardCollect, DiscardNext
<1>5. Lists' /\ Placed' /\ Pins' /\ OneFd' /\ ResidentBorn' /\ Fresh' /\ Cached' /\ Unborn'
  BY <1>1 DEF Lists, Listed, Placed, Pins, Pinners, OneFd, ResidentBorn, Fresh, Cached, Unborn,
              Resident
<1>6. UsersOpen' /\ Headed'
  BY <1>1, <1>4 DEF UsersOpen, Headed
<1>7. Dense'
  BY <1>1 DEF Dense, AllocsOf
<1>8. Kept'
  BY <1>1 DEF Kept, Unsaved, Resident
<1>9. Discarded'
  <2>1. CASE DiscardCollect
    <3>1. /\ ddl.pc = "collect" /\ ddl'.shard = ddl.shard
          /\ ddl'.todo = OfShard(ddl.fd, ddl.shard)
      BY <1>2, <2>1 DEF DiscardCollect
    <3>2. ASSUME NEW id \in PageId, Resident(id), id[1] = ddl.fd
          PROVE shard_of(id) >= ddl.shard /\ (shard_of(id) = ddl.shard => id \in ddl'.todo)
      BY <3>1, <3>2 DEF Discarded, OfShard
    <3>3. QED BY <1>1, <1>4, <3>1, <3>2 DEF Discarded, Resident
  <2>2. CASE DiscardNext
    <3>1. /\ ddl.pc = "delete" /\ ddl.todo = {} /\ ddl'.pc = "collect"
          /\ ddl'.shard = ddl.shard + 1
      BY <1>2, <2>2 DEF DiscardNext
    <3>2. ASSUME NEW id \in PageId, Resident(id), id[1] = ddl.fd
          PROVE shard_of(id) >= ddl.shard + 1
      BY <1>2, <1>3, <3>1, <3>2 DEF Discarded
    <3>3. QED BY <1>1, <1>4, <3>1, <3>2 DEF Discarded, Resident
  <2>3. QED BY <2>1, <2>2
<1>10. QED BY <1>5, <1>6, <1>7, <1>8, <1>9

LEMMA CloseEndInner ==
    ASSUME Base, Inner, CloseEnd
    PROVE  Inner'
<1> USE DEF Inner, Group1, Group2, Group3
<1>1. PICK fd \in Fd : fd = ddl.fd /\ file_of[fd] # Nil
  BY DEF CloseEnd, Base, Closing
<1>2. /\ file_of' = [file_of EXCEPT ![fd] = Nil] /\ ddl' = Idle
      /\ ddl.pc = "delete" /\ ddl.todo = {} /\ ddl.shard + 1 = NShards
      /\ UNCHANGED <<num_pages, hdr, fd2pageno, disk, page_table, frames, free_list, lru,
                     pc, page, frame, wrote, latest, born>>
  BY <1>1 DEF CloseEnd, poolvars, workers, ghosts
<1>3. /\ file_of'[fd] = Nil /\ \A g \in Fd : g # fd => file_of'[g] = file_of[g]
      /\ ddl'.pc = "idle" /\ ddl'.fd = Nil
  BY <1>2 DEF Base, TypeOK, Idle
<1>4. \A id \in PageId : Resident(id) => id[1] \in Fd /\ id[1] # fd
  <2> SUFFICES ASSUME NEW id \in PageId, Resident(id), id[1] = fd PROVE FALSE
    BY Constants
  <2>1. shard_of(id) >= ddl.shard /\ shard_of(id) # ddl.shard
    BY <1>1, <1>2 DEF Discarded
  <2>2. shard_of(id) \in 0 .. NShards - 1 /\ ddl.shard \in 0 .. NShards - 1
    BY Constants DEF Shard, Base, TypeOK
  <2>3. QED BY <1>2, <2>1, <2>2, BoundsAssumption
<1>5. \A w \in Worker : pc[w] # "idle" => page[w][1] \in Fd /\ page[w][1] # fd
  BY <1>1, Constants DEF UsersOpen, Base, Working
<1>6. Lists' /\ Placed' /\ Pins' /\ Unborn'
  BY <1>2 DEF Lists, Listed, Placed, Pins, Pinners, Unborn
<1>7. OneFd'
  BY <1>2, <1>3 DEF OneFd
<1>8. UsersOpen'
  BY <1>2, <1>3, <1>5, BoundsAssumption DEF UsersOpen
<1>9. ResidentBorn' /\ Cached'
  BY <1>2, <1>3, <1>4 DEF ResidentBorn, Cached, Resident
<1>10. Fresh'
  BY <1>2, <1>3, <1>5 DEF Fresh
<1>11. Dense'
  <2>1. \A g \in Fd : AllocsOf(g)' = AllocsOf(g)
    BY <1>2 DEF AllocsOf
  <2>2. ASSUME NEW g \in Fd, file_of'[g] # Nil
        PROVE g # fd /\ file_of'[g] = file_of[g]
    BY <1>3, <2>2
  <2>3. QED BY <1>2, <2>1, <2>2 DEF Dense
<1>12. Headed'
  <2>1. ASSUME NEW f \in File, \A g \in Fd : file_of'[g] # f PROVE born[f] = 1 .. hdr[f] - 1
    <3>1. CASE f = file_of[fd]
      <4>1. AllocsOf(fd) = {}
        BY <1>5 DEF AllocsOf
      <4>2. {page[w][2] : w \in AllocsOf(fd)} = {} /\ Cardinality(AllocsOf(fd)) = 0
        BY <4>1, FS_EmptySet
      <4>3. /\ born[f] \cup {page[w][2] : w \in AllocsOf(fd)} = 1 .. fd2pageno[fd] - 1
            /\ num_pages[fd] + Cardinality(AllocsOf(fd)) = fd2pageno[fd]
        BY <1>1, <3>1 DEF Dense
      <4>4. num_pages[fd] = fd2pageno[fd]
        BY <4>2, <4>3 DEF Base, TypeOK
      <4>5. born[f] = 1 .. fd2pageno[fd] - 1
        BY <4>2, <4>3
      <4>6. hdr[f] = num_pages[fd]
        BY <1>1, <1>2, <3>1 DEF Headed
      <4>7. QED BY <4>4, <4>5, <4>6
    <3>2. CASE f # file_of[fd]
      <4>1. \A g \in Fd : file_of[g] # f
        BY <1>3, <2>1, <3>2
      <4>2. QED BY <4>1 DEF Headed
    <3>3. QED BY <3>1, <3>2
  <2>2. QED BY <1>2, <1>3, <2>1 DEF Headed
<1>13. Discarded'
  BY <1>3 DEF Discarded
<1>14. Kept'
  <2>1. \A i : Unsaved(i)' <=> Unsaved(i)
    BY <1>2 DEF Unsaved
  <2>2. \A g \in Fd, p \in PageNo : Resident(<<g, p>>) => file_of'[g] = file_of[g]
    <3>1. \A g \in Fd, p \in PageNo : <<g, p>> \in PageId /\ <<g, p>>[1] = g
      BY DEF PageId
    <3>2. QED BY <1>3, <1>4, <3>1
  <2>3. QED BY <1>2, <2>1, <2>2 DEF Kept, Resident
<1>15. QED BY <1>6, <1>7, <1>8, <1>9, <1>10, <1>11, <1>12, <1>13, <1>14

\* delete_page of a page of the closing file: nobody has it pinned, so its frame goes
\* back to the free list, written first if it is dirty.
LEMMA DeletePageInner ==
    ASSUME Base, Inner, NEW id \in PageId, DeletePage(id)
    PROVE  Inner'
<1> USE DEF Inner, Group1, Group2, Group3
<1> DEFINE s == shard_of(id)
<1>1. /\ ddl.pc = "delete" /\ ddl'.pc = "delete" /\ ddl'.fd = ddl.fd /\ ddl'.shard = ddl.shard
      /\ ddl'.todo = ddl.todo \ {id}
      /\ UNCHANGED <<file_of, num_pages, hdr, fd2pageno, pc, page, frame, wrote, latest, born>>
  BY DEF DeletePage, workers, ghosts, Base, TypeOK
<1>2. OneFd' /\ UsersOpen' /\ Fresh' /\ Headed' /\ Unborn'
  BY <1>1 DEF OneFd, UsersOpen, Fresh, Headed, Unborn
<1>3. Dense'
  BY <1>1 DEF Dense, AllocsOf
<1>4. \A x \in Frame : x = page_table[id] /\ frames[x].pin # 0 => id[1] # ddl.fd
  <2> SUFFICES ASSUME NEW x \in Frame, x = page_table[id], frames[x].pin # 0, id[1] = ddl.fd
               PROVE  FALSE
    OBVIOUS
  <2>1. Pinners(x) \in SUBSET Worker /\ Cardinality(Pinners(x)) # 0
    BY DEF Pins, Pinners
  <2>2. PICK w \in Worker : pc[w] = "pinned" /\ frame[w] = x
    BY <2>1, WorkersFinite DEF Pinners
  <2>3. page[w] = id
    BY <2>2, BoundsAssumption DEF Pins, Base, Mapped, Resident
  <2>4. QED BY <2>2, <2>3 DEF UsersOpen
<1>5. CASE ~(Resident(id) /\ frames[page_table[id]].pin = 0)
  <2>1. UNCHANGED <<disk, page_table, frames, free_list, lru>>
    BY <1>5 DEF DeletePage, poolvars
  <2>2. Lists' /\ Placed' /\ Pins' /\ ResidentBorn' /\ Cached'
    BY <1>1, <2>1 DEF Lists, Listed, Placed, Pins, Pinners, ResidentBorn, Cached, Resident
  <2>3. Kept'
    BY <1>1, <2>1 DEF Kept, Unsaved, Resident
  <2>4. Discarded'
    <3>1. ~(Resident(id) /\ id[1] = ddl.fd)
      BY <1>4, <1>5 DEF Resident, Base, TypeOK
    <3>2. QED BY <1>1, <2>1, <3>1 DEF Discarded, Resident
  <2>5. QED BY <1>2, <1>3, <2>2, <2>3, <2>4
<1>6. CASE Resident(id) /\ frames[page_table[id]].pin = 0
  <2>1. PICK x \in Frame : x = page_table[id]
    BY <1>6 DEF Resident, Base, TypeOK
  <2>2. /\ WriteBack(x) /\ frames' = [frames EXCEPT ![x] = Free]
        /\ page_table' = [page_table EXCEPT ![id] = Nil]
        /\ lru' = [lru EXCEPT ![s] = ReplacerPin(lru[s], x)]
        /\ free_list' = [free_list EXCEPT ![s] = Append(free_list[s], x)]
    BY <1>6, <2>1 DEF DeletePage, Unmap
  <2>3. /\ DOMAIN frames = Frame /\ page_table \in [PageId -> Frame \cup {Nil}]
        /\ free_list \in [Shard -> Seq(Frame)] /\ lru \in [Shard -> Seq(Frame)]
        /\ FrameShard \in [Frame -> Shard] /\ s \in Shard /\ id # NoPage /\ x # Nil
    BY Constants, BoundsAssumption DEF Base, TypeOK
  <2>4. frames[x].id = id /\ frames[x].pin = 0
    BY <1>6, <2>1 DEF Base, Mapped
  <2>5. FrameShard[x] = s /\ x \notin ToSet(free_list[s])
    BY <2>3, <2>4 DEF Placed, Free
  <2>6. /\ frames'[x] = Free /\ \A y \in Frame : y # x => frames'[y] = frames[y]
        /\ page_table'[id] = Nil
        /\ \A i \in PageId : i # id => page_table'[i] = page_table[i] /\ page_table[i] # x
    BY <2>1, <2>2, <2>3, <2>4 DEF Base, Mapped, Resident
  <2>7. \A t \in Shard :
            /\ IsInjective(free_list'[t]) /\ IsInjective(lru'[t])
            /\ x \notin ToSet(lru'[t]) /\ (x \in ToSet(free_list'[t]) <=> t = s)
            /\ \A y : y # x => /\ y \in ToSet(free_list'[t]) <=> y \in ToSet(free_list[t])
                               /\ y \in ToSet(lru'[t]) <=> y \in ToSet(lru[t])
    <3>1. /\ lru[s] \in Seq(Frame) /\ free_list[s] \in Seq(Frame)
          /\ \A t \in Shard : IsInjective(lru[t]) /\ IsInjective(free_list[t])
      BY <2>3 DEF Lists
    <3>2. /\ IsInjective(ReplacerPin(lru[s], x))
          /\ ToSet(ReplacerPin(lru[s], x)) = ToSet(lru[s]) \ {x}
      BY <2>3, <3>1, PinElement
    <3>3. /\ IsInjective(Append(free_list[s], x))
          /\ ToSet(Append(free_list[s], x)) = ToSet(free_list[s]) \cup {x}
      BY <2>3, <2>5, <3>1, AppendElement
    <3>4. \A t \in Shard : t # s => x \notin ToSet(lru[t]) /\ x \notin ToSet(free_list[t])
      BY <2>5 DEF Lists, Listed
    <3>5. \A t \in Shard :
              /\ lru'[t] = IF t = s THEN ReplacerPin(lru[s], x) ELSE lru[t]
              /\ free_list'[t] = IF t = s THEN Append(free_list[s], x) ELSE free_list[t]
      BY <2>2, <2>3
    <3>6. SUFFICES ASSUME NEW t \in Shard
                   PROVE
            /\ IsInjective(free_list'[t]) /\ IsInjective(lru'[t])
            /\ x \notin ToSet(lru'[t]) /\ (x \in ToSet(free_list'[t]) <=> t = s)
            /\ \A y : y # x => /\ y \in ToSet(free_list'[t]) <=> y \in ToSet(free_list[t])
                               /\ y \in ToSet(lru'[t]) <=> y \in ToSet(lru[t])
      OBVIOUS
    <3>7. CASE t = s
      BY <3>2, <3>3, <3>5, <3>7
    <3>8. CASE t # s
      BY <3>1, <3>4, <3>5, <3>8
    <3>9. QED BY <3>7, <3>8
  <2>8. Lists'
    <3>1. ASSUME NEW t \in Shard, NEW y, y \in ToSet(free_list'[t]) \/ y \in ToSet(lru'[t])
          PROVE FrameShard[y] = t
      BY <2>5, <2>7, <3>1 DEF Lists, Listed
    <3>2. QED BY <2>7, <3>1 DEF Lists, Listed
  <2>9. Placed'
    <3> SUFFICES ASSUME NEW y \in Frame
                 PROVE LET t == FrameShard[y] IN
                     \/ /\ frames'[y] = Free /\ y \in ToSet(free_list'[t])
                        /\ y \notin ToSet(lru'[t])
                     \/ /\ frames'[y].id \in PageId /\ page_table'[frames'[y].id] = y
                        /\ shard_of(frames'[y].id) = t
                        /\ y \notin ToSet(free_list'[t])
                        /\ (y \in ToSet(lru'[t]) <=> frames'[y].pin = 0)
      BY DEF Placed, shard_of
    <3>1. CASE y = x
      BY <2>3, <2>5, <2>6, <2>7, <3>1
    <3>2. CASE y # x
      <4> DEFINE t == FrameShard[y]
                 i == frames[y].id
      <4>1. /\ frames'[y] = frames[y] /\ t \in Shard
            /\ y \in ToSet(free_list'[t]) <=> y \in ToSet(free_list[t])
            /\ y \in ToSet(lru'[t]) <=> y \in ToSet(lru[t])
        BY <2>3, <2>6, <2>7, <3>2
      <4>2. i \in PageId /\ page_table[i] = y => page_table'[i] = y
        BY <2>1, <2>6, <3>2
      <4>3. QED BY <4>1, <4>2 DEF Placed
    <3>3. QED BY <3>1, <3>2
  <2>10. Pinners(x) = {}
    <3>1. Pinners(x) \in SUBSET Worker
      BY DEF Pinners
    <3>2. QED BY <2>4, <3>1, WorkersFinite DEF Pins
  <2>11. Pins'
    <3>1. \A y \in Frame : Pinners(y)' = Pinners(y)
      BY <1>1 DEF Pinners
    <3>2. \A y \in Frame : frames'[y].pin = frames[y].pin
      BY <2>4, <2>6 DEF Free
    <3>3. \A u \in Worker : pc[u] = "pinned" => frame[u] \in Frame /\ frame[u] # x
      BY <2>10 DEF Pinners, Base, Working
    <3>4. QED BY <1>1, <2>6, <3>1, <3>2, <3>3 DEF Pins
  <2>12. \A i \in PageId : Resident(i)' =>
             /\ i # id /\ Resident(i) /\ page_table'[i] = page_table[i]
             /\ page_table[i] \in Frame /\ frames'[page_table[i]] = frames[page_table[i]]
    BY <2>3, <2>6 DEF Resident
  <2>13. ResidentBorn' /\ Discarded' /\ Cached'
    <3>1. ResidentBorn'
      BY <1>1, <2>12 DEF ResidentBorn
    <3>2. Discarded'
      BY <1>1, <2>12 DEF Discarded
    <3>3. Cached'
      BY <1>1, <2>12 DEF Cached
    <3>4. QED BY <3>1, <3>2, <3>3
  <2>14. Kept'
    <3> SUFFICES ASSUME NEW f \in File, NEW p \in PageNo
                 PROVE \/ \E fd \in Fd : /\ file_of[fd] = f /\ Resident(<<fd, p>>)'
                                         /\ Unsaved(<<fd, p>>)'
                       \/ /\ disk'[f].data[p] = latest[f][p]
                          /\ p \in born[f] => p < disk'[f].size
      BY <1>1 DEF Kept
    <3>1. ASSUME NEW fd \in Fd, Resident(<<fd, p>>), Unsaved(<<fd, p>>),
                 page_table[<<fd, p>>] # x
          PROVE  Resident(<<fd, p>>)' /\ Unsaved(<<fd, p>>)'
      <4> DEFINE i == <<fd, p>>
      <4>1. i \in PageId /\ i # id
        BY <2>1, <3>1 DEF PageId
      <4>2. /\ page_table'[i] = page_table[i] /\ page_table[i] \in Frame
            /\ frames'[page_table[i]] = frames[page_table[i]] /\ Resident(i)'
        BY <2>3, <2>6, <3>1, <4>1 DEF Resident
      <4>3. QED BY <1>1, <3>1, <4>2 DEF Unsaved
    <3>2. \/ \E fd \in Fd : /\ file_of[fd] = f /\ Resident(<<fd, p>>) /\ Unsaved(<<fd, p>>)
                            /\ page_table[<<fd, p>>] # x
          \/ disk'[f].data[p] = latest[f][p] /\ (p \in born[f] => p < disk'[f].size)
      BY <2>2, <2>4, SaveVictim
    <3>3. QED BY <3>1, <3>2
  <2>15. QED BY <1>2, <1>3, <2>8, <2>9, <2>11, <2>13, <2>14
<1>7. QED BY <1>5, <1>6

-----------------------------------------------------------------------------
(* The theorems *)

\* The flags are never lowered, and as long as none is raised every step keeps Inner.
LEMMA SoundStep == Base /\ Inner /\ [Next]_vars /\ Sound' => Inner'
<1> SUFFICES ASSUME Base, Inner, [Next]_vars, Sound' PROVE Inner'
  OBVIOUS
<1>1. ~early' /\ ~raced' /\ ~recycled'
  BY DEF Sound
<1>2. ASSUME NEW w \in Worker, WorkerStep(w) PROVE Inner'
  BY <1>1, <1>2, FetchHitInner, FetchMissInner, NoShortRead, NewPageNumberInner,
     NewPageFrameInner, WriteInner, UnpinInner DEF WorkerStep
<1>3. CASE \E id \in PageId : FlushPage(id)
  BY <1>3, FlushPageInner
<1>4. CASE DdlStep
  BY <1>4, OpenFileInner, ReplaceFileInner, CloseBeginInner, CloseFlushInner, DiscardInner,
     CloseEndInner, DeletePageInner DEF DdlStep
<1>5. CASE FlushCollect \/ UNCHANGED vars
  BY <1>5, IdleInner
<1>6. QED BY <1>2, <1>3, <1>4, <1>5 DEF Next

LEMMA SoundBefore == [Next]_vars /\ Sound' => Sound
<1> SUFFICES ASSUME [Next]_vars, Sound' PROVE Sound
  OBVIOUS
<1> USE DEF Sound
<1>1. ASSUME NEW w \in Worker, WorkerStep(w) PROVE Sound
  <2>1. ASSUME NEW id \in PageId,
               FetchHit(w, id) \/ FetchMiss(w, id) \/ FetchShortRead(w, id)
        PROVE Sound
    <3>1. /\ early' = (early \/ id[2] \notin born[file_of[id[1]]])
          /\ raced' = raced /\ recycled' = recycled
      <4>1. CASE FetchHit(w, id)
        BY <4>1 DEF FetchHit, Early
      <4>2. CASE FetchMiss(w, id)
        BY <4>2 DEF FetchMiss, Early
      <4>3. CASE FetchShortRead(w, id)
        BY <4>3 DEF FetchShortRead, Early
      <4>4. QED BY <2>1, <4>1, <4>2, <4>3
    <3>2. QED BY <3>1
  <2>2. ASSUME NEW fd \in Fd, NewPageNumber(w, fd) PROVE Sound
    <3>1. early' = early /\ raced' = raced /\ (recycled' = TRUE \/ recycled' = recycled)
      BY <2>2 DEF NewPageNumber
    <3>2. QED BY <3>1
  <2>3. CASE NewPageFrame(w)
    BY <2>3 DEF NewPageFrame, CountPage
  <2>4. CASE Write(w) \/ Unpin(w)
    BY <2>4 DEF Write, Unpin, ghosts
  <2>5. QED BY <1>1, <2>1, <2>2, <2>3, <2>4 DEF WorkerStep
<1>2. CASE FlushCollect \/ \E id \in PageId : FlushPage(id)
  <2>1. CASE FlushCollect
    BY <2>1 DEF FlushCollect, ghosts
  <2>2. ASSUME NEW id \in PageId, FlushPage(id) PROVE Sound
    BY <2>2 DEF FlushPage, ghosts
  <2>3. QED BY <1>2, <2>1, <2>2
<1>3. CASE DdlStep
  <2>1. ASSUME NEW f \in File, OpenFile(f) \/ ReplaceFile(f) PROVE Sound
    BY <2>1 DEF OpenFile, ReplaceFile
  <2>2. CASE \/ \E fd \in Fd : CloseBegin(fd)
             \/ CloseFlush \/ DiscardCollect \/ DiscardNext \/ CloseEnd
    BY <2>2 DEF CloseBegin, CloseFlush, DiscardCollect, DiscardNext, CloseEnd, ghosts
  <2>3. CASE \E id \in PageId : DeletePage(id)
    BY <2>3 DEF DeletePage, ghosts
  <2>4. QED BY <1>3, <2>1, <2>2, <2>3 DEF DdlStep
<1>4. CASE UNCHANGED vars
  BY <1>4 DEF vars, ghosts
<1>5. QED BY <1>1, <1>2, <1>3, <1>4 DEF Next

LEMMA Invariant == Spec => []IInv
<1>1. Init => IInv
  BY InitBase, InitInner DEF IInv, Inner
<1>2. IInv /\ [Next]_vars => IInv'
  <2>1. Sound' = ~(early' \/ raced' \/ recycled')
    BY DEF Sound
  <2>2. IInv /\ [Next]_vars => Base'
    BY BaseStep DEF IInv
  <2>3. IInv /\ [Next]_vars /\ Sound' => Inner'
    BY SoundBefore, SoundStep DEF IInv, Inner
  <2>4. QED BY <2>2, <2>3 DEF IInv, Inner
<1>3. QED BY <1>1, <1>2, PTL DEF Spec

\* Every frame is in one place: free, evictable, or pinned; none is lost and none is in
\* two places (find_victim_page, replacer pin and unpin, delete_page).
THEOREM Partition == Spec => []FramesArePartitioned
<1>1. IInv => FramesArePartitioned
  <2> SUFFICES ASSUME IInv, Sound PROVE Lists /\ Placed => FramesArePartitioned
    BY DEF IInv, Group1, FramesArePartitioned
  <2>1. NoPage \notin PageId
    BY Constants
  <2>2. QED BY <2>1 DEF Lists, Placed, FramesArePartitioned
<1>2. QED BY <1>1, Invariant, PTL

\* A frame is not evicted, discarded or mapped to another page while a worker has it
\* pinned: the pin count is the number of those workers.
THEOREM PinnedFramesStay == Spec => []PinnedStays
<1>1. IInv => PinnedStays
  BY PinnedFrame DEF IInv, Group1, PinnedStays
<1>2. QED BY <1>1, Invariant, PTL

\* The numbers 1 .. num_pages - 1 that RmScan walks are the pages of the file.
THEOREM NoGaps == Spec => []PagesAreDenseWhenSound
<1>1. IInv => PagesAreDenseWhenSound
  <2> SUFFICES ASSUME IInv, Sound, NEW fd \in Fd, file_of[fd] # Nil, Users(fd) = {}
               PROVE  born[file_of[fd]] = 1 .. num_pages[fd] - 1
    BY DEF PagesAreDenseWhenSound, PagesAreDense
  <2>1. AllocsOf(fd) = {}
    BY DEF AllocsOf, Users
  <2>2. {page[w][2] : w \in AllocsOf(fd)} = {} /\ Cardinality(AllocsOf(fd)) = 0
    BY <2>1, FS_EmptySet
  <2>3. /\ born[file_of[fd]] \cup {page[w][2] : w \in AllocsOf(fd)} = 1 .. fd2pageno[fd] - 1
        /\ num_pages[fd] + Cardinality(AllocsOf(fd)) = fd2pageno[fd]
    BY DEF IInv, Group2, Dense
  <2>4. num_pages[fd] = fd2pageno[fd]
    BY <2>2, <2>3 DEF IInv, Base, TypeOK
  <2>5. QED BY <2>2, <2>3, <2>4
<1>2. QED BY <1>1, Invariant, PTL

\* The content of a page in the pool, or on disk when it is not in the pool, is what was
\* last written to it.
LEMMA CurrentIsLatest ==
    ASSUME Base, Inner, NEW f \in File, NEW p \in PageNo
    PROVE  Current(f, p) = latest[f][p]
<1> DEFINE at == {id \in PageId : id[2] = p /\ file_of[id[1]] = f /\ Resident(id)}
<1>1. CASE at = {}
  <2>1. \A fd \in Fd : ~(file_of[fd] = f /\ Resident(<<fd, p>>))
    <3>1. \A fd \in Fd : <<fd, p>> \in PageId /\ <<fd, p>>[1] = fd /\ <<fd, p>>[2] = p
      BY DEF PageId
    <3>2. QED BY <1>1, <3>1
  <2>2. Current(f, p) = disk[f].data[p]
    BY <1>1 DEF Current
  <2>3. QED BY <2>1, <2>2 DEF Inner, Group3, Kept
<1>2. CASE at # {}
  <2> DEFINE i == CHOOSE id \in at : TRUE
  <2>1. i \in at
    BY <1>2
  <2>2. Current(f, p) = frames[page_table[i]].data
    BY <1>2 DEF Current
  <2> HIDE DEF i
  <2>3. QED BY <2>1, <2>2 DEF Inner, Group3, Cached
<1>3. QED BY <1>1, <1>2

\* No write is lost by eviction, flush, close and reopening.
THEOREM NothingLost == Spec => []NoLostWrite
<1>1. IInv => NoLostWrite
  BY CurrentIsLatest DEF IInv, Inner, NoLostWrite
<1>2. QED BY <1>1, Invariant, PTL

\* In sound states the store of PageStore is latest, whose files are those of Opened.
StoreNow == [f \in File |-> [p \in PageNo |-> Current(f, p)]]
Opened == {f \in File : FdOf(f) # {}}

LEMMA StoreIsLatest == Base /\ Inner => StoreNow = latest
<1> SUFFICES ASSUME Base, Inner PROVE StoreNow = latest
  OBVIOUS
<1>1. latest \in [File -> [PageNo -> Data]]
  BY DEF Base, TypeOK
<1>2. \A f \in File : [p \in PageNo |-> Current(f, p)] = latest[f]
  BY <1>1, CurrentIsLatest
<1>3. QED BY <1>1, <1>2 DEF StoreNow

LEMMA StoreIsLatestNext == Base' /\ Inner' => StoreNow' = latest'
<1>1. (Base /\ Inner => StoreNow = latest)'
  BY StoreIsLatest, PTL
<1>2. QED BY <1>1

\* What PageStore sees of a sound step: the contents, the open files and the values written.
Seen == <<latest, file_of, writes>>

LEMMA StoreStep ==
    ASSUME Base, Inner, Next, Sound'
    PROVE  \/ UNCHANGED Seen
           \/ \E w \in Worker : Write(w)
           \/ \E f \in File : OpenFile(f) \/ ReplaceFile(f)
           \/ CloseEnd
<1>1. ASSUME NEW w \in Worker, WorkerStep(w), ~Write(w) PROVE UNCHANGED Seen
  <2>1. ASSUME NEW id \in PageId,
               FetchHit(w, id) \/ FetchMiss(w, id) \/ FetchShortRead(w, id)
        PROVE UNCHANGED Seen
    <3>1. CASE FetchHit(w, id)
      BY <3>1 DEF FetchHit, diskvars, Seen
    <3>2. CASE FetchMiss(w, id)
      BY <3>2 DEF FetchMiss, diskvars, Seen
    <3>3. CASE FetchShortRead(w, id)
      BY <3>3 DEF FetchShortRead, diskvars, Seen
    <3>4. QED BY <2>1, <3>1, <3>2, <3>3
  <2>2. ASSUME NEW fd \in Fd, NewPageNumber(w, fd) PROVE UNCHANGED Seen
    BY <2>2 DEF NewPageNumber, Seen
  <2>3. CASE NewPageFrame(w)
    BY <2>3 DEF NewPageFrame, Seen
  <2>4. CASE Unpin(w)
    BY <2>4 DEF Unpin, diskvars, ghosts, Seen
  <2>5. QED BY <1>1, <2>1, <2>2, <2>3, <2>4 DEF WorkerStep
<1>2. CASE FlushCollect
  BY <1>2 DEF FlushCollect, diskvars, ghosts, Seen
<1>3. ASSUME NEW id \in PageId, FlushPage(id) PROVE UNCHANGED Seen
  BY <1>3 DEF FlushPage, diskvars, ghosts, Seen
<1>4. ASSUME NEW fd \in Fd, CloseBegin(fd) PROVE UNCHANGED Seen
  BY <1>4 DEF CloseBegin, ghosts, Seen
<1>5. CASE CloseFlush
  BY <1>5 DEF CloseFlush, diskvars, ghosts, Seen
<1>6. CASE DiscardCollect \/ DiscardNext
  BY <1>6 DEF DiscardCollect, DiscardNext, diskvars, ghosts, Seen
<1>7. ASSUME NEW id \in PageId, DeletePage(id) PROVE UNCHANGED Seen
  BY <1>7 DEF DeletePage, ghosts, Seen
<1>8. QED BY <1>1, <1>2, <1>3, <1>4, <1>5, <1>6, <1>7 DEF Next, DdlStep

\* The steps it does see, as steps of PageStore on latest.
LEMMA WriteSeen ==
    ASSUME Base, Inner, NEW w \in Worker, Write(w)
    PROVE  \E f \in File, p \in PageNo, v \in Data :
               /\ f \in Opened /\ v \notin 1 .. writes
               /\ latest' = [latest EXCEPT ![f][p] = v]
               /\ 1 .. writes' = 1 .. writes \cup {v}
               /\ Opened' = Opened
<1> DEFINE f == file_of[page[w][1]]
           p == page[w][2]
<1>1. page[w] \in PageId /\ pc[w] = "pinned"
  BY PinnedFrame DEF Write, Inner, Group1
<1>2. page[w][1] \in Fd /\ p \in PageNo
  BY <1>1 DEF PageId
<1>3. f \in File /\ page[w][1] \in FdOf(f)
  BY <1>1, <1>2 DEF Inner, Group1, UsersOpen, Base, TypeOK, FdOf
<1>4. writes \in Nat /\ writes + 1 \in Data /\ writes' = writes + 1
  BY BoundsAssumption, SMTT(30) DEF Write, Base, TypeOK, Data
<1>5. writes + 1 \notin 1 .. writes /\ 1 .. writes' = 1 .. writes \cup {writes + 1}
  BY <1>4
<1>6. latest' = [latest EXCEPT ![f][p] = writes + 1]
  BY <1>4 DEF Write
<1>7. Opened' = Opened
  BY DEF Write, diskvars, Opened, FdOf
<1>8. f \in Opened
  BY <1>3 DEF Opened
<1> HIDE DEF f, p
<1>9. QED BY <1>2, <1>3, <1>4, <1>5, <1>6, <1>7, <1>8

LEMMA OpenSeen ==
    ASSUME Base, NEW f \in File, OpenFile(f)
    PROVE  f \notin Opened /\ Opened' = Opened \cup {f} /\ latest' = latest /\ writes' = writes
<1>1. PICK fd \in Fd : file_of[fd] = Nil /\ file_of' = [file_of EXCEPT ![fd] = f]
  BY DEF OpenFile
<1>2. file_of \in [Fd -> File \cup {Nil}] /\ Nil \notin File
  BY BoundsAssumption DEF Base, TypeOK
<1>3. f \notin Opened
  BY DEF OpenFile, Opened
<1>4. ASSUME NEW g \in File PROVE FdOf(g)' = IF g = f THEN FdOf(g) \cup {fd} ELSE FdOf(g)
  BY <1>1, <1>2, <1>4 DEF FdOf
<1>5. Opened' = {g \in File : FdOf(g)' # {}}
  BY DEF Opened
<1>6. ASSUME NEW g \in File PROVE g \in Opened' <=> g \in Opened \cup {f}
  BY <1>4, <1>5, <1>6 DEF Opened
<1>7. Opened' \subseteq File /\ Opened \subseteq File
  BY <1>5 DEF Opened
<1>8. QED BY <1>3, <1>6, <1>7 DEF OpenFile

LEMMA CloseSeen ==
    ASSUME Base, Inner, CloseEnd
    PROVE  \E f \in File : /\ f \in Opened /\ Opened' = Opened \ {f}
                           /\ latest' = latest /\ writes' = writes
<1> DEFINE fd == ddl.fd
           f == file_of[fd]
<1>1. fd \in Fd /\ f \in File
  BY DEF CloseEnd, Base, Closing, TypeOK, Idle
<1>2. file_of \in [Fd -> File \cup {Nil}] /\ Nil \notin File /\ file_of' = [file_of EXCEPT ![fd] = Nil]
  BY BoundsAssumption DEF Base, TypeOK, CloseEnd
<1>3. FdOf(f) = {fd}
  BY <1>1, <1>2 DEF Inner, Group1, OneFd, FdOf
<1>4. ASSUME NEW g \in File PROVE FdOf(g)' = IF g = f THEN {} ELSE FdOf(g)
  BY <1>1, <1>2, <1>3, <1>4 DEF FdOf
<1>5. Opened' = {g \in File : FdOf(g)' # {}}
  BY DEF Opened
<1>6. ASSUME NEW g \in File PROVE g \in Opened' <=> g \in Opened \ {f}
  BY <1>4, <1>5, <1>6 DEF Opened
<1>7. Opened' \subseteq File /\ Opened \subseteq File
  BY <1>5 DEF Opened
<1>8. f \in Opened
  BY <1>1, <1>3 DEF Opened
<1>9. latest' = latest /\ writes' = writes
  BY DEF CloseEnd, ghosts
<1>10. Opened' = Opened \ {f}
  BY <1>6, <1>7
<1> HIDE DEF f
<1>11. QED BY <1>1, <1>8, <1>9, <1>10

LEMMA ReplaceSeen ==
    ASSUME NEW f \in File, ReplaceFile(f)
    PROVE  /\ f \notin Opened /\ Opened' = Opened /\ writes' = writes
           /\ latest' = [latest EXCEPT ![f] = [p \in PageNo |-> 0]]
BY DEF ReplaceFile, Opened, FdOf

\* The pool with its disk implements PageStore: every sound step writes one page of an
\* open file with a new value, opens, closes or replaces a file, or changes nothing that
\* PageStore sees; the first unsound one is its Fault.
THEOREM PoolImplementsPageStore == Spec => ImplementsPageStore
<1>1. Init => Store!Init
  <2> SUFFICES ASSUME Init PROVE Store!Init
    OBVIOUS
  <2>1. StoreNow = latest
    BY InitBase, InitInner, StoreIsLatest
  <2>2. \A f \in File : FdOf(f) = {}
    BY BoundsAssumption DEF Init, FdOf
  <2>3. Opened = {}
    BY <2>2 DEF Opened
  <2>4. /\ latest = [f \in File |-> [p \in PageNo |-> 0]]
        /\ 1 .. writes = {} /\ Sound
    BY DEF Init, Sound
  <2>5. QED BY <2>1, <2>3, <2>4 DEF Store!Init, Store!EmptyFile, StoreNow, Opened
<1>2. IInv /\ IInv' /\ [Next]_vars => [Store!Next]_(Store!vars)
  <2> SUFFICES ASSUME IInv, IInv', [Next]_vars PROVE [Store!Next]_(Store!vars)
    OBVIOUS
  <2>1. CASE ~Sound'
    <3>1. (~Sound)' = TRUE
      BY <2>1
    <3>2. QED BY <3>1 DEF Store!Next, Store!Fault
  <2>2. CASE Sound'
    <3>1. /\ Sound /\ Base /\ Inner /\ Base' /\ Inner'
      BY <2>2, SoundBefore DEF IInv, Inner
    <3>2. StoreNow = latest /\ StoreNow' = latest'
      BY <3>1, StoreIsLatest, StoreIsLatestNext
    <3>3. (~Sound)' = ~Sound
      BY <2>2, <3>1
    <3>4. CASE UNCHANGED Seen
      <4>1. StoreNow' = StoreNow /\ writes' = writes
        BY <3>2, <3>4 DEF Seen
      <4>2. Opened' = Opened
        BY <3>4 DEF Seen, Opened, FdOf
      <4>3. QED BY <3>3, <4>1, <4>2 DEF Store!vars, StoreNow, Opened
    <3>5. ASSUME NEW w \in Worker, Write(w) PROVE Store!Next
      <4>1. PICK f \in File, p \in PageNo, v \in Data :
                /\ f \in Opened /\ v \notin 1 .. writes
                /\ StoreNow' = [StoreNow EXCEPT ![f][p] = v]
                /\ 1 .. writes' = 1 .. writes \cup {v}
                /\ Opened' = Opened
        BY <3>1, <3>2, <3>5, WriteSeen
      <4>2. Store!WritePage(f, p, v)
        BY <3>3, <4>1 DEF Store!WritePage, StoreNow, Opened
      <4>3. QED BY <4>2 DEF Store!Next
    <3>6. ASSUME NEW f \in File, OpenFile(f) PROVE Store!Next
      <4>1. /\ f \notin Opened /\ Opened' = Opened \cup {f}
            /\ StoreNow' = StoreNow /\ writes' = writes
        BY <3>1, <3>2, <3>6, OpenSeen
      <4>2. Store!Open(f)
        BY <3>3, <4>1 DEF Store!Open, StoreNow, Opened
      <4>3. QED BY <4>2 DEF Store!Next
    <3>7. ASSUME NEW f \in File, ReplaceFile(f) PROVE Store!Next
      <4>1. /\ f \notin Opened /\ Opened' = Opened /\ writes' = writes
            /\ StoreNow' = [StoreNow EXCEPT ![f] = [p \in PageNo |-> 0]]
        BY <3>2, <3>7, ReplaceSeen
      <4>2. Store!NewFile(f)
        BY <3>3, <4>1 DEF Store!NewFile, Store!EmptyFile, StoreNow, Opened
      <4>3. QED BY <4>2 DEF Store!Next
    <3>8. CASE CloseEnd
      <4>1. PICK f \in File : /\ f \in Opened /\ Opened' = Opened \ {f}
                              /\ StoreNow' = StoreNow /\ writes' = writes
        BY <3>1, <3>2, <3>8, CloseSeen
      <4>2. Store!Close(f)
        BY <3>3, <4>1 DEF Store!Close, StoreNow, Opened
      <4>3. QED BY <4>2 DEF Store!Next
    <3>9. CASE UNCHANGED vars
      BY <3>4, <3>9 DEF vars, diskvars, ghosts, Seen
    <3>10. QED BY <2>2, <3>1, <3>4, <3>5, <3>6, <3>7, <3>8, <3>9, StoreStep
  <2>3. QED BY <2>1, <2>2
<1>3. QED BY <1>1, <1>2, Invariant, PTL DEF Spec, ImplementsPageStore, Store!Spec

=============================================================================
