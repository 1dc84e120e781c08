---------------------------- MODULE Server_proof ----------------------------
(***************************************************************************)
(* What the server promises, for any clients, workers, plans, descriptors, *)
(* limit of connections and room of a socket.                              *)
(*                                                                         *)
(* TypeCorrect: Base holds in every state, whatever the clients do.  It    *)
(* says what the values are, that a descriptor, its connection and its     *)
(* entry in the list of epoll come and go together, and that only a worker *)
(* at the step that needs it holds conn_mutex_ or the parser, whose tree   *)
(* is then of that worker's own text.                                      *)
(*                                                                         *)
(* ClientsGetTheirAnswers: the input of a client that waits for its        *)
(* answers flows through the server in order (Flow).  Of its statements at *)
(* most one has no answer yet, and that one is queued, runs or replies     *)
(* once; new input comes only to a connection where nothing is under way   *)
(* (Calm), which is why the I/O thread and the worker that replies do not  *)
(* both dispatch from read_buf.  Two things would break it and are its     *)
(* conditions: a descriptor reused under a statement (reused), and two     *)
(* kinds of statements behind one pattern (Alike).                         *)
(***************************************************************************)
EXTENDS Server, FiniteSetTheorems, SequenceTheorems, WellFoundedInduction, NaturalsInduction, TLAPS

\* What clients send, and what the server makes of it: units of the input, the text of a
\* statement, plans, answers, connections.
StmtsOf(p) == UNION {ToSet(p.script[c].stmts) : c \in Clients}
Unit(p) == StmtsOf(p) \cup {End}
Text(p) == {s \in Seq(Unit(p)) :
              Len(s) > 0 /\ s[Len(s)] = End /\ \A i \in 1 .. Len(s) - 1 : s[i] # End}
Planned == [pattern : Patterns, tab : STRING, where : STRING, key : Int, val : Int, scan : Int]
Answer == [pattern : STRING \cup Patterns, tab : STRING, where : STRING, val : Int, key : Int] \cup {Broken}
Connection(p) ==
    [read_buf : Seq(Unit(p)), write_buf : Seq(Answer), closing : BOOLEAN, busy : BOOLEAN]
Client == [state : {"new", "open", "left"}, sent : Nat, got : Seq(Answer)]
Socket(p) == [in : Seq(Unit(p)), out : Seq(Answer), eof : BOOLEAN]

\* The events asked for and reported, and where the threads are.
Asked == {"IN", "OUT"}
Events == {"IN", "OUT", "RDHUP"}
Working == {"begin", "analyze", "answer"}
WorkerPcs == {"top", "ready", "falling", "asleep", "overslept", "gone", "commit", "respond"} \cup Working
IoPcs == {"wait", "accept", "notify", "hangup", "read", "dispatch", "write", "flush", "hung",
          "shutdown", "wake", "join", "down"}
OnFd == {"read", "hangup", "dispatch"}

\* A worker has in its cache plans of statements of this behaviour, each under its pattern.
Caches(p) == {f \in [Patterns -> Planned \cup {NoPlan}] :
                \A x \in Patterns : \/ f[x] = NoPlan
                                    \/ \E s \in StmtsOf(p) \ {Broken} : s.pattern = x /\ f[x] = plan_query(s)}
Worker(p) == [pc : WorkerPcs, fd : 0 .. MaxFd, who : Clients \cup {NoClient}, sql : Seq(Unit(p)),
              plan : Answer \cup {NoPlan}, cache : Caches(p)]
OpenIn(f) == {fd \in Fds : f[fd] # NoClient}

(* The list of epoll names open descriptors, and none twice. *)
EpOK(e, open) ==
    /\ e \in [ready : Seq(1 .. MaxFd + 2), interest : [Fds -> SUBSET Asked]]
    /\ IsInjective(e.ready)
    /\ ToSet(e.ready) \subseteq open \cup {Listen, Notify}

-----------------------------------------------------------------------------
(* Lists without repetition.                                               *)

LEMMA RemoveElement ==
    ASSUME NEW S, NEW q \in Seq(S), IsInjective(q), NEW k \in DOMAIN q
    PROVE  /\ RemoveAt(q, k) \in Seq(S) /\ IsInjective(RemoveAt(q, k))
           /\ ToSet(RemoveAt(q, k)) = ToSet(q) \ {q[k]}
<1> DEFINE n == Len(q)
           r == RemoveAt(q, k)
<1>1. n \in Nat /\ DOMAIN q = 1 .. n /\ k \in 1 .. n /\ \A i \in 1 .. n : q[i] \in S
  BY LenProperties, ElementOfSeq
<1>2. /\ SubSeq(q, 1, k - 1) \in Seq(S) /\ Len(SubSeq(q, 1, k - 1)) = k - 1
      /\ \A i \in 1 .. k - 1 : SubSeq(q, 1, k - 1)[i] = q[i]
  BY <1>1, SubSeqProperties
<1>3. /\ SubSeq(q, k + 1, n) \in Seq(S) /\ Len(SubSeq(q, k + 1, n)) = n - k
      /\ \A i \in 1 .. n - k : SubSeq(q, k + 1, n)[i] = q[k + i]
  BY <1>1, SubSeqProperties
<1>4. /\ r \in Seq(S) /\ Len(r) = n - 1
      /\ \A i \in 1 .. n - 1 : r[i] = IF i < k THEN q[i] ELSE q[i + 1]
  <2> DEFINE a == SubSeq(q, 1, k - 1)
             b == SubSeq(q, k + 1, n)
  <2>1. r = a \o b
    BY DEF RemoveAt
  <2>2. /\ a \in Seq(S) /\ Len(a) = k - 1 /\ \A i \in 1 .. k - 1 : a[i] = q[i]
        /\ b \in Seq(S) /\ Len(b) = n - k /\ \A i \in 1 .. n - k : b[i] = q[k + i]
    BY <1>2, <1>3
  <2> HIDE DEF a, b, r
  <2>3. /\ a \o b \in Seq(S) /\ Len(a \o b) = Len(a) + Len(b)
        /\ \A i \in 1 .. Len(a) + Len(b) :
               (a \o b)[i] = IF i <= Len(a) THEN a[i] ELSE b[i - Len(a)]
    BY <2>2, ConcatProperties
  <2>4. r \in Seq(S) /\ Len(r) = n - 1
    BY <1>1, <2>1, <2>2, <2>3
  <2>5. ASSUME NEW i \in 1 .. n - 1, i < k PROVE r[i] = q[i]
    BY <1>1, <2>1, <2>2, <2>3, <2>5
  <2>6. ASSUME NEW i \in 1 .. n - 1, ~(i < k) PROVE r[i] = q[i + 1]
    <3>1. r[i] = b[i - (k - 1)] /\ i - (k - 1) \in 1 .. n - k
      BY <1>1, <2>1, <2>2, <2>3, <2>6, SMTT(30)
    <3>2. QED BY <1>1, <2>2, <3>1
  <2>7. QED BY <2>4, <2>5, <2>6
<1>5. DOMAIN r = 1 .. n - 1
  BY <1>4, LenProperties
<1> HIDE DEF r
<1>6. \A i, j \in 1 .. n : q[i] = q[j] => i = j
  BY <1>1 DEF IsInjective
<1>7. IsInjective(r)
  BY <1>1, <1>4, <1>5, <1>6 DEF IsInjective
<1>8. ToSet(r) \subseteq ToSet(q) \ {q[k]}
  BY <1>1, <1>4, <1>5, <1>6, SMTT(30) DEF ToSet
<1>9. ASSUME NEW x \in ToSet(q), x # q[k] PROVE x \in ToSet(r)
  <2>1. PICK i \in 1 .. n : q[i] = x
    BY <1>1 DEF ToSet
  <2>2. CASE i < k
    BY <1>1, <1>4, <1>5, <2>1, <2>2 DEF ToSet
  <2>3. CASE i > k
    <3>1. i - 1 \in 1 .. n - 1 /\ r[i - 1] = x
      BY <1>1, <1>4, <2>1, <2>3
    <3>2. QED BY <1>5, <3>1 DEF ToSet
  <2>4. QED BY <1>1, <1>9, <2>1, <2>2, <2>3
<1>10. QED BY <1>4, <1>7, <1>8, <1>9 DEF r

LEMMA TailElement ==
    ASSUME NEW S, NEW q \in Seq(S), IsInjective(q), q # <<>>
    PROVE  /\ Head(q) \in ToSet(q) /\ Head(q) \in S
           /\ Tail(q) \in Seq(S) /\ IsInjective(Tail(q))
           /\ ToSet(Tail(q)) = ToSet(q) \ {Head(q)}
<1> DEFINE n == Len(q)
           r == Tail(q)
<1>1. n \in Nat /\ n > 0 /\ DOMAIN q = 1 .. n /\ \A i \in 1 .. n : q[i] \in S
  BY LenProperties, ElementOfSeq, EmptySeq
<1>2. /\ Head(q) = q[1]
      /\ r \in Seq(S) /\ Len(r) = n - 1 /\ \A i \in 1 .. n - 1 : r[i] = q[i + 1]
  BY <1>1, HeadTailProperties
<1>3. DOMAIN r = 1 .. n - 1
  BY <1>2, LenProperties
<1> HIDE DEF r
<1>4. \A i, j \in 1 .. n : q[i] = q[j] => i = j
  BY <1>1 DEF IsInjective
<1>5. IsInjective(r)
  BY <1>1, <1>2, <1>3, <1>4 DEF IsInjective
<1>6. ToSet(r) \subseteq ToSet(q) \ {q[1]}
  BY <1>1, <1>2, <1>3, <1>4 DEF ToSet
<1>7. ASSUME NEW x \in ToSet(q), x # q[1] PROVE x \in ToSet(r)
  <2>1. PICK i \in 1 .. n : q[i] = x
    BY <1>1 DEF ToSet
  <2>2. i - 1 \in 1 .. n - 1 /\ r[i - 1] = x
    BY <1>1, <1>2, <1>7, <2>1
  <2>3. QED BY <1>3, <2>2 DEF ToSet
<1>8. Head(q) \in ToSet(q)
  BY <1>1, <1>2 DEF ToSet
<1>9. QED BY <1>1, <1>2, <1>5, <1>6, <1>7, <1>8 DEF r

LEMMA AppendElement ==
    ASSUME NEW S, NEW q \in Seq(S), IsInjective(q), NEW x \in S, x \notin ToSet(q)
    PROVE  /\ Append(q, x) \in Seq(S) /\ IsInjective(Append(q, x))
           /\ ToSet(Append(q, x)) = ToSet(q) \cup {x}
<1> DEFINE n == Len(q)
           r == Append(q, x)
<1>1. n \in Nat /\ DOMAIN q = 1 .. n /\ \A i \in 1 .. n : q[i] \in S /\ q[i] # x
  BY LenProperties, ElementOfSeq DEF ToSet
<1>2. /\ r \in Seq(S) /\ Len(r) = n + 1
      /\ r[n + 1] = x /\ \A i \in 1 .. n : r[i] = q[i]
  BY <1>1, AppendProperties
<1>3. DOMAIN r = 1 .. n + 1
  BY <1>2, LenProperties
<1> HIDE DEF r
<1>4. IsInjective(r)
  BY <1>1, <1>2, <1>3 DEF IsInjective
<1>5. ToSet(r) \subseteq ToSet(q) \cup {x}
  BY <1>1, <1>2, <1>3 DEF ToSet
<1>6. ToSet(q) \subseteq ToSet(r) /\ x \in ToSet(r)
  BY <1>1, <1>2, <1>3 DEF ToSet
<1>7. QED BY <1>2, <1>4, <1>5, <1>6 DEF r

LEMMA ConcatElements ==
    ASSUME NEW S, NEW q \in Seq(S), IsInjective(q), NEW r \in Seq(S), IsInjective(r),
           ToSet(q) \cap ToSet(r) = {}
    PROVE  /\ q \o r \in Seq(S) /\ IsInjective(q \o r)
           /\ ToSet(q \o r) = ToSet(q) \cup ToSet(r)
<1> DEFINE m == Len(q)
           n == Len(r)
           t == q \o r
<1>1. m \in Nat /\ DOMAIN q = 1 .. m /\ n \in Nat /\ DOMAIN r = 1 .. n
  BY LenProperties
<1>2. t \in Seq(S) /\ Len(t) = m + n /\ \A i \in 1 .. m + n : t[i] = IF i <= m THEN q[i] ELSE r[i - m]
  BY ConcatProperties
<1>3. DOMAIN t = 1 .. m + n
  BY <1>2, LenProperties
<1> HIDE DEF t
<1>4. ASSUME NEW i \in 1 .. m + n
      PROVE  (i \in 1 .. m /\ t[i] = q[i] /\ t[i] \in ToSet(q))
             \/ (i - m \in 1 .. n /\ t[i] = r[i - m] /\ t[i] \in ToSet(r))
  <2>1. CASE i <= m
    BY <1>1, <1>2, <2>1 DEF ToSet
  <2>2. CASE ~(i <= m)
    <3>1. i - m \in 1 .. n /\ t[i] = r[i - m]
      BY <1>1, <1>2, <2>2
    <3>2. QED BY <1>1, <3>1 DEF ToSet
  <2>3. QED BY <2>1, <2>2
<1>5. ASSUME NEW i \in 1 .. m + n, NEW j \in 1 .. m + n, t[i] = t[j] PROVE i = j
  <2>1. \A x, y \in 1 .. m : q[x] = q[y] => x = y
    BY <1>1 DEF IsInjective
  <2>2. \A x, y \in 1 .. n : r[x] = r[y] => x = y
    BY <1>1 DEF IsInjective
  <2>3. CASE t[i] \in ToSet(q)
    BY <1>4, <1>5, <2>1, <2>3
  <2>4. CASE t[i] \notin ToSet(q)
    <3>1. i - m \in 1 .. n /\ t[i] = r[i - m] /\ j - m \in 1 .. n /\ t[j] = r[j - m]
      BY <1>4, <1>5, <2>4
    <3>2. i - m = j - m
      BY <1>5, <2>2, <3>1
    <3>3. QED BY <1>1, <3>2
  <2>5. QED BY <2>3, <2>4
<1>6. IsInjective(t)
  BY <1>3, <1>5 DEF IsInjective
<1>7. ToSet(t) \subseteq ToSet(q) \cup ToSet(r)
  BY <1>3, <1>4 DEF ToSet
<1>8. ASSUME NEW i \in 1 .. m PROVE q[i] \in ToSet(t)
  <2>1. i \in 1 .. m + n /\ t[i] = q[i]
    BY <1>1, <1>2
  <2>2. QED BY <1>3, <2>1 DEF ToSet
<1>9. ASSUME NEW i \in 1 .. n PROVE r[i] \in ToSet(t)
  <2>1. m + i \in 1 .. m + n /\ t[m + i] = r[i]
    BY <1>1, <1>2
  <2>2. QED BY <1>3, <2>1 DEF ToSet
<1>10. ToSet(q) \cup ToSet(r) \subseteq ToSet(t)
  <2>1. \A x \in ToSet(q) : \E i \in 1 .. m : x = q[i]
    BY <1>1 DEF ToSet
  <2>2. \A x \in ToSet(r) : \E i \in 1 .. n : x = r[i]
    BY <1>1 DEF ToSet
  <2>3. QED BY <1>8, <1>9, <2>1, <2>2
<1>11. ToSet(t) = ToSet(q) \cup ToSet(r)
  BY <1>7, <1>10
<1>12. QED BY <1>2, <1>6, <1>11 DEF t

\* A list without repetition is no longer than what there is to list.
LEMMA ListFits ==
    ASSUME NEW n \in Nat, NEW q \in Seq(1 .. n), IsInjective(q)
    PROVE  Len(q) <= n
<1>1. Len(q) \in Nat /\ DOMAIN q = 1 .. Len(q) /\ q \in [1 .. Len(q) -> 1 .. n]
  BY LenProperties
<1>2. IsFiniteSet(1 .. n) /\ Cardinality(1 .. n) = n /\ Cardinality(1 .. Len(q)) = Len(q)
      /\ IsFiniteSet(1 .. Len(q))
  <2>1. \A k \in Nat : IsFiniteSet(1 .. k) /\ Cardinality(1 .. k) = k
    <3>1. TAKE k \in Nat
    <3>2. IsFiniteSet(1 .. k) /\ Cardinality(1 .. k) = IF 1 > k THEN 0 ELSE k - 1 + 1
      BY FS_Interval
    <3>3. QED BY <3>2
  <2>2. QED BY <1>1, <2>1
<1>3. CASE n < Len(q)
  <2>1. \E x, y \in 1 .. Len(q) : x # y /\ q[x] = q[y]
    BY <1>1, <1>2, <1>3, FS_PigeonHole
  <2>2. QED BY <1>1, <2>1 DEF IsInjective
<1>4. QED BY <1>1, <1>3

LEMMA ContainsIs ==
    ASSUME NEW S, NEW q \in Seq(S), NEW x
    PROVE  Contains(q, x) <=> x \in ToSet(q)
<1>1. Len(q) \in Nat /\ DOMAIN q = 1 .. Len(q)
  BY LenProperties
<1>2. QED BY <1>1 DEF Contains, ToSet

-----------------------------------------------------------------------------
(* The list of epoll.                                                      *)

LEMMA ArmKeeps ==
    ASSUME NEW open, open \subseteq Fds, NEW e, EpOK(e, open),
           NEW x \in open \cup {Listen, Notify}
    PROVE  EpOK(Arm(e, x), open)
<1>1. MaxFd \in Nat /\ x \in 1 .. MaxFd + 2
  BY SizesAssumption DEF Fds, Listen, Notify
<1>2. e.ready \in Seq(1 .. MaxFd + 2) /\ IsInjective(e.ready) /\ ToSet(e.ready) \subseteq open \cup {Listen, Notify}
  BY DEF EpOK
<1>3. CASE Contains(e.ready, x)
  BY <1>3 DEF Arm
<1>4. CASE ~ Contains(e.ready, x)
  <2>1. x \notin ToSet(e.ready)
    BY <1>2, <1>4, ContainsIs
  <2>2. /\ Append(e.ready, x) \in Seq(1 .. MaxFd + 2) /\ IsInjective(Append(e.ready, x))
        /\ ToSet(Append(e.ready, x)) = ToSet(e.ready) \cup {x}
    BY <1>1, <1>2, <2>1, AppendElement
  <2>3. Arm(e, x) = [e EXCEPT !.ready = Append(e.ready, x)]
    BY <1>4 DEF Arm
  <2>4. Arm(e, x).ready = Append(e.ready, x)
        /\ Arm(e, x) \in [ready : Seq(1 .. MaxFd + 2), interest : [Fds -> SUBSET Asked]]
    BY <2>2, <2>3 DEF EpOK
  <2>5. QED BY <1>2, <2>2, <2>4 DEF EpOK
<1>5. QED BY <1>3, <1>4

LEMMA ModKeeps ==
    ASSUME NEW open, open \subseteq Fds, NEW e, EpOK(e, open), NEW fd \in open,
           NEW events, events \subseteq Asked, NEW s
    PROVE  EpOK(mod_epoll(e, fd, events, s), open)
<1> DEFINE asked == [e EXCEPT !.interest[fd] = events]
<1>1. EpOK(asked, open)
  BY DEF EpOK
<1>2. EpOK(Arm(asked, fd), open)
  BY <1>1, ArmKeeps
<1>3. QED BY <1>1, <1>2 DEF mod_epoll

LEMMA EdgeKeeps ==
    ASSUME NEW e, EpOK(e, OpenIn(file)), NEW c \in Clients, NEW events
    PROVE  EpOK(Edge(e, c, events), OpenIn(file))
<1> DEFINE fds == {fd \in Fds : file[fd] = c /\ events \cap (e.interest[fd] \cup {"RDHUP"}) # {}}
<1>1. fds \subseteq OpenIn(file) /\ OpenIn(file) \subseteq Fds
  BY NamesAssumption DEF OpenIn
<1>2. CASE fds = {}
  BY <1>2 DEF Edge
<1>3. CASE fds # {}
  <2>1. (CHOOSE fd \in fds : TRUE) \in fds
    BY <1>3
  <2>2. EpOK(Arm(e, CHOOSE fd \in fds : TRUE), OpenIn(file))
    BY <1>1, <2>1, ArmKeeps
  <2>3. QED BY <1>3, <2>2 DEF Edge
<1>4. QED BY <1>2, <1>3

LEMMA ForgetKeeps ==
    ASSUME NEW open, open \subseteq Fds, NEW e, EpOK(e, open), NEW fd \in Fds
    PROVE  EpOK(Forget(e, fd), open \ {fd})
<1> DEFINE q == e.ready
           i == Place(q, fd)
           r == IF Contains(q, fd) THEN RemoveAt(q, i) ELSE q
<1>1. q \in Seq(1 .. MaxFd + 2) /\ IsInjective(q) /\ ToSet(q) \subseteq open \cup {Listen, Notify}
      /\ e.interest \in [Fds -> SUBSET Asked]
  BY DEF EpOK
<1>2. fd # Listen /\ fd # Notify
  BY SizesAssumption DEF Fds, Listen, Notify
<1>3. r \in Seq(1 .. MaxFd + 2) /\ IsInjective(r) /\ ToSet(r) = ToSet(q) \ {fd}
  <2>1. CASE Contains(q, fd)
    <3>1. fd \in ToSet(q)
      BY <1>1, <2>1, ContainsIs
    <3>2. \E j \in DOMAIN q : q[j] = fd
      BY <3>1 DEF ToSet
    <3>3. i \in DOMAIN q /\ q[i] = fd
      BY <3>2 DEF Place
    <3>4. RemoveAt(q, i) \in Seq(1 .. MaxFd + 2) /\ IsInjective(RemoveAt(q, i))
          /\ ToSet(RemoveAt(q, i)) = ToSet(q) \ {q[i]}
      BY <1>1, <3>3, RemoveElement
    <3>5. QED BY <2>1, <3>3, <3>4
  <2>2. CASE ~ Contains(q, fd)
    BY <1>1, <2>2, ContainsIs
  <2>3. QED BY <2>1, <2>2
<1>4. Forget(e, fd) = [ready |-> r, interest |-> [e.interest EXCEPT ![fd] = {}]]
  BY DEF Forget
<1> HIDE DEF r
<1>5. QED BY <1>1, <1>2, <1>3, <1>4 DEF EpOK

LEMMA EpGrows ==
    ASSUME NEW open, NEW more, open \subseteq more, NEW e, EpOK(e, open)
    PROVE  EpOK(e, more)
BY DEF EpOK

LEMMA TailKeeps ==
    ASSUME NEW open, NEW e, EpOK(e, open), e.ready # <<>>
    PROVE  EpOK([e EXCEPT !.ready = Tail(@)], open) /\ Head(e.ready) \in open \cup {Listen, Notify}
<1>1. e.ready \in Seq(1 .. MaxFd + 2) /\ IsInjective(e.ready) /\ ToSet(e.ready) \subseteq open \cup {Listen, Notify}
  BY DEF EpOK
<1>2. /\ Head(e.ready) \in ToSet(e.ready)
      /\ Tail(e.ready) \in Seq(1 .. MaxFd + 2) /\ IsInjective(Tail(e.ready))
      /\ ToSet(Tail(e.ready)) \subseteq ToSet(e.ready)
  BY <1>1, TailElement
<1>3. QED BY <1>1, <1>2 DEF EpOK

\* Any order in which the descriptors of a finite set are reported.
LEMMA OrderIsList ==
    ASSUME NEW S, IsFiniteSet(S), NEW q \in SetToSeqs(S)
    PROVE  q \in Seq(S) /\ IsInjective(q) /\ ToSet(q) \subseteq S
<1> DEFINE n == Cardinality(S)
<1>1. n \in Nat
  BY FS_CardinalityType
<1>2. q \in [1 .. n -> S] /\ \A i, j \in 1 .. n : i # j => q[i] # q[j]
  BY DEF SetToSeqs
<1>3. q \in Seq(S)
  BY <1>1, <1>2, SeqDef
<1>4. QED BY <1>2, <1>3 DEF IsInjective, ToSet

LEMMA FdsAreFinite == IsFiniteSet(Fds) /\ Cardinality(Fds) = MaxFd
<1>1. IsFiniteSet(1 .. MaxFd) /\ Cardinality(1 .. MaxFd) = IF 1 > MaxFd THEN 0 ELSE MaxFd - 1 + 1
  BY SizesAssumption, FS_Interval
<1>2. QED BY <1>1, SizesAssumption DEF Fds

LEMMA NotifiedKeeps ==
    ASSUME NEW open, open \subseteq Fds, NEW e, EpOK(e, open), NEW S, S \subseteq open,
           S \cap ToSet(e.ready) = {}, NEW order \in SetToSeqs(S),
           NEW interest \in [Fds -> SUBSET Asked]
    PROVE  EpOK([ready |-> e.ready \o order, interest |-> interest], open)
<1>1. IsFiniteSet(S)
  BY FdsAreFinite, FS_Subset
<1>2. order \in Seq(S) /\ IsInjective(order) /\ ToSet(order) \subseteq S
  BY <1>1, OrderIsList
<1>3. S \subseteq 1 .. MaxFd + 2
  BY SizesAssumption DEF Fds
<1>4. order \in Seq(1 .. MaxFd + 2)
  BY <1>2, <1>3, SeqMonotonic
<1>5. e.ready \in Seq(1 .. MaxFd + 2) /\ IsInjective(e.ready) /\ ToSet(e.ready) \subseteq open \cup {Listen, Notify}
  BY DEF EpOK
<1>6. /\ e.ready \o order \in Seq(1 .. MaxFd + 2) /\ IsInjective(e.ready \o order)
      /\ ToSet(e.ready \o order) = ToSet(e.ready) \cup ToSet(order)
  BY <1>2, <1>4, <1>5, ConcatElements
<1>7. QED BY <1>2, <1>5, <1>6 DEF EpOK

-----------------------------------------------------------------------------
(* What holds in every state, whatever the clients do.                     *)

\* The clients, their sockets, and those that wait to be accepted.
ClientTypes ==
    /\ plan \in Plans
    /\ cl \in [Clients -> Client]
    /\ sock \in [Clients -> Socket(plan)]
    /\ \A c \in Clients : Len(sock[c].out) <= Room
    /\ backlog \in Seq(Clients)
\* The connections are those of the open descriptors.
Files ==
    /\ file \in [Fds -> Clients \cup {NoClient}]
    /\ conns \in [OpenIn(file) -> Connection(plan)]
    /\ EpOK(ep, OpenIn(file))
\* A client has one connection at most, and none while it waits for one.
OneConnection ==
    /\ \A fd, other \in OpenIn(file) : file[fd] = file[other] => fd = other
    /\ IsInjective(backlog)
    /\ \A fd \in OpenIn(file) : file[fd] \notin ToSet(backlog)
    /\ \A c \in Clients : cl[c].state = "new" =>
         c \notin ToSet(backlog) /\ \A fd \in OpenIn(file) : file[fd] # c
\* The descriptor the I/O thread works on stays open, but for the last write to it.
IoTypes ==
    /\ io \in [pc : IoPcs, fd : 0 .. MaxFd, ev : SUBSET Events, dispatch : BOOLEAN]
    /\ io.pc \in OnFd => io.fd \in OpenIn(file)
    /\ io.pc = "write" => io.fd \in Fds
\* What waits in the pool is whole statements.
PoolTypes ==
    /\ queue \in Seq([conn_fd : Fds, sql : Text(plan)])
    /\ stop \in BOOLEAN /\ running \in BOOLEAN /\ reused \in BOOLEAN
WorkerTypes ==
    /\ wk \in [Workers -> Worker(plan)]
    /\ \A w \in Workers :
         /\ Pc(w) \in Working \cup {"respond"} => wk[w].fd \in Fds
         /\ Pc(w) \in {"begin", "analyze"} => wk[w].sql \in Text(plan)
         /\ Pc(w) = "answer" => wk[w].plan \in Answer
\* Who holds conn_mutex_ and the mutex of the parser, and what they protect: a connection
\* stays while a worker replies to it, the tree is of the statement of its holder.
Latches ==
    /\ conn_mutex \in {Free, IoThread} \cup Workers
    /\ parser \in [holder : {Free} \cup Workers, tree : StmtsOf(plan) \cup {Broken}]
    /\ \A w \in Workers :
         /\ Pc(w) = "respond" <=> conn_mutex = w
         /\ Pc(w) = "respond" => wk[w].fd \in OpenIn(file)
         /\ Pc(w) = "analyze" <=> parser.holder = w
         /\ Pc(w) = "analyze" =>
              LET s == Parsed(wk[w].sql) IN s # Broken /\ (try_fast_path(s) \/ parser.tree = s)
Base == ClientTypes /\ Files /\ OneConnection /\ IoTypes /\ PoolTypes /\ WorkerTypes /\ Latches

\* The statements of a plan, and the texts of them.
LEMMA PlanFacts ==
    ASSUME NEW p \in Plans
    PROVE  /\ StmtsOf(p) \subseteq Statement /\ End \notin StmtsOf(p)
           /\ \A c \in Clients :
                /\ p.script[c].stmts \in Seq(Statement)
                /\ \A i \in 1 .. Len(p.script[c].stmts) : p.script[c].stmts[i] \in StmtsOf(p)
                /\ p.script[c].packets \subseteq 1 .. 2 * Len(p.script[c].stmts)
<1>1. ASSUME NEW c \in Clients
      PROVE  /\ p.script[c].stmts \in Seq(Statement)
             /\ ToSet(p.script[c].stmts) \subseteq Statement
             /\ \A i \in 1 .. Len(p.script[c].stmts) : p.script[c].stmts[i] \in ToSet(p.script[c].stmts)
             /\ p.script[c].packets \subseteq 1 .. 2 * Len(p.script[c].stmts)
  <2> DEFINE q == p.script[c].stmts
  <2>1. q \in Seq(Statement) /\ p.script[c].packets \subseteq 1 .. 2 * Len(q)
    BY PlansAssumption
  <2> HIDE DEF q
  <2>2. DOMAIN q = 1 .. Len(q) /\ \A i \in 1 .. Len(q) : q[i] \in Statement
    BY <2>1, LenProperties, ElementOfSeq
  <2>3. ToSet(q) \subseteq Statement /\ \A i \in 1 .. Len(q) : q[i] \in ToSet(q)
    BY <2>2 DEF ToSet
  <2>4. QED BY <2>1, <2>3 DEF q
<1>2. StmtsOf(p) \subseteq Statement
  BY <1>1 DEF StmtsOf
<1>3. QED BY <1>1, <1>2, NamesAssumption DEF StmtsOf

LEMMA ParsedIs ==
    ASSUME NEW p \in Plans, NEW sql \in Text(p)
    PROVE  Parsed(sql) \in StmtsOf(p) \cup {Broken} /\ sql \in Seq(Unit(p))
<1>1. sql \in Seq(Unit(p)) /\ Len(sql) \in Nat /\ \A i \in 1 .. Len(sql) - 1 : sql[i] # End
  BY LenProperties DEF Text
<1>2. ASSUME Len(sql) = 2 PROVE sql[1] \in StmtsOf(p)
  <2>1. sql[1] \in Unit(p)
    BY <1>1, <1>2, ElementOfSeq
  <2>2. QED BY <1>1, <1>2, <2>1 DEF Unit
<1>3. QED BY <1>1, <1>2 DEF Parsed

LEMMA BrokenIs == try_fast_path(Broken) = FALSE /\ Broken # NoPlan
BY DEF try_fast_path, Broken, NoPlan

\* What a client sends next is of its input.
LEMMA UnitsAre ==
    ASSUME ClientTypes, NEW c \in Clients, NEW m \in Nat, NEW n \in Nat, m <= n,
           n <= 2 * Len(Script(c).stmts)
    PROVE  /\ Units(c, m, n) \in Seq(Unit(plan)) /\ Len(Units(c, m, n)) = n - m
           /\ \A i \in 1 .. n - m : Units(c, m, n)[i] = Input(c, m + i)
<1>1. /\ Script(c).stmts \in Seq(Statement)
      /\ \A i \in 1 .. Len(Script(c).stmts) : Script(c).stmts[i] \in StmtsOf(plan)
  BY PlanFacts DEF ClientTypes, Script
<1>2. Len(Script(c).stmts) \in Nat
  BY <1>1, LenProperties
<1>3. ASSUME NEW i \in 1 .. n - m PROVE Input(c, m + i) \in Unit(plan)
  <2> DEFINE k == m + i
  <2>1. k \in Nat /\ k > 0 /\ k <= 2 * Len(Script(c).stmts)
    BY <1>2
  <2> HIDE DEF k
  <2>2. CASE k % 2 = 0
    BY <2>2 DEF Input, Unit, k
  <2>3. CASE k % 2 # 0
    <3>1. (k + 1) \div 2 \in 1 .. Len(Script(c).stmts)
      BY <1>2, <2>1, <2>3
    <3>2. QED BY <1>1, <2>3, <3>1 DEF Input, Unit, k
  <2>4. QED BY <2>2, <2>3
<1>4. n - m \in Nat
  OBVIOUS
<1>5. Units(c, m, n) \in [1 .. n - m -> Unit(plan)]
  BY <1>3 DEF Units
<1>6. Units(c, m, n) \in Seq(Unit(plan))
  BY <1>4, <1>5, SeqDef
<1>7. DOMAIN Units(c, m, n) = 1 .. n - m /\ DOMAIN Units(c, m, n) = 1 .. Len(Units(c, m, n))
      /\ Len(Units(c, m, n)) \in Nat
  BY <1>5, <1>6, LenProperties
<1>8. Len(Units(c, m, n)) = n - m
  BY <1>4, <1>7
<1>9. QED BY <1>6, <1>8 DEF Units

-----------------------------------------------------------------------------
(* The clients.                                                            *)

LEMMA ClientLeaves ==
    ASSUME NEW c \in Clients, ClientStep(c)
    PROVE  UNCHANGED <<plan, file, conns, conn_mutex, running, io, queue, stop, parser, wk, reused>>
BY DEF ClientStep, Connect, Send, Receive, Leave

LEMMA ClientTypesKept ==
    ASSUME ClientTypes, NEW c \in Clients, ClientStep(c)
    PROVE  ClientTypes'
<1>1. plan' = plan
  BY ClientLeaves
<1>2. /\ cl[c] \in Client /\ sock[c] \in Socket(plan) /\ sock[c].out \in Seq(Answer)
      /\ sock[c].in \in Seq(Unit(plan)) /\ cl[c].got \in Seq(Answer) /\ cl[c].sent \in Nat
  BY DEF ClientTypes, Client, Socket
<1>3. CASE Connect(c)
  <2>1. Append(backlog, c) \in Seq(Clients)
    BY AppendProperties DEF ClientTypes
  <2>2. backlog' = Append(backlog, c) /\ sock' = sock /\ cl' = [cl EXCEPT ![c].state = "open"]
    BY <1>3 DEF Connect
  <2>3. [cl[c] EXCEPT !.state = "open"] \in Client
    BY <1>2 DEF Client
  <2>4. QED BY <1>1, <2>1, <2>2, <2>3 DEF ClientTypes
<1>4. CASE Send(c)
  <2>1. PICK n \in Script(c).packets :
          /\ n > cl[c].sent
          /\ cl' = [cl EXCEPT ![c].sent = n]
          /\ sock' = [sock EXCEPT ![c].in = @ \o Units(c, cl[c].sent, n)]
    BY <1>4 DEF Send
  <2>2. backlog' = backlog
    BY <1>4 DEF Send
  <2>3. Script(c).stmts \in Seq(Statement) /\ n \in 1 .. 2 * Len(Script(c).stmts)
    BY PlanFacts DEF ClientTypes, Script
  <2>4. n \in Nat /\ n <= 2 * Len(Script(c).stmts)
    BY <2>3, LenProperties
  <2>5. Units(c, cl[c].sent, n) \in Seq(Unit(plan))
    BY <1>2, <2>1, <2>4, UnitsAre
  <2>6. sock[c].in \o Units(c, cl[c].sent, n) \in Seq(Unit(plan))
    BY <1>2, <2>5, ConcatProperties
  <2>7. [cl[c] EXCEPT !.sent = n] \in Client
        /\ [sock[c] EXCEPT !.in = @ \o Units(c, cl[c].sent, n)] \in Socket(plan)
    BY <1>2, <2>4, <2>6 DEF Client, Socket
  <2>8. \A d \in Clients : sock'[d].out = sock[d].out
    BY <1>2, <2>1 DEF ClientTypes, Socket
  <2>9. QED BY <1>1, <2>1, <2>2, <2>7, <2>8 DEF ClientTypes
<1>5. CASE Receive(c)
  <2> DEFINE out == sock[c].out
  <2>1. out # <<>> /\ cl' = [cl EXCEPT ![c].got = Append(@, Head(out))]
        /\ sock' = [sock EXCEPT ![c].out = Tail(out)] /\ backlog' = backlog
    BY <1>5 DEF Receive
  <2>2. Head(out) \in Answer /\ Tail(out) \in Seq(Answer) /\ Len(Tail(out)) = Len(out) - 1 /\ Len(out) \in Nat
    BY <1>2, <2>1, HeadTailProperties, LenProperties
  <2>3. Append(cl[c].got, Head(out)) \in Seq(Answer)
    BY <1>2, <2>2, AppendProperties
  <2>4. [cl[c] EXCEPT !.got = Append(@, Head(out))] \in Client
        /\ [sock[c] EXCEPT !.out = Tail(out)] \in Socket(plan)
    BY <1>2, <2>2, <2>3 DEF Client, Socket
  <2>5. Len(Tail(out)) <= Room
    BY <2>2, SizesAssumption DEF ClientTypes
  <2>6. \A d \in Clients : sock'[d].out = IF d = c THEN Tail(out) ELSE sock[d].out
    BY <1>2, <2>1 DEF ClientTypes, Socket
  <2> HIDE DEF out
  <2>7. QED BY <1>1, <2>1, <2>4, <2>5, <2>6 DEF ClientTypes
<1>6. CASE Leave(c)
  <2>1. cl' = [cl EXCEPT ![c].state = "left"] /\ sock' = [sock EXCEPT ![c].eof = TRUE]
        /\ backlog' = backlog
    BY <1>6 DEF Leave
  <2>2. [cl[c] EXCEPT !.state = "left"] \in Client /\ [sock[c] EXCEPT !.eof = TRUE] \in Socket(plan)
    BY <1>2 DEF Client, Socket
  <2>3. \A d \in Clients : sock'[d].out = sock[d].out
    BY <1>2, <2>1 DEF ClientTypes, Socket
  <2>4. QED BY <1>1, <2>1, <2>2, <2>3 DEF ClientTypes
<1>7. QED BY <1>3, <1>4, <1>5, <1>6 DEF ClientStep

LEMMA ClientKeeps ==
    ASSUME Base, NEW c \in Clients, ClientStep(c)
    PROVE  Base'
<1>1. UNCHANGED <<plan, file, conns, conn_mutex, running, io, queue, stop, parser, wk, reused>>
  BY ClientLeaves
<1>2. ClientTypes'
  BY ClientTypesKept DEF Base
<1>3. IoTypes' /\ PoolTypes' /\ WorkerTypes' /\ Latches'
  BY <1>1 DEF Base, IoTypes, PoolTypes, WorkerTypes, Latches, Pc
<1>4. OpenIn(file) \subseteq Fds /\ EpOK(ep, OpenIn(file))
  BY DEF OpenIn, Base, Files
<1>5. EpOK(ep', OpenIn(file))
  <2>1. EpOK(Arm(ep, Listen), OpenIn(file))
    BY <1>4, ArmKeeps
  <2>2. EpOK(Edge(ep, c, {"IN"}), OpenIn(file)) /\ EpOK(Edge(ep, c, {"OUT"}), OpenIn(file))
        /\ EpOK(Edge(ep, c, {"IN", "RDHUP"}), OpenIn(file))
    BY <1>4, EdgeKeeps
  <2>3. QED BY <2>1, <2>2 DEF ClientStep, Connect, Send, Receive, Leave
<1>6. Files'
  BY <1>1, <1>5 DEF Base, Files
<1>7. OneConnection'
  <2>1. \A d \in Clients : cl[d] \in Client
    BY DEF Base, ClientTypes
  <2>2. CASE Connect(c)
    <3>1. cl[c].state = "new" /\ backlog' = Append(backlog, c) /\ cl' = [cl EXCEPT ![c].state = "open"]
      BY <2>2 DEF Connect
    <3>2. c \notin ToSet(backlog) /\ backlog \in Seq(Clients) /\ IsInjective(backlog)
      BY <3>1 DEF Base, OneConnection, ClientTypes
    <3>3. IsInjective(backlog') /\ ToSet(backlog') = ToSet(backlog) \cup {c}
      BY <3>1, <3>2, AppendElement
    <3>4. \A d \in Clients : cl'[d].state = IF d = c THEN "open" ELSE cl[d].state
      BY <2>1, <3>1 DEF Base, ClientTypes, Client
    <3>5. QED BY <1>1, <3>1, <3>3, <3>4 DEF Base, OneConnection
  <2>3. CASE ~ Connect(c)
    <3>1. backlog' = backlog /\ \A d \in Clients : cl'[d].state = "new" => cl[d].state = "new"
      <4>1. CASE Send(c)
        <5>1. PICK n \in Script(c).packets : cl' = [cl EXCEPT ![c].sent = n]
          BY <4>1 DEF Send
        <5>2. QED BY <2>1, <4>1, <5>1 DEF Send, Base, ClientTypes, Client
      <4>2. CASE Receive(c)
        BY <2>1, <4>2 DEF Receive, Base, ClientTypes, Client
      <4>3. CASE Leave(c)
        BY <2>1, <4>3 DEF Leave, Base, ClientTypes, Client
      <4>4. QED BY <2>3, <4>1, <4>2, <4>3 DEF ClientStep
    <3>2. QED BY <1>1, <3>1 DEF Base, OneConnection
  <2>4. QED BY <2>2, <2>3
<1>8. QED BY <1>2, <1>3, <1>6, <1>7 DEF Base

-----------------------------------------------------------------------------
(* The workers.                                                            *)

Nudge(x, y) == y = x \/ (x.pc = "asleep" /\ y = [x EXCEPT !.pc = "ready"])

LEMMA NotifyNudges ==
    ASSUME NEW S, NEW ws, ws \in [Workers -> S], NEW after \in NotifyOne(ws)
    PROVE  /\ DOMAIN after = Workers /\ after = [w \in Workers |-> after[w]]
           /\ \A w \in Workers : Nudge(ws[w], after[w])
<1> DEFINE asleep == {w \in Workers : ws[w].pc = "asleep"}
<1>1. CASE after = ws
  BY <1>1 DEF Nudge
<1>2. CASE after # ws
  <2>1. after \in {[ws EXCEPT ![w].pc = "ready"] : w \in asleep}
    BY <1>2 DEF NotifyOne
  <2>2. PICK v \in asleep : after = [ws EXCEPT ![v].pc = "ready"]
    BY <2>1
  <2>3. QED BY <2>2 DEF Nudge
<1>3. QED BY <1>1, <1>2

LEMMA NudgeTypes ==
    ASSUME NEW p, NEW x \in Worker(p), NEW y, Nudge(x, y)
    PROVE  y \in Worker(p) /\ y.fd = x.fd /\ y.sql = x.sql /\ y.plan = x.plan
           /\ (y.pc = x.pc \/ (x.pc = "asleep" /\ y.pc = "ready"))
BY DEF Nudge, Worker, WorkerPcs

\* One worker moves, others may be notified.
OthersNudged(w) ==
    /\ wk' \in [Workers -> Worker(plan)]
    /\ \A v \in Workers \ {w} : Nudge(wk[v], wk'[v])

LEMMA WorkersMove ==
    ASSUME Base, NEW w, OthersNudged(w), plan' = plan,
           w \in Workers =>
             /\ wk'[w].pc \in Working \cup {"respond"} => wk'[w].fd \in Fds
             /\ wk'[w].pc \in {"begin", "analyze"} => wk'[w].sql \in Text(plan)
             /\ wk'[w].pc = "answer" => wk'[w].plan \in Answer
    PROVE  WorkerTypes'
<1>1. \A v \in Workers : wk[v] \in Worker(plan)
  BY DEF Base, WorkerTypes
<1>2. ASSUME NEW v \in Workers \ {w}
      PROVE  /\ wk'[v].fd = wk[v].fd /\ wk'[v].sql = wk[v].sql /\ wk'[v].plan = wk[v].plan
             /\ wk'[v].pc = wk[v].pc \/ wk'[v].pc = "ready"
  BY <1>1, NudgeTypes DEF OthersNudged
<1>3. ASSUME NEW v \in Workers
      PROVE  /\ wk'[v].pc \in Working \cup {"respond"} => wk'[v].fd \in Fds
             /\ wk'[v].pc \in {"begin", "analyze"} => wk'[v].sql \in Text(plan)
             /\ wk'[v].pc = "answer" => wk'[v].plan \in Answer
  <2>1. CASE v = w
    BY <2>1
  <2>2. CASE v # w
    BY <1>2, <2>2 DEF Base, WorkerTypes, Pc, Working
  <2>3. QED BY <2>1, <2>2
<1>4. QED BY <1>3 DEF WorkerTypes, OthersNudged, Pc

LEMMA LatchesMove ==
    ASSUME Base, NEW w, OthersNudged(w), plan' = plan, file' = file,
           conn_mutex' \in {Free, IoThread} \cup Workers,
           parser' \in [holder : {Free} \cup Workers, tree : StmtsOf(plan) \cup {Broken}],
           \A v \in Workers \ {w} :
             /\ conn_mutex' = v <=> conn_mutex = v
             /\ parser'.holder = v <=> parser.holder = v
             /\ parser.holder = v => parser'.tree = parser.tree,
           w \in Workers =>
             /\ wk'[w].pc = "respond" <=> conn_mutex' = w
             /\ wk'[w].pc = "respond" => wk'[w].fd \in OpenIn(file)
             /\ wk'[w].pc = "analyze" <=> parser'.holder = w
             /\ wk'[w].pc = "analyze" =>
                  LET s == Parsed(wk'[w].sql) IN s # Broken /\ (try_fast_path(s) \/ parser'.tree = s)
    PROVE  Latches'
<1>1. \A v \in Workers : wk[v] \in Worker(plan)
  BY DEF Base, WorkerTypes
<1>2. ASSUME NEW v \in Workers
      PROVE  /\ wk'[v].pc = "respond" <=> conn_mutex' = v
             /\ wk'[v].pc = "respond" => wk'[v].fd \in OpenIn(file)
             /\ wk'[v].pc = "analyze" <=> parser'.holder = v
             /\ wk'[v].pc = "analyze" =>
                  LET s == Parsed(wk'[v].sql) IN s # Broken /\ (try_fast_path(s) \/ parser'.tree = s)
  <2>1. CASE v = w
    BY <2>1
  <2>2. CASE v # w
    <3>1. /\ wk'[v].fd = wk[v].fd /\ wk'[v].sql = wk[v].sql
          /\ wk'[v].pc = wk[v].pc \/ (wk[v].pc = "asleep" /\ wk'[v].pc = "ready")
      BY <1>1, <2>2, NudgeTypes DEF OthersNudged
    <3>2. /\ wk[v].pc = "respond" <=> conn_mutex = v
          /\ wk[v].pc = "respond" => wk[v].fd \in OpenIn(file)
          /\ wk[v].pc = "analyze" <=> parser.holder = v
          /\ wk[v].pc = "analyze" =>
                LET s == Parsed(wk[v].sql) IN s # Broken /\ (try_fast_path(s) \/ parser.tree = s)
      BY DEF Base, Latches, Pc
    <3>3. QED BY <2>2, <3>1, <3>2
  <2>3. QED BY <2>1, <2>2
<1>3. QED BY <1>2 DEF Latches, Pc

\* A move of one worker that has to do with no latch.
LEMMA WorkerMoves ==
    ASSUME Base, NEW w \in Workers, NEW x \in Worker(plan), wk' = [wk EXCEPT ![w] = x],
           UNCHANGED <<plan, file, conn_mutex, parser>>,
           wk[w].pc \notin {"respond", "analyze"}, x.pc \notin {"respond", "analyze"},
           x.pc \in Working => x.fd \in Fds,
           x.pc = "begin" => x.sql \in Text(plan),
           x.pc = "answer" => x.plan \in Answer
    PROVE  WorkerTypes' /\ Latches'
<1>1. wk \in [Workers -> Worker(plan)]
  BY DEF Base, WorkerTypes
<1>2. OthersNudged(w) /\ wk'[w] = x
  BY <1>1 DEF OthersNudged, Nudge
<1>3. WorkerTypes'
  BY <1>2, WorkersMove
<1>4. /\ conn_mutex \in {Free, IoThread} \cup Workers
      /\ parser \in [holder : {Free} \cup Workers, tree : StmtsOf(plan) \cup {Broken}]
      /\ conn_mutex # w /\ parser.holder # w
  BY DEF Base, Latches, Pc
<1>5. Latches'
  <2>1. /\ conn_mutex' \in {Free, IoThread} \cup Workers
        /\ parser' \in [holder : {Free} \cup Workers, tree : StmtsOf(plan) \cup {Broken}]
    BY <1>4
  <2>2. \A v \in Workers \ {w} :
             /\ conn_mutex' = v <=> conn_mutex = v
             /\ parser'.holder = v <=> parser.holder = v
             /\ parser.holder = v => parser'.tree = parser.tree
    OBVIOUS
  <2>3. /\ wk'[w].pc = "respond" <=> conn_mutex' = w
        /\ wk'[w].pc = "respond" => wk'[w].fd \in OpenIn(file)
        /\ wk'[w].pc = "analyze" <=> parser'.holder = w
        /\ wk'[w].pc = "analyze" =>
                LET s == Parsed(wk'[w].sql) IN s # Broken /\ (try_fast_path(s) \/ parser'.tree = s)
    BY <1>2, <1>4
  <2>4. QED BY <1>2, <2>1, <2>2, <2>3, LatchesMove
<1>6. QED BY <1>3, <1>5

\* The first statement of a buffer ends with the first ';'.
LEMMA LeastExists ==
    ASSUME NEW S, S \subseteq Nat, S # {}
    PROVE  \E x \in S : \A y \in S : x <= y
<1>1. PICK x \in S : \A y \in S : <<y, x>> \notin OpToRel(<, Nat)
  BY WFMin, NatLessThanWellFounded
<1>2. ASSUME NEW y \in S PROVE x <= y
  <2>1. <<y, x>> \in Nat \X Nat /\ <<y, x>>[1] = y /\ <<y, x>>[2] = x
    OBVIOUS
  <2>2. OpToRel(<, Nat) = {ss \in Nat \X Nat : ss[1] < ss[2]}
    BY DEF OpToRel
  <2>3. ~(y < x)
    BY <1>1, <2>1, <2>2
  <2>4. QED BY <2>3
<1>3. QED BY <1>2

LEMMA SemiIs ==
    ASSUME NEW S, NEW buf \in Seq(S), HasStatement(buf)
    PROVE  /\ Semi(buf) \in 1 .. Len(buf) /\ buf[Semi(buf)] = End
           /\ \A j \in 1 .. Semi(buf) - 1 : buf[j] # End
<1>1. Len(buf) \in Nat /\ DOMAIN buf = 1 .. Len(buf)
  BY LenProperties
<1> DEFINE E == {i \in 1 .. Len(buf) : buf[i] = End}
<1>2. E # {} /\ E \subseteq Nat
  BY <1>1 DEF HasStatement, Contains
<1>3. PICK k \in E : \A j \in E : k <= j
  BY <1>2, LeastExists
<1>4. k \in DOMAIN buf /\ buf[k] = End /\ \A j \in 1 .. k - 1 : buf[j] # End
  <2>1. ASSUME NEW j \in 1 .. k - 1 PROVE buf[j] # End
    <3>1. j \in 1 .. Len(buf) /\ ~(k <= j)
      BY <1>1, <1>3
    <3>2. QED BY <1>3, <3>1
  <2>2. QED BY <1>1, <1>3, <2>1
<1>5. QED BY <1>1, <1>4 DEF Semi

LEMMA FirstIs ==
    ASSUME NEW S, NEW buf \in Seq(S), HasStatement(buf)
    PROVE  /\ First(buf) \in Seq(S) /\ Len(First(buf)) = Semi(buf)
           /\ \A i \in 1 .. Semi(buf) : First(buf)[i] = buf[i]
           /\ AfterFirst(buf) \in Seq(S) /\ Len(AfterFirst(buf)) = Len(buf) - Semi(buf)
           /\ \A i \in 1 .. Len(buf) - Semi(buf) : AfterFirst(buf)[i] = buf[Semi(buf) + i]
<1> DEFINE k == Semi(buf)
           n == Len(buf)
<1>1. n \in Nat /\ \A i \in 1 .. n : buf[i] \in S
  BY LenProperties, ElementOfSeq
<1>2. k \in 1 .. n
  BY SemiIs
<1> HIDE DEF k, n
<1>3. /\ SubSeq(buf, 1, k) \in Seq(S) /\ Len(SubSeq(buf, 1, k)) = k
      /\ \A i \in 1 .. k : SubSeq(buf, 1, k)[i] = buf[i]
  <2>1. \A i \in 1 .. k : buf[i] \in S
    BY <1>1, <1>2
  <2>2. /\ SubSeq(buf, 1, k) \in Seq(S) /\ Len(SubSeq(buf, 1, k)) = IF 1 <= k THEN k - 1 + 1 ELSE 0
        /\ \A i \in 1 .. k - 1 + 1 : SubSeq(buf, 1, k)[i] = buf[1 + i - 1]
    BY <1>2, <2>1, SubSeqProperties
  <2>3. QED BY <1>1, <1>2, <2>2
<1>4. /\ SubSeq(buf, k + 1, n) \in Seq(S) /\ Len(SubSeq(buf, k + 1, n)) = n - k
      /\ \A i \in 1 .. n - k : SubSeq(buf, k + 1, n)[i] = buf[k + i]
  <2>1. \A i \in k + 1 .. n : buf[i] \in S
    BY <1>1, <1>2
  <2>2. /\ SubSeq(buf, k + 1, n) \in Seq(S)
        /\ Len(SubSeq(buf, k + 1, n)) = IF k + 1 <= n THEN n - (k + 1) + 1 ELSE 0
        /\ \A i \in 1 .. n - (k + 1) + 1 : SubSeq(buf, k + 1, n)[i] = buf[k + 1 + i - 1]
    BY <1>1, <1>2, <2>1, SubSeqProperties
  <2>3. QED BY <1>1, <1>2, <2>2
<1>5. QED BY <1>3, <1>4 DEF First, AfterFirst, k, n

LEMMA FirstIsText ==
    ASSUME NEW p, NEW buf \in Seq(Unit(p)), HasStatement(buf)
    PROVE  First(buf) \in Text(p) /\ AfterFirst(buf) \in Seq(Unit(p))
<1>1. Semi(buf) \in 1 .. Len(buf) /\ buf[Semi(buf)] = End /\ Len(buf) \in Nat
      /\ \A j \in 1 .. Semi(buf) - 1 : buf[j] # End
  BY SemiIs, LenProperties
<1>2. /\ First(buf) \in Seq(Unit(p)) /\ Len(First(buf)) = Semi(buf)
      /\ \A i \in 1 .. Semi(buf) : First(buf)[i] = buf[i]
      /\ AfterFirst(buf) \in Seq(Unit(p))
  BY FirstIs
<1>3. Len(First(buf)) > 0 /\ First(buf)[Len(First(buf))] = End
      /\ \A i \in 1 .. Len(First(buf)) - 1 : First(buf)[i] # End
  BY <1>1, <1>2
<1>4. QED BY <1>2, <1>3 DEF Text

\* The plans of statements, and what running them does.
LEMMA PlanTypes ==
    ASSUME NEW s \in Tree
    PROVE  /\ Effect(plan_query(s)) \in Answer
           /\ Cacheable(s) => plan_query(s) \in Planned
           /\ Cacheable(s) => \A t \in Planned : Effect(clone_and_rebind(t, s)) \in Answer
<1>1. Effect(plan_query(s)) \in Answer
  BY DEF Tree, Effect, plan_query, Answer
<1>2. Cacheable(s) => plan_query(s) \in Planned
  BY DEF Tree, Cacheable, identify_pattern, plan_query, Planned
<1>3. ASSUME Cacheable(s), NEW t \in Planned PROVE Effect(clone_and_rebind(t, s)) \in Answer
  <2>1. clone_and_rebind(t, s) \in Planned
    <3>1. CASE s.pattern = "update"
      BY <3>1 DEF clone_and_rebind, clone_rebind_update, Planned, Tree
    <3>2. CASE s.pattern = "delete"
      BY <3>2 DEF clone_and_rebind, clone_rebind_delete, Planned, Tree
    <3>3. CASE s.pattern = "select"
      BY <3>3 DEF clone_and_rebind, clone_rebind_select, Planned, Tree
    <3>4. CASE s.pattern = "insert"
      BY <3>4 DEF clone_and_rebind, clone_rebind_insert, Planned, Tree
    <3>5. QED BY <1>3, <3>1, <3>2, <3>3, <3>4 DEF Cacheable, identify_pattern, Patterns
  <2> DEFINE r == clone_and_rebind(t, s)
  <2> HIDE DEF r
  <2>2. ASSUME r \in Planned PROVE Effect(r) \in Answer
    <3>1. r.pattern \in Patterns /\ r.tab \in STRING /\ r.where \in STRING
          /\ r.key \in Int /\ r.val \in Int /\ r.scan \in Int
      BY <2>2 DEF Planned
    <3>2. QED BY <3>1 DEF Effect, Answer
  <2>3. QED BY <2>1, <2>2 DEF r
<1>4. QED BY <1>1, <1>2, <1>3

LEMMA StatementIs ==
    ASSUME NEW p \in Plans, NEW s \in StmtsOf(p), s # Broken
    PROVE  s \in Tree /\ (try_fast_path(s) => Cacheable(s))
BY PlanFacts DEF Statement

LEMMA NotPlanned == NoPlan \notin Planned /\ Broken \notin Planned
BY DEF NoPlan, Planned, Broken, Patterns

LEMMA WorkerIs ==
    ASSUME Base, NEW w \in Workers
    PROVE  /\ wk \in [Workers -> Worker(plan)] /\ wk[w] \in Worker(plan) /\ plan \in Plans
           /\ wk[w].sql \in Seq(Unit(plan)) /\ wk[w].plan \in Answer \cup {NoPlan}
           /\ wk[w].cache \in Caches(plan)
BY DEF Base, WorkerTypes, ClientTypes, Worker

\* A worker takes its statement, and leaves the pool, without the latches.
LEMMA PoolStepKeeps ==
    ASSUME Base, pool_step, WorkerTypes', Latches',
           queue' \in Seq([conn_fd : Fds, sql : Text(plan)])
    PROVE  Base'
<1>1. ClientTypes' /\ Files' /\ OneConnection' /\ IoTypes'
  BY DEF Base, pool_step, ClientTypes, Files, OneConnection, IoTypes
<1>2. PoolTypes'
  BY DEF Base, pool_step, PoolTypes
<1>3. QED BY <1>1, <1>2 DEF Base

LEMMA IdleIs ==
    ASSUME NEW p, NEW cache \in Caches(p)
    PROVE  [Idle EXCEPT !.cache = cache] \in Worker(p)
           /\ [Idle EXCEPT !.cache = cache].pc = "top" /\ [Idle EXCEPT !.cache = cache].cache = cache
           /\ [p2 \in Patterns |-> NoPlan] \in Caches(p)
<1>1. 0 \in 0 .. MaxFd
  BY SizesAssumption
<1>2. <<>> \in Seq(Unit(p))
  BY EmptySeq
<1>3. [Idle EXCEPT !.cache = cache] \in Worker(p)
  BY <1>1, <1>2 DEF Idle, Worker, WorkerPcs
<1>4. [p2 \in Patterns |-> NoPlan] \in Caches(p)
  BY DEF Caches
<1>5. QED BY <1>3, <1>4 DEF Idle

LEMMA PoolMoves ==
    ASSUME Base, NEW w \in Workers,
           WorkerTest(w) \/ WorkerStops(w) \/ WorkerFalls(w) \/ WorkerSleeps(w) \/ Commit(w)
    PROVE  Base'
<1>1. wk \in [Workers -> Worker(plan)] /\ wk[w] \in Worker(plan) /\ wk[w].cache \in Caches(plan)
      /\ plan \in Plans
  BY WorkerIs
<1>2. pool_step /\ queue' = queue /\ parser' = parser /\ plan' = plan /\ file' = file
      /\ conn_mutex' = conn_mutex /\ wk[w].pc \notin {"respond", "analyze"}
  BY DEF WorkerTest, WorkerStops, WorkerFalls, WorkerSleeps, Commit, pool_step, Pc
<1>3. \E x \in Worker(plan) :
        wk' = [wk EXCEPT ![w] = x] /\ x.pc \notin Working \cup {"respond"}
  <2>1. CASE Commit(w)
    <3>1. wk' = [wk EXCEPT ![w] = [Idle EXCEPT !.cache = wk[w].cache]]
      BY <2>1 DEF Commit
    <3>2. QED BY <1>1, <3>1, IdleIs DEF Working
  <2>2. CASE ~ Commit(w)
    <3>1. PICK pc \in {"gone", "ready", "falling", "overslept", "asleep"} : wk' = WkTo(w, pc)
      BY <2>2 DEF WorkerTest, WorkerStops, WorkerFalls, WorkerSleeps
    <3>2. wk' = [wk EXCEPT ![w] = [wk[w] EXCEPT !.pc = pc]]
      BY <3>1 DEF WkTo
    <3>3. [wk[w] EXCEPT !.pc = pc] \in Worker(plan) /\ [wk[w] EXCEPT !.pc = pc].pc = pc
      BY <1>1 DEF Worker, WorkerPcs
    <3>4. QED BY <3>2, <3>3 DEF Working
  <2>3. QED BY <2>1, <2>2
<1>4. WorkerTypes' /\ Latches'
  BY <1>2, <1>3, WorkerMoves DEF Working
<1>5. QED BY <1>2, <1>4, PoolStepKeeps DEF Base, PoolTypes

LEMMA TakesKeeps ==
    ASSUME Base, NEW w \in Workers, WorkerTakes(w)
    PROVE  Base'
<1> DEFINE t == Head(queue)
           x == [wk[w] EXCEPT !.pc = "begin", !.fd = t.conn_fd, !.who = file[t.conn_fd], !.sql = t.sql]
<1>1. wk \in [Workers -> Worker(plan)] /\ wk[w] \in Worker(plan) /\ plan \in Plans
  BY WorkerIs
<1>2. queue \in Seq([conn_fd : Fds, sql : Text(plan)]) /\ queue # <<>>
  BY DEF Base, PoolTypes, WorkerTakes
<1>3. t \in [conn_fd : Fds, sql : Text(plan)] /\ Tail(queue) \in Seq([conn_fd : Fds, sql : Text(plan)])
  BY <1>2, HeadTailProperties
<1>4. t.conn_fd \in Fds /\ t.sql \in Text(plan) /\ t.sql \in Seq(Unit(plan))
      /\ file[t.conn_fd] \in Clients \cup {NoClient} /\ t.conn_fd \in 0 .. MaxFd
  BY <1>3, SizesAssumption DEF Text, Base, Files, Fds
<1>5. wk' = [wk EXCEPT ![w] = x] /\ queue' = Tail(queue) /\ pool_step /\ parser' = parser
      /\ wk[w].pc = "ready"
  BY DEF WorkerTakes, Pc
<1>6. x \in Worker(plan) /\ x.pc = "begin" /\ x.fd = t.conn_fd /\ x.sql = t.sql
  BY <1>1, <1>4 DEF Worker, WorkerPcs, Working
<1> HIDE DEF x
<1>7. WorkerTypes' /\ Latches'
  BY <1>4, <1>5, <1>6, WorkerMoves DEF Working, pool_step
<1>8. QED BY <1>3, <1>5, <1>7, PoolStepKeeps

LEMMA FromCacheIs ==
    ASSUME Base, NEW w \in Workers, FromCache(w)
    PROVE  LET s == Parsed(wk[w].sql)
               t == wk[w].cache[s.pattern]
           IN  /\ s \in StmtsOf(plan) \ {Broken} /\ s \in Tree /\ Cacheable(s) /\ t \in Planned
               /\ \E m \in StmtsOf(plan) \ {Broken} : m.pattern = s.pattern /\ t = plan_query(m)
               /\ wk' = [wk EXCEPT ![w] = [wk[w] EXCEPT !.pc = "answer",
                                                       !.plan = Effect(clone_and_rebind(t, s))]]
<1> DEFINE s == Parsed(wk[w].sql)
           t == wk[w].cache[s.pattern]
<1>1. wk[w].sql \in Text(plan) /\ wk[w].cache \in Caches(plan) /\ plan \in Plans
  BY WorkerIs DEF FromCache, Base, WorkerTypes
<1>2. try_fast_path(s) /\ t # NoPlan
  BY DEF FromCache, Cached
<1>3. s \in StmtsOf(plan) \cup {Broken}
  BY <1>1, ParsedIs
<1>4. s # Broken
  BY <1>2, BrokenIs
<1>5. s \in Tree /\ Cacheable(s)
  BY <1>1, <1>2, <1>3, <1>4, StatementIs
<1>6. s.pattern \in Patterns
  BY <1>5 DEF Cacheable, identify_pattern
<1>7. t \in Planned /\ \E m \in StmtsOf(plan) \ {Broken} : m.pattern = s.pattern /\ t = plan_query(m)
  BY <1>1, <1>2, <1>6 DEF Caches
<1>8. wk' = [wk EXCEPT ![w] = [wk[w] EXCEPT !.pc = "answer", !.plan = Effect(clone_and_rebind(t, s))]]
  BY DEF FromCache
<1>9. QED BY <1>3, <1>4, <1>5, <1>7, <1>8

LEMMA FromCacheKeeps ==
    ASSUME Base, NEW w \in Workers, FromCache(w)
    PROVE  Base'
<1>1. PICK s, t : /\ s \in Tree /\ Cacheable(s) /\ t \in Planned
                  /\ wk' = [wk EXCEPT ![w] = [wk[w] EXCEPT !.pc = "answer",
                                                          !.plan = Effect(clone_and_rebind(t, s))]]
  BY FromCacheIs
<1> DEFINE x == [wk[w] EXCEPT !.pc = "answer", !.plan = Effect(clone_and_rebind(t, s))]
<1>2. Effect(clone_and_rebind(t, s)) \in Answer
  BY <1>1, PlanTypes
<1>3. wk[w] \in Worker(plan) /\ wk[w].pc = "begin" /\ wk[w].fd \in Fds
  BY WorkerIs DEF FromCache, Base, WorkerTypes, Pc, Working
<1>4. x \in Worker(plan) /\ x.pc = "answer" /\ x.fd \in Fds /\ x.plan \in Answer
  BY <1>2, <1>3 DEF Worker, WorkerPcs, Working
<1>5. pool_step /\ queue' = queue /\ parser' = parser
  BY DEF FromCache
<1> HIDE DEF x
<1>6. WorkerTypes' /\ Latches'
  BY <1>1, <1>3, <1>4, <1>5, WorkerMoves DEF pool_step, x
<1>7. QED BY <1>5, <1>6, PoolStepKeeps DEF Base, PoolTypes

LEMMA ParseKeeps ==
    ASSUME Base, NEW w \in Workers, Parse(w)
    PROVE  Base'
<1> DEFINE s == Parsed(wk[w].sql)
<1>1. wk \in [Workers -> Worker(plan)] /\ wk[w] \in Worker(plan) /\ plan \in Plans
  BY WorkerIs
<1>2. pool_step /\ queue' = queue /\ wk[w].pc = "begin" /\ parser.holder = Free
  BY DEF Parse, Pc
<1>3. wk[w].fd \in Fds /\ wk[w].sql \in Text(plan)
  BY <1>2 DEF Base, WorkerTypes, Pc, Working
<1>4. s \in StmtsOf(plan) \cup {Broken}
  BY <1>1, <1>3, ParsedIs
<1>5. parser \in [holder : {Free} \cup Workers, tree : StmtsOf(plan) \cup {Broken}]
      /\ conn_mutex \in {Free, IoThread} \cup Workers /\ conn_mutex # w
      /\ \A v \in Workers : parser.holder # v
  BY <1>2, NamesAssumption DEF Base, Latches, Pc
<1>6. PICK pc \in {"answer", "analyze"} :
        /\ pc = "answer" => s = Broken /\ parser' = [parser EXCEPT !.tree = Broken]
                            /\ wk' = [wk EXCEPT ![w] = [wk[w] EXCEPT !.pc = "answer", !.plan = Broken]]
        /\ pc = "analyze" => /\ s # Broken /\ wk' = [wk EXCEPT ![w] = [wk[w] EXCEPT !.pc = "analyze"]]
                             /\ parser' = [holder |-> w,
                                           tree |-> IF try_fast_path(s) THEN parser.tree ELSE s]
  <2>1. CASE s = Broken
    BY <2>1 DEF Parse
  <2>2. CASE s # Broken
    BY <2>2 DEF Parse, WkTo
  <2>3. QED BY <2>1, <2>2
<1> HIDE DEF s
<1>7. /\ wk' \in [Workers -> Worker(plan)] /\ wk'[w].pc = pc /\ wk'[w].fd = wk[w].fd
      /\ wk'[w].sql = wk[w].sql /\ (pc = "answer" => wk'[w].plan \in Answer)
      /\ \A v \in Workers \ {w} : wk'[v] = wk[v]
  <2>1. CASE pc = "answer"
    <3> DEFINE x == [wk[w] EXCEPT !.pc = "answer", !.plan = Broken]
    <3>1. x \in Worker(plan) /\ x.pc = pc /\ x.fd = wk[w].fd /\ x.sql = wk[w].sql /\ x.plan \in Answer
      BY <1>1, <2>1 DEF Worker, WorkerPcs, Working, Answer
    <3>2. wk' = [wk EXCEPT ![w] = x]
      BY <1>6, <2>1
    <3> HIDE DEF x
    <3>3. QED BY <1>1, <3>1, <3>2
  <2>2. CASE pc = "analyze"
    <3> DEFINE x == [wk[w] EXCEPT !.pc = "analyze"]
    <3>1. x \in Worker(plan) /\ x.pc = pc /\ x.fd = wk[w].fd /\ x.sql = wk[w].sql
      BY <1>1, <2>2 DEF Worker, WorkerPcs, Working
    <3>2. wk' = [wk EXCEPT ![w] = x]
      BY <1>6, <2>2
    <3> HIDE DEF x
    <3>3. QED BY <1>1, <2>2, <3>1, <3>2
  <2>3. QED BY <2>1, <2>2
<1>8. OthersNudged(w)
  BY <1>7 DEF OthersNudged, Nudge
<1>9. plan' = plan /\ file' = file /\ conn_mutex' = conn_mutex
  BY <1>2 DEF pool_step
<1>10. WorkerTypes'
  BY <1>3, <1>7, <1>8, <1>9, WorkersMove
<1>11. /\ parser' \in [holder : {Free} \cup Workers, tree : StmtsOf(plan) \cup {Broken}]
       /\ parser'.holder = w <=> pc = "analyze"
       /\ \A v \in Workers \ {w} : parser'.holder # v
       /\ (pc = "analyze" => s # Broken /\ (try_fast_path(s) \/ parser'.tree = s))
  <2>1. CASE pc = "answer"
    BY <1>5, <1>6, <2>1
  <2>2. CASE pc = "analyze"
    BY <1>4, <1>5, <1>6, <2>2
  <2>3. QED BY <2>1, <2>2
<1>12. Latches'
  <2>1. \A v \in Workers \ {w} :
             /\ conn_mutex' = v <=> conn_mutex = v
             /\ parser'.holder = v <=> parser.holder = v
             /\ parser.holder = v => parser'.tree = parser.tree
    BY <1>5, <1>9, <1>11
  <2>2. conn_mutex' \in {Free, IoThread} \cup Workers /\ conn_mutex' # w
    BY <1>5, <1>9
  <2>3. /\ wk'[w].pc = "respond" <=> conn_mutex' = w
        /\ wk'[w].pc = "respond" => wk'[w].fd \in OpenIn(file)
        /\ wk'[w].pc = "analyze" <=> parser'.holder = w
    BY <1>7, <1>11, <2>2
  <2>4. wk'[w].pc = "analyze" =>
            LET t == Parsed(wk'[w].sql) IN t # Broken /\ (try_fast_path(t) \/ parser'.tree = t)
    <3>1. Parsed(wk'[w].sql) = s
      BY <1>7 DEF s
    <3>2. CASE pc = "analyze"
      <4>1. s # Broken /\ (try_fast_path(s) \/ parser'.tree = s)
        BY <1>11, <3>2
      <4>2. QED BY <3>1, <4>1
    <3>3. QED BY <1>7, <3>2
  <2>5. QED BY <1>8, <1>9, <1>11, <2>1, <2>2, <2>3, <2>4, LatchesMove
<1>13. QED BY <1>2, <1>10, <1>12, PoolStepKeeps DEF Base, PoolTypes

LEMMA AnalyzeIs ==
    ASSUME Base, NEW w \in Workers, Analyze(w)
    PROVE  LET s == Parsed(wk[w].sql)
               old == wk[w].cache
               new == wk'[w].cache
           IN  /\ s \in StmtsOf(plan) \ {Broken} /\ s \in Tree
               /\ parser.holder = w /\ parser' = [parser EXCEPT !.holder = Free]
               /\ wk' = [wk EXCEPT ![w] = [wk[w] EXCEPT !.pc = "answer", !.plan = Effect(plan_query(s)),
                            !.cache = IF Cacheable(s) /\ old[s.pattern] = NoPlan
                                      THEN [old EXCEPT ![s.pattern] = plan_query(s)] ELSE old]]
<1> DEFINE s == Parsed(wk[w].sql)
<1>1. wk[w].pc = "analyze" /\ plan \in Plans
  BY WorkerIs DEF Analyze, Pc
<1>2. wk[w].sql \in Text(plan)
  BY <1>1 DEF Base, WorkerTypes, Pc
<1>3. s # Broken /\ (try_fast_path(s) \/ parser.tree = s) /\ parser.holder = w
  BY <1>1 DEF Base, Latches, Pc
<1>4. s \in StmtsOf(plan) \ {Broken} /\ s \in Tree
  BY <1>1, <1>2, <1>3, ParsedIs, StatementIs
<1>5. LocalAst(w) = s
  BY <1>3 DEF LocalAst
<1>6. QED BY <1>3, <1>4, <1>5 DEF Analyze

LEMMA AnalyzeKeeps ==
    ASSUME Base, NEW w \in Workers, Analyze(w)
    PROVE  Base'
<1>1. wk \in [Workers -> Worker(plan)] /\ wk[w] \in Worker(plan) /\ plan \in Plans
      /\ wk[w].cache \in Caches(plan)
  BY WorkerIs
<1> DEFINE s == Parsed(wk[w].sql)
           old == wk[w].cache
           new == IF Cacheable(s) /\ old[s.pattern] = NoPlan
                  THEN [old EXCEPT ![s.pattern] = plan_query(s)] ELSE old
           x == [wk[w] EXCEPT !.pc = "answer", !.plan = Effect(plan_query(s)), !.cache = new]
<1>2. /\ s \in StmtsOf(plan) \ {Broken} /\ s \in Tree /\ parser.holder = w
      /\ parser' = [parser EXCEPT !.holder = Free] /\ wk' = [wk EXCEPT ![w] = x]
  BY AnalyzeIs
<1> HIDE DEF s
<1>3. Effect(plan_query(s)) \in Answer /\ (Cacheable(s) => plan_query(s) \in Planned)
  BY <1>2, PlanTypes
<1>4. new \in Caches(plan)
  <2>1. CASE Cacheable(s) /\ old[s.pattern] = NoPlan
    <3>1. plan_query(s) \in Planned /\ s.pattern \in Patterns
      BY <1>3, <2>1 DEF Cacheable, identify_pattern
    <3>2. new \in [Patterns -> Planned \cup {NoPlan}]
      BY <1>1, <2>1, <3>1 DEF Caches
    <3>3. ASSUME NEW y \in Patterns
          PROVE  \/ new[y] = NoPlan
                 \/ \E m \in StmtsOf(plan) \ {Broken} : m.pattern = y /\ new[y] = plan_query(m)
      BY <1>1, <1>2, <2>1, <3>1, <3>2 DEF Caches
    <3>4. QED BY <3>2, <3>3 DEF Caches
  <2>2. CASE ~(Cacheable(s) /\ old[s.pattern] = NoPlan)
    BY <1>1, <2>2
  <2>3. QED BY <2>1, <2>2
<1> HIDE DEF new
<1>5. x \in Worker(plan) /\ x.pc = "answer" /\ x.plan \in Answer /\ x.fd = wk[w].fd
  BY <1>1, <1>3, <1>4 DEF Worker, WorkerPcs, Working
<1>6. wk[w].pc = "analyze" /\ wk[w].fd \in Fds /\ pool_step /\ queue' = queue
  BY DEF Analyze, Pc, Base, WorkerTypes, Working
<1> HIDE DEF x
<1>7. wk' \in [Workers -> Worker(plan)] /\ wk'[w] = x /\ \A v \in Workers \ {w} : wk'[v] = wk[v]
  BY <1>1, <1>2, <1>5
<1>8. OthersNudged(w)
  BY <1>7 DEF OthersNudged, Nudge
<1>9. plan' = plan /\ file' = file /\ conn_mutex' = conn_mutex
  BY <1>6 DEF pool_step
<1>10. WorkerTypes'
  BY <1>5, <1>6, <1>7, <1>8, <1>9, WorkersMove
<1>11. parser \in [holder : {Free} \cup Workers, tree : StmtsOf(plan) \cup {Broken}]
       /\ conn_mutex \in {Free, IoThread} \cup Workers /\ conn_mutex # w
  BY <1>6 DEF Base, Latches, Pc
<1>12. parser' \in [holder : {Free} \cup Workers, tree : StmtsOf(plan) \cup {Broken}]
       /\ parser'.holder = Free
  BY <1>2, <1>11
<1>13. \A v \in Workers : v # Free
  BY NamesAssumption
<1>14. Latches'
  <2>1. \A v \in Workers \ {w} :
             /\ conn_mutex' = v <=> conn_mutex = v
             /\ parser'.holder = v <=> parser.holder = v
             /\ parser.holder = v => parser'.tree = parser.tree
    BY <1>2, <1>9, <1>12, <1>13
  <2>2. /\ wk'[w].pc = "respond" <=> conn_mutex' = w
        /\ wk'[w].pc = "respond" => wk'[w].fd \in OpenIn(file)
        /\ wk'[w].pc = "analyze" <=> parser'.holder = w
        /\ wk'[w].pc = "analyze" =>
              LET t == Parsed(wk'[w].sql) IN t # Broken /\ (try_fast_path(t) \/ parser'.tree = t)
    BY <1>5, <1>7, <1>9, <1>11, <1>12, <1>13
  <2>3. conn_mutex' \in {Free, IoThread} \cup Workers
    BY <1>9, <1>11
  <2>4. QED BY <1>8, <1>9, <1>12, <2>1, <2>2, <2>3, LatchesMove
<1>15. QED BY <1>6, <1>10, <1>14, PoolStepKeeps DEF Base, PoolTypes

\* A connection of the server, found by its descriptor.
LEMMA ConnIs ==
    ASSUME Base, NEW fd \in OpenIn(file)
    PROVE  /\ conns[fd] \in Connection(plan) /\ conns \in [OpenIn(file) -> Connection(plan)]
           /\ conns[fd].read_buf \in Seq(Unit(plan)) /\ conns[fd].write_buf \in Seq(Answer)
           /\ fd \in Fds /\ file[fd] \in Clients
BY DEF Base, Files, Connection, OpenIn

LEMMA ConnKeeps ==
    ASSUME Base, NEW fd \in OpenIn(file), NEW y \in Connection(plan),
           conns' = [conns EXCEPT ![fd] = y], file' = file, plan' = plan,
           EpOK(ep', OpenIn(file))
    PROVE  Files'
BY DEF Base, Files

LEMMA SubmitIs ==
    ASSUME Base, NEW fd \in Fds, NEW sql \in Text(plan), NEW ws \in [Workers -> Worker(plan)],
           submit(fd, sql, ws)
    PROVE  /\ queue' \in Seq([conn_fd : Fds, sql : Text(plan)])
           /\ wk' \in [Workers -> Worker(plan)]
           /\ \A w \in Workers : Nudge(ws[w], wk'[w])
<1>1. queue \in Seq([conn_fd : Fds, sql : Text(plan)])
  BY DEF Base, PoolTypes
<1>2. CASE stop
  BY <1>1, <1>2 DEF submit, Nudge
<1>3. CASE ~ stop
  <2>1. queue' = Append(queue, [conn_fd |-> fd, sql |-> sql]) /\ wk' \in NotifyOne(ws)
    BY <1>3 DEF submit
  <2>2. queue' \in Seq([conn_fd : Fds, sql : Text(plan)])
    BY <1>1, <2>1, AppendProperties
  <2>3. DOMAIN wk' = Workers /\ wk' = [w \in Workers |-> wk'[w]]
        /\ \A w \in Workers : Nudge(ws[w], wk'[w])
    BY <2>1, NotifyNudges
  <2>4. \A w \in Workers : wk'[w] \in Worker(plan)
    BY <2>3, NudgeTypes
  <2>5. QED BY <2>2, <2>3, <2>4
<1>4. QED BY <1>2, <1>3

LEMMA TakenIs ==
    ASSUME Base, NEW fd \in OpenIn(file), HasStatement(conns[fd].read_buf)
    PROVE  /\ First(conns[fd].read_buf) \in Text(plan)
           /\ [conns[fd] EXCEPT !.read_buf = AfterFirst(@), !.busy = TRUE] \in Connection(plan)
           /\ Taken(fd) = [conns EXCEPT ![fd] =
                             [conns[fd] EXCEPT !.read_buf = AfterFirst(@), !.busy = TRUE]]
<1>1. conns[fd] \in Connection(plan) /\ conns[fd].read_buf \in Seq(Unit(plan))
  BY ConnIs
<1>2. First(conns[fd].read_buf) \in Text(plan) /\ AfterFirst(conns[fd].read_buf) \in Seq(Unit(plan))
  BY <1>1, FirstIsText
<1>3. [conns[fd] EXCEPT !.read_buf = AfterFirst(@), !.busy = TRUE] \in Connection(plan)
  BY <1>1, <1>2 DEF Connection
<1>4. QED BY <1>2, <1>3 DEF Taken

LEMMA RespondIs ==
    ASSUME Base, NEW w \in Workers, Respond(w)
    PROVE  /\ wk[w].pc = "answer" /\ wk[w].fd \in Fds /\ wk[w].plan \in Answer /\ conn_mutex = Free
           /\ UNCHANGED <<plan, cl, sock, file, backlog, ep, running, io, queue, stop, parser, reused>>
           /\ \/ /\ wk[w].fd \in OpenIn(file)
                 /\ conns' = [conns EXCEPT ![wk[w].fd] =
                       [conns[wk[w].fd] EXCEPT !.write_buf = Append(@, wk[w].plan), !.busy = FALSE]]
                 /\ conn_mutex' = w
                 /\ wk' = [wk EXCEPT ![w] = [wk[w] EXCEPT !.pc = "respond"]]
              \/ /\ wk[w].fd \notin OpenIn(file)
                 /\ wk' = [wk EXCEPT ![w] = [wk[w] EXCEPT !.pc = "commit"]]
                 /\ conns' = conns /\ conn_mutex' = conn_mutex
<1>1. DOMAIN conns = OpenIn(file)
  BY DEF Base, Files
<1>2. wk[w].pc = "answer" /\ conn_mutex = Free
      /\ UNCHANGED <<plan, cl, sock, file, backlog, ep, running, io, queue, stop, parser, reused>>
  BY DEF Respond, Pc
<1>3. wk[w].fd \in Fds /\ wk[w].plan \in Answer
  BY <1>2 DEF Base, WorkerTypes, Pc, Working
<1>4. CASE wk[w].fd \in OpenIn(file)
  <2>1. /\ conns' = [conns EXCEPT ![wk[w].fd].write_buf = Append(@, wk[w].plan),
                                  ![wk[w].fd].busy = FALSE]
        /\ conn_mutex' = w /\ wk' = WkTo(w, "respond")
    BY <1>1, <1>4 DEF Respond
  <2>2. conns \in [OpenIn(file) -> Connection(plan)] /\ conns[wk[w].fd] \in Connection(plan)
    BY <1>4, ConnIs
  <2>3. conns' = [conns EXCEPT ![wk[w].fd] =
                    [conns[wk[w].fd] EXCEPT !.write_buf = Append(@, wk[w].plan), !.busy = FALSE]]
    BY <1>4, <2>1, <2>2 DEF Connection
  <2>4. QED BY <1>2, <1>3, <1>4, <2>1, <2>3 DEF WkTo
<1>5. CASE wk[w].fd \notin OpenIn(file)
  <2>1. wk' = WkTo(w, "commit") /\ conns' = conns /\ conn_mutex' = conn_mutex
    BY <1>1, <1>5 DEF Respond
  <2>2. QED BY <1>2, <1>3, <1>5, <2>1 DEF WkTo
<1>6. QED BY <1>4, <1>5

LEMMA RespondKeeps ==
    ASSUME Base, NEW w \in Workers, Respond(w)
    PROVE  Base'
<1>1. wk \in [Workers -> Worker(plan)] /\ wk[w] \in Worker(plan)
  BY WorkerIs
<1>2. /\ wk[w].pc = "answer" /\ wk[w].fd \in Fds /\ wk[w].plan \in Answer /\ conn_mutex = Free
      /\ UNCHANGED <<plan, cl, sock, file, backlog, ep, running, io, queue, stop, parser, reused>>
  BY RespondIs
<1>3. PICK pc \in {"respond", "commit"} :
        /\ wk' = [wk EXCEPT ![w] = [wk[w] EXCEPT !.pc = pc]]
        /\ pc = "respond" => wk[w].fd \in OpenIn(file) /\ conn_mutex' = w
        /\ pc = "commit" => conn_mutex' = Free
  BY RespondIs
<1>4. Files'
  <2>1. CASE wk[w].fd \in OpenIn(file)
    <3> DEFINE y == [conns[wk[w].fd] EXCEPT !.write_buf = Append(@, wk[w].plan), !.busy = FALSE]
    <3>1. conns' = [conns EXCEPT ![wk[w].fd] = y]
      BY <2>1, RespondIs
    <3>2. conns[wk[w].fd] \in Connection(plan) /\ conns[wk[w].fd].write_buf \in Seq(Answer)
      BY <2>1, ConnIs
    <3>3. Append(conns[wk[w].fd].write_buf, wk[w].plan) \in Seq(Answer)
      BY <1>2, <3>2, AppendProperties
    <3>4. y \in Connection(plan)
      BY <3>2, <3>3 DEF Connection
    <3>5. EpOK(ep', OpenIn(file))
      BY <1>2 DEF Base, Files
    <3>6. QED BY <1>2, <2>1, <3>1, <3>4, <3>5, ConnKeeps
  <2>2. CASE wk[w].fd \notin OpenIn(file)
    BY <1>2, <2>2, RespondIs DEF Base, Files
  <2>3. QED BY <2>1, <2>2
<1>5. ClientTypes' /\ OneConnection' /\ IoTypes' /\ PoolTypes'
  BY <1>2 DEF Base, ClientTypes, OneConnection, IoTypes, PoolTypes
<1> DEFINE x == [wk[w] EXCEPT !.pc = pc]
<1>6. x \in Worker(plan) /\ x.pc = pc /\ x.fd = wk[w].fd
  BY <1>1 DEF Worker, WorkerPcs
<1>7. wk' = [wk EXCEPT ![w] = x]
  BY <1>3
<1> HIDE DEF x
<1>8. wk' \in [Workers -> Worker(plan)] /\ wk'[w] = x /\ \A v \in Workers \ {w} : wk'[v] = wk[v]
  BY <1>1, <1>6, <1>7
<1>9. OthersNudged(w)
  BY <1>8 DEF OthersNudged, Nudge
<1>10. WorkerTypes'
  BY <1>2, <1>6, <1>8, <1>9, WorkersMove DEF Working
<1>11. /\ parser \in [holder : {Free} \cup Workers, tree : StmtsOf(plan) \cup {Broken}]
       /\ parser.holder # w
  BY <1>2 DEF Base, Latches, Pc
<1>12. \A v \in Workers : v # Free
  BY NamesAssumption
<1>13. conn_mutex' \in {Free, IoThread} \cup Workers
  BY <1>3
<1>14. \A v \in Workers \ {w} :
             /\ conn_mutex' = v <=> conn_mutex = v
             /\ parser'.holder = v <=> parser.holder = v
             /\ parser.holder = v => parser'.tree = parser.tree
  BY <1>2, <1>3, <1>12
<1>15. /\ wk'[w].pc = "respond" <=> conn_mutex' = w
       /\ wk'[w].pc = "respond" => wk'[w].fd \in OpenIn(file)
       /\ wk'[w].pc = "analyze" <=> parser'.holder = w
       /\ wk'[w].pc # "analyze"
  BY <1>2, <1>3, <1>6, <1>8, <1>11, <1>12
<1>16. parser' \in [holder : {Free} \cup Workers, tree : StmtsOf(plan) \cup {Broken}]
  BY <1>2, <1>11
<1>17. Latches'
  BY <1>2, <1>9, <1>13, <1>14, <1>15, <1>16, LatchesMove
<1>18. QED BY <1>4, <1>5, <1>10, <1>17 DEF Base

LEMMA RespondNextIs ==
    ASSUME Base, NEW w \in Workers, RespondNext(w)
    PROVE  /\ wk[w].pc = "respond" /\ wk[w].fd \in OpenIn(file) /\ conn_mutex = w /\ conn_mutex' = Free
           /\ ep' = Arm(ep, Notify)
           /\ UNCHANGED <<plan, cl, sock, file, backlog, running, io, stop, parser, reused>>
           /\ \/ /\ HasStatement(conns[wk[w].fd].read_buf)
                 /\ conns' = Taken(wk[w].fd)
                 /\ submit(wk[w].fd, First(conns[wk[w].fd].read_buf), WkTo(w, "commit"))
              \/ /\ ~ HasStatement(conns[wk[w].fd].read_buf)
                 /\ wk' = WkTo(w, "commit") /\ queue' = queue /\ conns' = conns
<1>1. wk[w].pc = "respond" /\ conn_mutex' = Free /\ ep' = Arm(ep, Notify)
      /\ UNCHANGED <<plan, cl, sock, file, backlog, running, io, stop, parser, reused>>
  BY DEF RespondNext, Pc
<1>2. wk[w].fd \in OpenIn(file) /\ conn_mutex = w
  BY <1>1 DEF Base, Latches, Pc
<1>3. CASE HasStatement(conns[wk[w].fd].read_buf)
  BY <1>1, <1>2, <1>3 DEF RespondNext
<1>4. CASE ~ HasStatement(conns[wk[w].fd].read_buf)
  BY <1>1, <1>2, <1>4 DEF RespondNext
<1>5. QED BY <1>3, <1>4

LEMMA RespondNextKeeps ==
    ASSUME Base, NEW w \in Workers, RespondNext(w)
    PROVE  Base'
<1> DEFINE fd == wk[w].fd
           ws == WkTo(w, "commit")
<1>1. wk \in [Workers -> Worker(plan)] /\ wk[w] \in Worker(plan)
  BY WorkerIs
<1>2. /\ wk[w].pc = "respond" /\ fd \in OpenIn(file) /\ conn_mutex = w /\ conn_mutex' = Free
      /\ ep' = Arm(ep, Notify)
      /\ UNCHANGED <<plan, cl, sock, file, backlog, running, io, stop, parser, reused>>
  BY RespondNextIs
<1>3. fd \in Fds
  BY <1>2 DEF OpenIn
<1>4. ws \in [Workers -> Worker(plan)] /\ ws[w].pc = "commit" /\ ws[w].fd = fd
      /\ \A v \in Workers \ {w} : ws[v] = wk[v]
  <2> DEFINE x == [wk[w] EXCEPT !.pc = "commit"]
  <2>1. x \in Worker(plan) /\ x.pc = "commit" /\ x.fd = fd
    BY <1>1 DEF Worker, WorkerPcs
  <2>2. ws = [wk EXCEPT ![w] = x]
    BY DEF WkTo
  <2> HIDE DEF x, ws
  <2>3. QED BY <1>1, <2>1, <2>2
<1>5. EpOK(ep', OpenIn(file))
  <2>1. EpOK(ep, OpenIn(file)) /\ OpenIn(file) \subseteq Fds
    BY DEF Base, Files, OpenIn
  <2>2. QED BY <1>2, <2>1, ArmKeeps
<1>6. /\ Files' /\ queue' \in Seq([conn_fd : Fds, sql : Text(plan)])
      /\ wk' \in [Workers -> Worker(plan)]
      /\ \A v \in Workers : Nudge(ws[v], wk'[v])
  <2>1. CASE HasStatement(conns[fd].read_buf)
    <3>1. conns' = Taken(fd) /\ submit(fd, First(conns[fd].read_buf), ws)
      BY <2>1, RespondNextIs
    <3>2. /\ First(conns[fd].read_buf) \in Text(plan)
          /\ [conns[fd] EXCEPT !.read_buf = AfterFirst(@), !.busy = TRUE] \in Connection(plan)
          /\ Taken(fd) = [conns EXCEPT ![fd] =
                             [conns[fd] EXCEPT !.read_buf = AfterFirst(@), !.busy = TRUE]]
      BY <1>2, <2>1, TakenIs
    <3>3. Files'
      BY <1>2, <1>5, <3>1, <3>2, ConnKeeps
    <3> HIDE DEF ws, fd
    <3>4. QED BY <1>3, <1>4, <3>1, <3>2, <3>3, SubmitIs
  <2>2. CASE ~ HasStatement(conns[fd].read_buf)
    <3>1. wk' = ws /\ queue' = queue /\ conns' = conns
      BY <2>2, RespondNextIs
    <3> HIDE DEF ws, fd
    <3>2. QED BY <1>2, <1>4, <1>5, <3>1 DEF Base, PoolTypes, Files, Nudge
  <2>3. QED BY <2>1, <2>2
<1> HIDE DEF ws, fd
<1>7. ClientTypes' /\ OneConnection' /\ IoTypes' /\ PoolTypes'
  BY <1>2, <1>6 DEF Base, ClientTypes, OneConnection, IoTypes, PoolTypes
<1>8. wk'[w].pc = "commit" /\ wk'[w].fd = fd
  BY <1>4, <1>6, NudgeTypes DEF Nudge
<1>9. OthersNudged(w)
  BY <1>4, <1>6 DEF OthersNudged
<1>10. WorkerTypes'
  BY <1>2, <1>8, <1>9, WorkersMove DEF Working
<1>11. /\ parser \in [holder : {Free} \cup Workers, tree : StmtsOf(plan) \cup {Broken}]
       /\ parser.holder # w
  BY <1>2 DEF Base, Latches, Pc
<1>12. \A v \in Workers : v # Free
  BY NamesAssumption
<1>13. \A v \in Workers \ {w} :
             /\ conn_mutex' = v <=> conn_mutex = v
             /\ parser'.holder = v <=> parser.holder = v
             /\ parser.holder = v => parser'.tree = parser.tree
  BY <1>2, <1>12
<1>14. Latches'
  BY <1>2, <1>8, <1>9, <1>11, <1>12, <1>13, LatchesMove
<1>15. QED BY <1>6, <1>7, <1>10, <1>14 DEF Base

LEMMA WorkerKeeps ==
    ASSUME Base, NEW w \in Workers, WorkerStep(w)
    PROVE  Base'
BY PoolMoves, TakesKeeps, FromCacheKeeps, ParseKeeps, AnalyzeKeeps, RespondKeeps, RespondNextKeeps
   DEF WorkerStep

-----------------------------------------------------------------------------
(* The I/O thread.                                                         *)

LEMMA IoStays ==
    ASSUME Base, UNCHANGED <<plan, wk, parser, conn_mutex>>,
           conn_mutex = Free \/ OpenIn(file) \subseteq OpenIn(file)'
    PROVE  WorkerTypes' /\ Latches'
<1>1. WorkerTypes'
  BY DEF Base, WorkerTypes, Pc
<1>2. \A v \in Workers : v # Free
  BY NamesAssumption
<1>3. Latches'
  BY <1>2 DEF Base, Latches, Pc
<1>4. QED BY <1>1, <1>3

LEMMA IoNextTypes ==
    ASSUME Base, IoNext
    PROVE  IoTypes'
<1>1. io' = [pc |-> IF running THEN "wait" ELSE "flush", fd |-> 0, ev |-> {}, dispatch |-> FALSE]
  BY DEF IoNext
<1>2. 0 \in 0 .. MaxFd
  BY SizesAssumption
<1>3. QED BY <1>1, <1>2 DEF IoTypes, IoPcs, OnFd

LEMMA IoIs ==
    ASSUME Base
    PROVE  /\ io \in [pc : IoPcs, fd : 0 .. MaxFd, ev : SUBSET Events, dispatch : BOOLEAN]
           /\ io.pc \in OnFd => io.fd \in OpenIn(file) /\ io.fd \in Fds
           /\ io.pc = "write" => io.fd \in Fds
BY DEF Base, IoTypes, OpenIn

\* A step to a place that has no need of the descriptor, or writes to it.
LEMMA IoToTypes ==
    ASSUME Base, NEW pc \in IoPcs \ OnFd, io' = IoTo(pc), pc = "write" => io.fd \in Fds
    PROVE  IoTypes'
<1> DEFINE x == [io EXCEPT !.pc = pc]
<1>1. io \in [pc : IoPcs, fd : 0 .. MaxFd, ev : SUBSET Events, dispatch : BOOLEAN]
  BY IoIs
<1>2. x \in [pc : IoPcs, fd : 0 .. MaxFd, ev : SUBSET Events, dispatch : BOOLEAN] /\ x.pc = pc /\ x.fd = io.fd
  BY <1>1
<1>3. io' = x
  BY DEF IoTo
<1> HIDE DEF x
<1>4. QED BY <1>2, <1>3 DEF IoTypes

LEMMA ToWriteTypes ==
    ASSUME Base, io.pc \in OnFd, ToWrite
    PROVE  IoTypes'
<1>1. CASE "OUT" \in io.ev
  <2>1. io' = IoTo("write") /\ io.fd \in Fds
    BY <1>1, IoIs DEF ToWrite
  <2>2. "write" \in IoPcs \ OnFd
    BY DEF IoPcs, OnFd
  <2>3. QED BY <2>1, <2>2, IoToTypes
<1>2. CASE "OUT" \notin io.ev
  BY <1>2, IoNextTypes DEF ToWrite
<1>3. QED BY <1>1, <1>2

LEMMA ReadinessIs == ASSUME NEW s PROVE Readiness(s) \subseteq Events
BY DEF Readiness, Events

LEMMA IoEventKeeps ==
    ASSUME Base, IoEvent
    PROVE  Base'
<1> DEFINE fd == Head(ep.ready)
           ev == Readiness(sock[file[fd]]) \cap (ep.interest[fd] \cup {"RDHUP"})
           x == [pc |-> CASE "RDHUP" \in ev -> "hangup"
                          [] "IN" \in ev /\ "RDHUP" \notin ev -> "read"
                          [] ev = {"OUT"} -> "write"
                          [] ev = {} -> "wait",
                 fd |-> fd, ev |-> ev, dispatch |-> FALSE]
<1>1. /\ ep.ready # <<>> /\ ep' = [ep EXCEPT !.ready = Tail(@)]
      /\ UNCHANGED <<plan, cl, running, parser, reused, sock, file, backlog, conns, conn_mutex, queue, stop, wk>>
      /\ io' = CASE fd = Listen -> IoTo("accept") [] fd = Notify -> IoTo("notify") [] OTHER -> x
  BY DEF IoEvent, io_step
<1>2. EpOK(ep, OpenIn(file))
  BY DEF Base, Files
<1>3. EpOK(ep', OpenIn(file)) /\ fd \in OpenIn(file) \cup {Listen, Notify}
  BY <1>1, <1>2, TailKeeps
<1>4. ClientTypes' /\ OneConnection' /\ PoolTypes' /\ Files'
  BY <1>1, <1>3 DEF Base, ClientTypes, OneConnection, PoolTypes, Files
<1>5. WorkerTypes' /\ Latches'
  BY <1>1, IoStays
<1>6. ev \subseteq Events
  BY ReadinessIs
<1> HIDE DEF ev, fd
<1>7. IoTypes'
  <2>1. CASE fd = Listen
    <3>1. "accept" \in IoPcs \ OnFd
      BY DEF IoPcs, OnFd
    <3>2. fd # Notify
      BY <2>1, SizesAssumption DEF Listen, Notify
    <3>3. io' = IoTo("accept")
      BY <1>1, <2>1, <3>2
    <3>4. QED BY <3>1, <3>3, IoToTypes
  <2>2. CASE fd = Notify
    <3>1. "notify" \in IoPcs \ OnFd
      BY DEF IoPcs, OnFd
    <3>2. fd # Listen
      BY <2>2, SizesAssumption DEF Listen, Notify
    <3>3. io' = IoTo("notify")
      BY <1>1, <2>2, <3>2
    <3>4. QED BY <3>1, <3>3, IoToTypes
  <2>3. CASE fd # Listen /\ fd # Notify
    <3>1. fd \in OpenIn(file) /\ fd \in Fds /\ fd \in 0 .. MaxFd
      BY <1>3, <2>3, SizesAssumption DEF OpenIn, Fds
    <3>2. io' = x
      BY <1>1, <2>3
    <3>3. \/ "RDHUP" \in ev \/ ("IN" \in ev /\ "RDHUP" \notin ev)
          \/ ev = {"OUT"} \/ ev = {}
      BY <1>6 DEF Events
    <3>4. x.pc \in {"hangup", "read", "write", "wait"}
      BY <3>3
    <3>5. x \in [pc : IoPcs, fd : 0 .. MaxFd, ev : SUBSET Events, dispatch : BOOLEAN] /\ x.fd = fd
      BY <1>6, <3>1, <3>4 DEF IoPcs
    <3> HIDE DEF x
    <3>6. QED BY <1>1, <3>1, <3>2, <3>4, <3>5 DEF IoTypes
  <2>4. QED BY <2>1, <2>2, <2>3
<1>8. QED BY <1>4, <1>5, <1>7 DEF Base

LEMMA LowestIs ==
    ASSUME Base, Cardinality(DOMAIN conns) < MaxConn
    PROVE  LowestFd \in Fds /\ file[LowestFd] = NoClient
<1>1. DOMAIN conns = OpenIn(file) /\ OpenIn(file) \subseteq Fds
  BY DEF Base, Files, OpenIn
<1> DEFINE S == {fd \in Fds : file[fd] = NoClient}
<1>2. S # {}
  <2>1. CASE S = {}
    <3>1. OpenIn(file) = Fds
      BY <2>1 DEF OpenIn
    <3>2. QED BY <1>1, <3>1, FdsAreFinite, SizesAssumption
  <2>2. QED BY <2>1
<1>3. S \subseteq Nat
  BY SizesAssumption DEF Fds
<1>4. PICK fd \in S : \A other \in S : fd <= other
  BY <1>2, <1>3, LeastExists
<1>5. \A other \in Fds : other < fd => file[other] # NoClient
  <2>1. ASSUME NEW other \in Fds, other < fd, file[other] = NoClient PROVE FALSE
    <3>1. other \in S /\ fd <= other /\ fd \in Nat /\ other \in Nat
      BY <1>3, <1>4, <2>1
    <3>2. QED BY <2>1, <3>1
  <2>2. QED BY <2>1
<1>6. QED BY <1>4, <1>5 DEF LowestFd

\* The sizes of the table of connections, as the code compares them.
LEMMA CardIs ==
    ASSUME Base
    PROVE  Cardinality(DOMAIN conns) \in Nat
<1>1. DOMAIN conns \subseteq Fds
  BY DEF Base, Files, OpenIn
<1>2. QED BY <1>1, FdsAreFinite, FS_Subset, FS_CardinalityType

LEMMA NewIs ==
    ASSUME NEW p, NEW c
    PROVE  c = NewConnection => c \in Connection(p) /\ c.read_buf = <<>> /\ c.write_buf = <<>>
<1>1. <<>> \in Seq(Unit(p)) /\ <<>> \in Seq(Answer)
  BY EmptySeq
<1>2. QED BY <1>1 DEF NewConnection, Connection

LEMMA IoAcceptIs ==
    ASSUME Base, IoAccept
    PROVE  /\ backlog # <<>> /\ backlog' = Tail(backlog) /\ Head(backlog) \in Clients
           /\ UNCHANGED <<plan, cl, running, parser, sock, conn_mutex, io, queue, stop, wk>>
           /\ \/ UNCHANGED <<file, ep, conns, reused>>
              \/ /\ conn_mutex = Free /\ LowestFd \in Fds /\ file[LowestFd] = NoClient
                 /\ file' = [file EXCEPT ![LowestFd] = Head(backlog)]
                 /\ ep' = mod_epoll(ep, LowestFd, {"IN"}, sock[Head(backlog)])
                 /\ conns' = [fd \in DOMAIN conns \cup {LowestFd} |->
                                IF fd = LowestFd THEN NewConnection ELSE conns[fd]]
                 /\ reused' = (reused \/ InFlight(LowestFd))
<1>1. backlog # <<>> /\ backlog' = Tail(backlog)
      /\ UNCHANGED <<plan, cl, running, parser, sock, conn_mutex, io, queue, stop, wk>>
  BY DEF IoAccept
<1>2. Head(backlog) \in Clients
  BY <1>1, HeadTailProperties DEF Base, ClientTypes
<1>3. CASE Cardinality(DOMAIN conns) >= MaxConn
  BY <1>1, <1>2, <1>3 DEF IoAccept
<1>4. CASE ~(Cardinality(DOMAIN conns) >= MaxConn)
  <2>1. Cardinality(DOMAIN conns) < MaxConn
    BY <1>4, CardIs, SizesAssumption
  <2>2. LowestFd \in Fds /\ file[LowestFd] = NoClient
    BY <2>1, LowestIs
  <2>3. QED BY <1>1, <1>2, <1>4, <2>2 DEF IoAccept
<1>5. QED BY <1>3, <1>4

LEMMA IoAcceptKeeps ==
    ASSUME Base, IoAccept
    PROVE  Base'
<1> DEFINE c == Head(backlog)
           low == LowestFd
<1>1. /\ backlog # <<>> /\ backlog' = Tail(backlog) /\ c \in Clients
      /\ UNCHANGED <<plan, cl, running, parser, sock, conn_mutex, io, queue, stop, wk>>
  BY IoAcceptIs
<1>2. backlog \in Seq(Clients) /\ IsInjective(backlog)
  BY DEF Base, ClientTypes, OneConnection
<1>3. /\ backlog' \in Seq(Clients) /\ IsInjective(backlog')
      /\ ToSet(backlog') = ToSet(backlog) \ {c} /\ c \in ToSet(backlog)
  BY <1>1, <1>2, TailElement
<1>4. ClientTypes'
  BY <1>1, <1>3 DEF Base, ClientTypes
<1>5. reused' \in BOOLEAN
  BY IoAcceptIs DEF Base, PoolTypes, InFlight
<1>6. PoolTypes'
  BY <1>1, <1>5 DEF Base, PoolTypes
<1>7. CASE UNCHANGED <<file, ep, conns, reused>>
  <2>1. Files' /\ IoTypes' /\ OneConnection'
    BY <1>1, <1>3, <1>7 DEF Base, Files, IoTypes, OneConnection
  <2>2. WorkerTypes' /\ Latches'
    BY <1>1, <1>7, IoStays
  <2>3. QED BY <1>4, <1>6, <2>1, <2>2 DEF Base
<1>8. CASE ~ UNCHANGED <<file, ep, conns, reused>>
  <2>1. /\ conn_mutex = Free /\ low \in Fds /\ file[low] = NoClient
        /\ file' = [file EXCEPT ![low] = c]
        /\ ep' = mod_epoll(ep, low, {"IN"}, sock[c])
        /\ conns' = [fd \in DOMAIN conns \cup {low} |-> IF fd = low THEN NewConnection ELSE conns[fd]]
    BY <1>8, IoAcceptIs
  <2> HIDE DEF c, low
  <2>2. file \in [Fds -> Clients \cup {NoClient}] /\ conns \in [OpenIn(file) -> Connection(plan)]
        /\ EpOK(ep, OpenIn(file))
    BY DEF Base, Files
  <2>3. file' \in [Fds -> Clients \cup {NoClient}] /\ OpenIn(file)' = OpenIn(file) \cup {low}
        /\ low \notin OpenIn(file) /\ OpenIn(file)' \subseteq Fds
    BY <1>1, <2>1, <2>2, NamesAssumption DEF OpenIn
  <2>4. conns' \in [OpenIn(file)' -> Connection(plan)]
    <3>1. NewConnection \in Connection(plan)
      BY NewIs
    <3>2. DOMAIN conns = OpenIn(file)
      BY <2>2
    <3>3. QED BY <2>1, <2>2, <2>3, <3>1, <3>2
  <2>5. EpOK(ep', OpenIn(file)')
    <3>1. EpOK(ep, OpenIn(file)')
      BY <2>2, <2>3, EpGrows
    <3>2. low \in OpenIn(file)' /\ {"IN"} \subseteq Asked
      BY <2>3 DEF Asked
    <3>3. QED BY <2>1, <2>3, <3>1, <3>2, ModKeeps
  <2>6. Files'
    BY <1>1, <2>3, <2>4, <2>5 DEF Files
  <2>7. IoTypes'
    BY <1>1, <2>3 DEF Base, IoTypes
  <2>8. \A fd \in OpenIn(file)' : file'[fd] = IF fd = low THEN c ELSE file[fd]
    BY <2>1, <2>2, <2>3
  <2>9. (\A fd \in OpenIn(file) : file[fd] # c) /\ cl[c].state # "new"
    BY <1>1, <1>3 DEF Base, OneConnection
  <2>10. OneConnection'
    BY <1>1, <1>3, <2>3, <2>8, <2>9 DEF Base, OneConnection
  <2>11. WorkerTypes' /\ Latches'
    BY <1>1, <2>3, IoStays
  <2>12. QED BY <1>4, <1>6, <2>6, <2>7, <2>10, <2>11 DEF Base
<1>9. QED BY <1>7, <1>8

LEMMA IoAcceptedKeeps ==
    ASSUME Base, IoAccepted
    PROVE  Base'
<1>1. IoNext /\ UNCHANGED <<plan, cl, running, parser, reused, sock, file, backlog, ep, conns,
                            conn_mutex, queue, stop, wk>>
  BY DEF IoAccepted, io_step
<1>2. WorkerTypes' /\ Latches'
  BY <1>1, IoStays
<1>3. IoTypes'
  BY <1>1, IoNextTypes
<1>4. QED BY <1>1, <1>2, <1>3 DEF Base, ClientTypes, OneConnection, PoolTypes, Files

LEMMA IoNotifiedKeeps ==
    ASSUME Base, IoNotified
    PROVE  Base'
<1>1. IoNext /\ UNCHANGED <<plan, cl, running, parser, reused, sock, file, backlog, conns,
                            conn_mutex, queue, stop, wk>>
  BY DEF IoNotified, io_step
<1> DEFINE asked == [fd \in Fds |-> IF fd \in Pending THEN {"IN", "OUT"} ELSE ep.interest[fd]]
<1>2. PICK order \in SetToSeqs(Reported) : ep' = [ready |-> ep.ready \o order, interest |-> asked]
  BY DEF IoNotified
<1>3. EpOK(ep, OpenIn(file)) /\ DOMAIN conns = OpenIn(file) /\ OpenIn(file) \subseteq Fds
  BY DEF Base, Files, OpenIn
<1>4. ep.ready \in Seq(1 .. MaxFd + 2) /\ ep.interest \in [Fds -> SUBSET Asked]
  BY <1>3 DEF EpOK
<1>5. asked \in [Fds -> SUBSET Asked]
  BY <1>4 DEF Asked
<1>6. Reported \subseteq OpenIn(file)
  BY <1>3 DEF Reported, Pending
<1>7. Reported \cap ToSet(ep.ready) = {}
  <2>1. \A fd \in Reported : ~ Contains(ep.ready, fd)
    BY DEF Reported
  <2>2. \A fd : Contains(ep.ready, fd) <=> fd \in ToSet(ep.ready)
    BY <1>4, ContainsIs
  <2>3. QED BY <2>1, <2>2
<1> HIDE DEF asked
<1>8. EpOK(ep', OpenIn(file))
  BY <1>2, <1>3, <1>5, <1>6, <1>7, NotifiedKeeps
<1>9. Files'
  BY <1>1, <1>8 DEF Base, Files
<1>10. WorkerTypes' /\ Latches'
  BY <1>1, IoStays
<1>11. IoTypes'
  BY <1>1, IoNextTypes
<1>12. QED BY <1>1, <1>9, <1>10, <1>11 DEF Base, ClientTypes, OneConnection, PoolTypes

\* The descriptor is gone, from the table, the connections and the list of epoll at once.
LEMMA ClosesKeeps ==
    ASSUME Base, NEW fd \in Fds, Closes(fd), UNCHANGED <<plan, cl, backlog>>
    PROVE  Files' /\ OneConnection' /\ OpenIn(file)' = OpenIn(file) \ {fd}
<1>1. /\ conns' = [other \in DOMAIN conns \ {fd} |-> conns[other]]
      /\ file' = [file EXCEPT ![fd] = NoClient]
      /\ ep' = Forget(ep, fd)
  BY DEF Closes
<1>2. file \in [Fds -> Clients \cup {NoClient}] /\ conns \in [OpenIn(file) -> Connection(plan)]
      /\ EpOK(ep, OpenIn(file)) /\ OpenIn(file) \subseteq Fds
  BY DEF Base, Files, OpenIn
<1>3. file' \in [Fds -> Clients \cup {NoClient}] /\ OpenIn(file)' = OpenIn(file) \ {fd}
  BY <1>1, <1>2 DEF OpenIn
<1>4. EpOK(ep', OpenIn(file)')
  <2>1. EpOK(Forget(ep, fd), OpenIn(file) \ {fd})
    BY <1>2, ForgetKeeps
  <2>2. QED BY <1>1, <1>3, <2>1
<1>5. conns' \in [OpenIn(file)' -> Connection(plan)]
  BY <1>1, <1>2, <1>3
<1>6. Files'
  BY <1>3, <1>4, <1>5 DEF Files
<1>7. \A x \in OpenIn(file)' : x \in OpenIn(file) /\ file'[x] = file[x]
  BY <1>1, <1>2, <1>3
<1>8. OneConnection'
  BY <1>7 DEF Base, OneConnection
<1>9. QED BY <1>3, <1>6, <1>8

LEMMA CloseConnectionKeeps ==
    ASSUME Base, NEW fd \in OpenIn(file), close_connection(fd), UNCHANGED <<plan, cl, backlog>>
    PROVE  Files' /\ OneConnection' /\ conn_mutex = Free
<1>1. conn_mutex = Free /\ fd \in Fds /\ OpenIn(file) \subseteq Fds
  BY DEF close_connection, OpenIn
<1>2. CASE HasPendingWrite(fd)
  <2>1. /\ conns' = [conns EXCEPT ![fd].closing = TRUE]
        /\ ep' = mod_epoll(ep, fd, {"IN", "OUT"}, sock[file[fd]])
        /\ file' = file
    BY <1>2 DEF close_connection
  <2>2. conns[fd] \in Connection(plan)
    BY ConnIs
  <2>3. [conns[fd] EXCEPT !.closing = TRUE] \in Connection(plan)
    BY <2>2 DEF Connection
  <2>4. EpOK(ep, OpenIn(file)) /\ {"IN", "OUT"} \subseteq Asked
    BY DEF Base, Files, Asked
  <2>5. EpOK(ep', OpenIn(file))
    BY <1>1, <2>1, <2>4, ModKeeps
  <2>6. Files'
    BY <2>1, <2>3, <2>5, ConnKeeps
  <2>7. OneConnection'
    BY <2>1 DEF Base, OneConnection
  <2>8. QED BY <1>1, <2>6, <2>7
<1>3. CASE ~ HasPendingWrite(fd)
  BY <1>1, <1>3, ClosesKeeps DEF close_connection
<1>4. QED BY <1>2, <1>3

LEMMA IoHangupKeeps ==
    ASSUME Base, IoHangup
    PROVE  Base'
<1>1. /\ io.pc = "hangup" /\ close_connection(io.fd) /\ IoNext
      /\ UNCHANGED <<plan, cl, running, parser, reused, sock, backlog, conn_mutex, queue, stop, wk>>
  BY DEF IoHangup, io_step
<1>2. io.fd \in OpenIn(file)
  BY <1>1, IoIs DEF OnFd
<1>3. Files' /\ OneConnection' /\ conn_mutex = Free
  BY <1>1, <1>2, CloseConnectionKeeps
<1>4. WorkerTypes' /\ Latches' /\ IoTypes'
  BY <1>1, <1>3, IoStays, IoNextTypes
<1>5. QED BY <1>1, <1>3, <1>4 DEF Base, ClientTypes, PoolTypes

LEMMA IoEndOfInputKeeps ==
    ASSUME Base, IoEndOfInput
    PROVE  Base'
<1>1. /\ io.pc = "read" /\ close_connection(io.fd) /\ ToWrite
      /\ UNCHANGED <<plan, cl, running, parser, reused, sock, backlog, conn_mutex, queue, stop, wk>>
  BY DEF IoEndOfInput, io_step
<1>2. io.fd \in OpenIn(file) /\ io.pc \in OnFd
  BY <1>1, IoIs DEF OnFd
<1>3. Files' /\ OneConnection' /\ conn_mutex = Free
  BY <1>1, <1>2, CloseConnectionKeeps
<1>4. WorkerTypes' /\ Latches' /\ IoTypes'
  BY <1>1, <1>2, <1>3, IoStays, ToWriteTypes
<1>5. QED BY <1>1, <1>3, <1>4 DEF Base, ClientTypes, PoolTypes

LEMMA IoReadIs ==
    ASSUME Base, IoRead
    PROVE  LET fd == io.fd
               c == file[fd]
           IN  /\ io.pc = "read" /\ fd \in OpenIn(file) /\ c \in Clients /\ sock[c].in # <<>>
               /\ conns' = [conns EXCEPT ![fd] = [conns[fd] EXCEPT !.read_buf = @ \o sock[c].in]]
               /\ sock' = [sock EXCEPT ![c] = [sock[c] EXCEPT !.in = <<>>]]
               /\ io' = [io EXCEPT !.dispatch = TRUE]
               /\ UNCHANGED <<plan, cl, running, parser, reused, file, backlog, ep, conn_mutex, queue, stop, wk>>
<1>1. io.pc = "read" /\ io.fd \in OpenIn(file)
  BY IoIs DEF IoRead, OnFd
<1>2. file[io.fd] \in Clients /\ conns \in [OpenIn(file) -> Connection(plan)]
  BY <1>1, ConnIs
<1>3. sock \in [Clients -> Socket(plan)]
  BY DEF Base, ClientTypes
<1>4. QED BY <1>1, <1>2, <1>3 DEF IoRead, io_step

LEMMA IoReadKeeps ==
    ASSUME Base, IoRead
    PROVE  Base'
<1> DEFINE fd == io.fd
           c == file[fd]
           y == [conns[fd] EXCEPT !.read_buf = @ \o sock[c].in]
           s == [sock[c] EXCEPT !.in = <<>>]
<1>1. /\ io.pc = "read" /\ fd \in OpenIn(file) /\ c \in Clients
      /\ conns' = [conns EXCEPT ![fd] = y] /\ sock' = [sock EXCEPT ![c] = s]
      /\ io' = [io EXCEPT !.dispatch = TRUE]
      /\ UNCHANGED <<plan, cl, running, parser, reused, file, backlog, ep, conn_mutex, queue, stop, wk>>
  BY IoReadIs
<1>2. sock \in [Clients -> Socket(plan)] /\ sock[c] \in Socket(plan) /\ sock[c].in \in Seq(Unit(plan))
      /\ \A d \in Clients : Len(sock[d].out) <= Room
  BY <1>1 DEF Base, ClientTypes, Socket
<1>3. conns[fd] \in Connection(plan) /\ conns[fd].read_buf \in Seq(Unit(plan))
  BY <1>1, ConnIs
<1>4. conns[fd].read_buf \o sock[c].in \in Seq(Unit(plan)) /\ <<>> \in Seq(Unit(plan))
  BY <1>2, <1>3, ConcatProperties, EmptySeq
<1>5. y \in Connection(plan)
  BY <1>3, <1>4 DEF Connection
<1>6. s \in Socket(plan) /\ s.out = sock[c].out
  BY <1>2, <1>4 DEF Socket
<1> HIDE DEF s, y, c, fd
<1>7. ClientTypes'
  <2>1. \A d \in Clients : sock'[d].out = sock[d].out
    BY <1>1, <1>2, <1>6
  <2>2. sock' \in [Clients -> Socket(plan)]
    BY <1>1, <1>2, <1>6
  <2>3. QED BY <1>1, <1>2, <2>1, <2>2 DEF Base, ClientTypes
<1>8. EpOK(ep', OpenIn(file))
  BY <1>1 DEF Base, Files
<1>9. Files'
  BY <1>1, <1>5, <1>8, ConnKeeps
<1>10. IoTypes'
  <2> DEFINE x == [io EXCEPT !.dispatch = TRUE]
  <2>1. x \in [pc : IoPcs, fd : 0 .. MaxFd, ev : SUBSET Events, dispatch : BOOLEAN]
        /\ x.pc = io.pc /\ x.fd = io.fd
    BY IoIs
  <2>2. io' = x /\ file' = file
    BY <1>1
  <2> HIDE DEF x
  <2>3. QED BY <2>1, <2>2 DEF Base, IoTypes
<1>11. WorkerTypes' /\ Latches'
  BY <1>1, IoStays
<1>12. QED BY <1>1, <1>7, <1>9, <1>10, <1>11 DEF Base, OneConnection, PoolTypes

LEMMA IoRead_doneKeeps ==
    ASSUME Base, IoRead_done
    PROVE  Base'
<1>1. /\ io.pc = "read" /\ (io' = IoTo("dispatch") \/ ToWrite)
      /\ UNCHANGED <<plan, cl, running, parser, reused, sock, file, backlog, ep, conns, conn_mutex,
                     queue, stop, wk>>
  BY DEF IoRead_done, io_step
<1>2. WorkerTypes' /\ Latches'
  BY <1>1, IoStays
<1>3. io.pc \in OnFd /\ io.fd \in OpenIn(file)
  BY <1>1, IoIs DEF OnFd
<1>4. IoTypes'
  <2>1. CASE io' = IoTo("dispatch")
    <3> DEFINE x == [io EXCEPT !.pc = "dispatch"]
    <3>1. x \in [pc : IoPcs, fd : 0 .. MaxFd, ev : SUBSET Events, dispatch : BOOLEAN]
          /\ x.pc = "dispatch" /\ x.fd = io.fd
      BY IoIs DEF IoPcs
    <3>2. io' = x /\ file' = file
      BY <1>1, <2>1 DEF IoTo
    <3> HIDE DEF x
    <3>3. QED BY <1>3, <3>1, <3>2 DEF IoTypes
  <2>2. CASE ToWrite
    BY <1>3, <2>2, ToWriteTypes
  <2>3. QED BY <1>1, <2>1, <2>2
<1>5. QED BY <1>1, <1>2, <1>4 DEF Base, ClientTypes, OneConnection, PoolTypes, Files

LEMMA IoDispatchIs ==
    ASSUME Base, IoDispatch
    PROVE  /\ io.pc = "dispatch" /\ io.fd \in OpenIn(file) /\ ToWrite
           /\ UNCHANGED <<plan, cl, running, parser, reused, sock, file, backlog, ep, conn_mutex, stop>>
           /\ \/ /\ HasStatement(conns[io.fd].read_buf)
                 /\ conns' = Taken(io.fd)
                 /\ submit(io.fd, First(conns[io.fd].read_buf), wk)
              \/ /\ ~ HasStatement(conns[io.fd].read_buf)
                 /\ UNCHANGED <<conns, queue, wk>>
<1>1. /\ io.pc = "dispatch" /\ ToWrite
      /\ UNCHANGED <<plan, cl, running, parser, reused, sock, file, backlog, ep, conn_mutex, stop>>
  BY DEF IoDispatch, io_step
<1>2. io.fd \in OpenIn(file)
  BY <1>1, IoIs DEF OnFd
<1>3. CASE HasStatement(conns[io.fd].read_buf)
  BY <1>1, <1>2, <1>3 DEF IoDispatch
<1>4. CASE ~ HasStatement(conns[io.fd].read_buf)
  BY <1>1, <1>2, <1>4 DEF IoDispatch
<1>5. QED BY <1>3, <1>4

LEMMA IoDispatchKeeps ==
    ASSUME Base, IoDispatch
    PROVE  Base'
<1> DEFINE fd == io.fd
<1>1. /\ io.pc = "dispatch" /\ fd \in OpenIn(file) /\ ToWrite
      /\ UNCHANGED <<plan, cl, running, parser, reused, sock, file, backlog, ep, conn_mutex, stop>>
  BY IoDispatchIs
<1>2. fd \in Fds /\ wk \in [Workers -> Worker(plan)] /\ EpOK(ep', OpenIn(file))
  BY <1>1 DEF OpenIn, Base, WorkerTypes, Files
<1>3. /\ Files' /\ queue' \in Seq([conn_fd : Fds, sql : Text(plan)])
      /\ wk' \in [Workers -> Worker(plan)]
      /\ \A v \in Workers : Nudge(wk[v], wk'[v])
  <2>1. CASE HasStatement(conns[fd].read_buf)
    <3>1. conns' = Taken(fd) /\ submit(fd, First(conns[fd].read_buf), wk)
      BY <2>1, IoDispatchIs
    <3>2. /\ First(conns[fd].read_buf) \in Text(plan)
          /\ [conns[fd] EXCEPT !.read_buf = AfterFirst(@), !.busy = TRUE] \in Connection(plan)
          /\ Taken(fd) = [conns EXCEPT ![fd] =
                             [conns[fd] EXCEPT !.read_buf = AfterFirst(@), !.busy = TRUE]]
      BY <1>1, <2>1, TakenIs
    <3>3. Files'
      BY <1>1, <1>2, <3>1, <3>2, ConnKeeps
    <3> HIDE DEF fd
    <3>4. QED BY <1>2, <3>1, <3>2, <3>3, SubmitIs
  <2>2. CASE ~ HasStatement(conns[fd].read_buf)
    <3>1. UNCHANGED <<conns, queue, wk>>
      BY <2>2, IoDispatchIs
    <3>2. QED BY <1>1, <1>2, <3>1 DEF Base, PoolTypes, Files, Nudge
  <2>3. QED BY <2>1, <2>2
<1> HIDE DEF fd
<1>4. ClientTypes' /\ OneConnection' /\ PoolTypes'
  BY <1>1, <1>3 DEF Base, ClientTypes, OneConnection, PoolTypes
<1>5. IoTypes'
  BY <1>1, ToWriteTypes DEF OnFd
<1>6. OthersNudged(Free) /\ Free \notin Workers
  BY <1>3, NamesAssumption DEF OthersNudged
<1>7. WorkerTypes'
  BY <1>1, <1>6, WorkersMove
<1>8. /\ parser \in [holder : {Free} \cup Workers, tree : StmtsOf(plan) \cup {Broken}]
      /\ conn_mutex \in {Free, IoThread} \cup Workers
  BY DEF Base, Latches
<1>9. Latches'
  BY <1>1, <1>6, <1>8, LatchesMove
<1>10. QED BY <1>3, <1>4, <1>5, <1>7, <1>9 DEF Base

\* A write puts as many answers as fit from the connection to the socket.
LEMMA IoWriteIs ==
    ASSUME Base, IoWrite
    PROVE  LET fd == io.fd
               c == file[fd]
               buf == conns[fd].write_buf
               k == Fits(fd)
               rest == SubSeq(buf, k + 1, Len(buf))
           IN  /\ io.pc = "write" /\ fd \in Fds /\ conn_mutex = Free /\ IoNext
               /\ UNCHANGED <<plan, cl, running, parser, reused, backlog, conn_mutex, queue, stop, wk>>
               /\ fd \notin OpenIn(file) => UNCHANGED <<sock, conns, file, ep>>
               /\ fd \in OpenIn(file) =>
                    /\ c \in Clients /\ buf \in Seq(Answer) /\ k \in 0 .. Len(buf)
                    /\ sock[c] \in Socket(plan) /\ sock[c].out \in Seq(Answer)
                    /\ Len(sock[c].out) + k <= Room
                    /\ SubSeq(buf, 1, k) \in Seq(Answer) /\ Len(SubSeq(buf, 1, k)) = k
                    /\ \A i \in 1 .. k : SubSeq(buf, 1, k)[i] = buf[i]
                    /\ rest \in Seq(Answer) /\ Len(rest) = Len(buf) - k
                    /\ \A i \in 1 .. Len(buf) - k : rest[i] = buf[k + i]
                    /\ sock' = [sock EXCEPT ![c] = [sock[c] EXCEPT !.out = @ \o SubSeq(buf, 1, k)]]
                    /\ \/ rest = <<>> /\ conns[fd].closing /\ Closes(fd)
                       \/ /\ conns' = [conns EXCEPT ![fd] = [conns[fd] EXCEPT !.write_buf = rest]]
                          /\ file' = file
                          /\ (ep' = ep \/ ep' = mod_epoll(ep, fd, {"IN"}, sock'[c]))
<1> DEFINE fd == io.fd
           c == file[fd]
           buf == conns[fd].write_buf
           k == Fits(fd)
           rest == SubSeq(buf, k + 1, Len(buf))
<1>1. /\ io.pc = "write" /\ conn_mutex = Free /\ IoNext
      /\ UNCHANGED <<plan, cl, running, parser, reused, backlog, conn_mutex, queue, stop, wk>>
  BY DEF IoWrite, io_step
<1>2. fd \in Fds /\ DOMAIN conns = OpenIn(file) /\ conns \in [OpenIn(file) -> Connection(plan)]
      /\ sock \in [Clients -> Socket(plan)]
  BY <1>1, IoIs DEF Base, Files, ClientTypes
<1>3. CASE fd \notin OpenIn(file)
  BY <1>1, <1>2, <1>3 DEF IoWrite
<1>4. CASE fd \in OpenIn(file)
  <2>1. c \in Clients /\ buf \in Seq(Answer) /\ sock[c] \in Socket(plan) /\ sock[c].out \in Seq(Answer)
        /\ Len(sock[c].out) <= Room
    BY <1>2, <1>4, ConnIs DEF Socket, Base, ClientTypes
  <2>2. Len(buf) \in Nat /\ Len(sock[c].out) \in Nat
    BY <2>1, LenProperties
  <2>3. k \in 0 .. Len(buf) /\ Len(sock[c].out) + k <= Room
    <3> DEFINE l == Len(buf)
               o == Len(sock[c].out)
    <3>1. k = IF Room - o < l THEN Room - o ELSE l
      BY DEF Fits
    <3>2. l \in Nat /\ o \in Nat /\ o <= Room /\ Room \in Nat
      BY <2>1, <2>2, SizesAssumption
    <3> HIDE DEF l, o, k
    <3>3. k \in 0 .. l /\ o + k <= Room
      BY <3>1, <3>2
    <3>4. QED BY <3>3 DEF l, o
  <2>4. /\ SubSeq(buf, 1, k) \in Seq(Answer) /\ Len(SubSeq(buf, 1, k)) = k
        /\ \A i \in 1 .. k : SubSeq(buf, 1, k)[i] = buf[i]
        /\ rest \in Seq(Answer) /\ Len(rest) = Len(buf) - k
        /\ \A i \in 1 .. Len(buf) - k : rest[i] = buf[k + i]
    <3> HIDE DEF k, buf
    <3>1. \A i \in 1 .. Len(buf) : buf[i] \in Answer
      BY <2>1, ElementOfSeq
    <3>2. (\A i \in 1 .. k : buf[i] \in Answer) /\ (\A i \in k + 1 .. Len(buf) : buf[i] \in Answer)
      BY <2>2, <2>3, <3>1
    <3>3. /\ SubSeq(buf, 1, k) \in Seq(Answer) /\ Len(SubSeq(buf, 1, k)) = IF 1 <= k THEN k - 1 + 1 ELSE 0
          /\ \A i \in 1 .. k - 1 + 1 : SubSeq(buf, 1, k)[i] = buf[1 + i - 1]
      BY <2>2, <2>3, <3>2, SubSeqProperties
    <3>4. /\ SubSeq(buf, k + 1, Len(buf)) \in Seq(Answer)
          /\ Len(SubSeq(buf, k + 1, Len(buf))) = IF k + 1 <= Len(buf) THEN Len(buf) - (k + 1) + 1 ELSE 0
          /\ \A i \in 1 .. Len(buf) - (k + 1) + 1 :
                 SubSeq(buf, k + 1, Len(buf))[i] = buf[k + 1 + i - 1]
      BY <2>2, <2>3, <3>2, SubSeqProperties
    <3>5. QED BY <2>2, <2>3, <3>3, <3>4
  <2>5. sock' = [sock EXCEPT ![c] = [sock[c] EXCEPT !.out = @ \o SubSeq(buf, 1, k)]]
    BY <1>2, <1>4, <2>1 DEF IoWrite
  <2>6. \/ rest = <<>> /\ conns[fd].closing /\ Closes(fd)
        \/ /\ conns' = [conns EXCEPT ![fd].write_buf = rest]
           /\ file' = file
           /\ (ep' = ep \/ ep' = mod_epoll(ep, fd, {"IN"}, sock'[c]))
    BY <1>2, <1>4 DEF IoWrite
  <2>7. \/ rest = <<>> /\ conns[fd].closing /\ Closes(fd)
        \/ /\ conns' = [conns EXCEPT ![fd] = [conns[fd] EXCEPT !.write_buf = rest]]
           /\ file' = file
           /\ (ep' = ep \/ ep' = mod_epoll(ep, fd, {"IN"}, sock'[c]))
    BY <2>6
  <2>8. QED BY <1>1, <1>2, <1>4, <2>1, <2>3, <2>4, <2>5, <2>7
<1>5. QED BY <1>3, <1>4

LEMMA IoWriteKeeps ==
    ASSUME Base, IoWrite
    PROVE  Base'
<1> DEFINE fd == io.fd
           c == file[fd]
           buf == conns[fd].write_buf
           k == Fits(fd)
           rest == SubSeq(buf, k + 1, Len(buf))
           s == [sock[c] EXCEPT !.out = @ \o SubSeq(buf, 1, k)]
<1>1. /\ fd \in Fds /\ conn_mutex = Free /\ IoNext
      /\ UNCHANGED <<plan, cl, running, parser, reused, backlog, conn_mutex, queue, stop, wk>>
  BY IoWriteIs
<1>2. ClientTypes'
  <2>1. CASE fd \notin OpenIn(file)
    <3>1. sock' = sock
      BY <2>1, IoWriteIs
    <3>2. QED BY <1>1, <3>1 DEF Base, ClientTypes
  <2>2. CASE fd \in OpenIn(file)
    <3>1. /\ c \in Clients /\ sock[c] \in Socket(plan) /\ sock[c].out \in Seq(Answer)
          /\ Len(sock[c].out) + k <= Room
          /\ SubSeq(buf, 1, k) \in Seq(Answer) /\ Len(SubSeq(buf, 1, k)) = k
          /\ sock' = [sock EXCEPT ![c] = s]
      BY <2>2, IoWriteIs
    <3> HIDE DEF c, buf, k
    <3>2. sock[c].out \o SubSeq(buf, 1, k) \in Seq(Answer)
          /\ Len(sock[c].out \o SubSeq(buf, 1, k)) = Len(sock[c].out) + Len(SubSeq(buf, 1, k))
      BY <3>1, ConcatProperties
    <3>3. s \in Socket(plan) /\ Len(s.out) <= Room
      BY <3>1, <3>2 DEF Socket
    <3>4. sock \in [Clients -> Socket(plan)] /\ \A d \in Clients : Len(sock[d].out) <= Room
      BY DEF Base, ClientTypes
    <3> HIDE DEF s
    <3>5. sock' \in [Clients -> Socket(plan)] /\ \A d \in Clients : Len(sock'[d].out) <= Room
      BY <3>1, <3>3, <3>4
    <3>6. QED BY <1>1, <3>5 DEF Base, ClientTypes
  <2>3. QED BY <2>1, <2>2
<1>3. Files' /\ OneConnection'
  <2>1. CASE fd \notin OpenIn(file)
    <3>1. UNCHANGED <<conns, file, ep>>
      BY <2>1, IoWriteIs
    <3>2. QED BY <1>1, <3>1 DEF Base, Files, OneConnection
  <2>2. CASE fd \in OpenIn(file) /\ Closes(fd)
    BY <1>1, <2>2, ClosesKeeps
  <2>3. CASE fd \in OpenIn(file) /\ ~ Closes(fd)
    <3>1. /\ conns' = [conns EXCEPT ![fd] = [conns[fd] EXCEPT !.write_buf = rest]]
          /\ file' = file /\ rest \in Seq(Answer)
          /\ (ep' = ep \/ ep' = mod_epoll(ep, fd, {"IN"}, sock'[c]))
      BY <2>3, IoWriteIs
    <3> HIDE DEF rest, fd, c
    <3>2. conns[fd] \in Connection(plan)
      BY <2>3, ConnIs
    <3>3. [conns[fd] EXCEPT !.write_buf = rest] \in Connection(plan)
      BY <3>1, <3>2 DEF Connection
    <3>4. EpOK(ep, OpenIn(file)) /\ OpenIn(file) \subseteq Fds /\ {"IN"} \subseteq Asked
      BY DEF Base, Files, OpenIn, Asked
    <3>5. EpOK(mod_epoll(ep, fd, {"IN"}, sock'[c]), OpenIn(file))
      BY <2>3, <3>4, ModKeeps
    <3>6. EpOK(ep', OpenIn(file))
      BY <3>1, <3>4, <3>5
    <3>7. Files'
      BY <1>1, <2>3, <3>1, <3>3, <3>6, ConnKeeps
    <3>8. QED BY <1>1, <3>1, <3>7 DEF Base, OneConnection
  <2>4. QED BY <2>1, <2>2, <2>3
<1>4. WorkerTypes' /\ Latches' /\ IoTypes'
  BY <1>1, IoStays, IoNextTypes
<1>5. QED BY <1>1, <1>2, <1>3, <1>4 DEF Base, PoolTypes

-----------------------------------------------------------------------------
(* Shutdown, and the first state.                                          *)

LEMMA NothingOpen ==
    ASSUME file' = [fd \in Fds |-> NoClient], conns' = <<>>,
           ep' = [ready |-> <<>>, interest |-> [fd \in Fds |-> {}]]
    PROVE  Files' /\ OpenIn(file)' = {}
<1>1. OpenIn(file)' = {} /\ file' \in [Fds -> Clients \cup {NoClient}]
  BY DEF OpenIn
<1>2. <<>> \in Seq(1 .. MaxFd + 2) /\ Len(<<>>) = 0 /\ DOMAIN <<>> = {}
  BY EmptySeq
<1>3. EpOK(ep', OpenIn(file)')
  BY <1>1, <1>2 DEF EpOK, IsInjective, ToSet
<1>4. conns' \in [OpenIn(file)' -> Connection(plan)']
  BY <1>1
<1>5. QED BY <1>1, <1>3, <1>4 DEF Files

LEMMA IoFlushKeeps ==
    ASSUME Base, IoFlush
    PROVE  Base'
<1>1. /\ io.pc = "flush" /\ conn_mutex = Free
      /\ UNCHANGED <<plan, cl, running, parser, reused, sock, backlog, queue, stop, wk>>
  BY DEF IoFlush, io_step
<1>2. "hung" \in IoPcs \ OnFd /\ "shutdown" \in IoPcs \ OnFd
  BY DEF IoPcs, OnFd
<1>3. CASE Pending # {}
  <2>1. io' = IoTo("hung") /\ conn_mutex' = IoThread /\ UNCHANGED <<file, conns, ep>>
    BY <1>3 DEF IoFlush
  <2>2. IoTypes'
    BY <1>2, <2>1, IoToTypes
  <2>3. WorkerTypes'
    BY <1>1 DEF Base, WorkerTypes, Pc
  <2>4. \A v \in Workers : v # Free /\ v # IoThread
    BY NamesAssumption
  <2>5. Latches'
    BY <1>1, <2>1, <2>4 DEF Base, Latches, Pc
  <2>6. QED BY <1>1, <2>1, <2>2, <2>3, <2>5 DEF Base, ClientTypes, Files, OneConnection, PoolTypes
<1>4. CASE Pending = {}
  <2>1. /\ io' = IoTo("shutdown") /\ file' = [fd \in Fds |-> NoClient] /\ conns' = <<>>
        /\ ep' = [ready |-> <<>>, interest |-> [fd \in Fds |-> {}]] /\ conn_mutex' = conn_mutex
    BY <1>4 DEF IoFlush
  <2>2. Files' /\ OpenIn(file)' = {}
    BY <2>1, NothingOpen
  <2>3. IoTypes'
    BY <1>2, <2>1, IoToTypes
  <2>4. WorkerTypes' /\ Latches'
    BY <1>1, <2>1, IoStays
  <2>5. OneConnection'
    BY <1>1, <2>2 DEF Base, OneConnection
  <2>6. QED BY <1>1, <2>2, <2>3, <2>4, <2>5 DEF Base, ClientTypes, PoolTypes
<1>5. QED BY <1>3, <1>4

LEMMA ShutdownKeeps ==
    ASSUME Base, IoStopPool \/ IoNotifyAll \/ IoJoin
    PROVE  Base'
<1>1. UNCHANGED <<plan, cl, running, parser, reused, sock, file, backlog, ep, conns, conn_mutex, queue>>
  BY DEF IoStopPool, IoNotifyAll, IoJoin, io_step
<1>2. PICK pc \in {"wake", "join", "down"} : io' = IoTo(pc)
  BY DEF IoStopPool, IoNotifyAll, IoJoin
<1>3. pc \in IoPcs \ OnFd /\ pc # "write"
  BY DEF IoPcs, OnFd
<1>4. IoTypes'
  BY <1>2, <1>3, IoToTypes
<1>5. stop' \in BOOLEAN
  BY DEF IoStopPool, IoNotifyAll, IoJoin, Base, PoolTypes
<1>6. \A v \in Workers : Nudge(wk[v], wk'[v])
  <2>1. CASE IoNotifyAll
    BY <2>1 DEF IoNotifyAll, Nudge, Pc
  <2>2. CASE ~ IoNotifyAll
    BY <2>2 DEF IoStopPool, IoJoin, Nudge
  <2>3. QED BY <2>1, <2>2
<1>7. wk \in [Workers -> Worker(plan)]
  BY DEF Base, WorkerTypes
<1>8. wk' \in [Workers -> Worker(plan)]
  <2>1. \A v \in Workers : wk'[v] \in Worker(plan)
    BY <1>6, <1>7, NudgeTypes
  <2>2. wk' = wk \/ wk' = [w \in Workers |-> IF Pc(w) = "asleep" THEN [wk[w] EXCEPT !.pc = "ready"] ELSE wk[w]]
    BY DEF IoStopPool, IoNotifyAll, IoJoin
  <2>3. QED BY <1>7, <2>1, <2>2
<1>9. OthersNudged(Free) /\ Free \notin Workers
  BY <1>6, <1>8, NamesAssumption DEF OthersNudged
<1>10. WorkerTypes'
  BY <1>1, <1>9, WorkersMove
<1>11. /\ parser \in [holder : {Free} \cup Workers, tree : StmtsOf(plan) \cup {Broken}]
       /\ conn_mutex \in {Free, IoThread} \cup Workers
  BY DEF Base, Latches
<1>12. Latches'
  BY <1>1, <1>9, <1>11, LatchesMove
<1>13. QED BY <1>1, <1>4, <1>5, <1>10, <1>12 DEF Base, ClientTypes, Files, OneConnection, PoolTypes

LEMMA StopKeeps ==
    ASSUME Base, Stop
    PROVE  Base'
<1>1. /\ running' = FALSE /\ ep' = Arm(ep, Notify)
      /\ UNCHANGED <<plan, cl, sock, file, backlog, conns, conn_mutex, io, queue, stop, parser, wk, reused>>
  BY DEF Stop
<1>2. EpOK(ep, OpenIn(file)) /\ OpenIn(file) \subseteq Fds
  BY DEF Base, Files, OpenIn
<1>3. EpOK(ep', OpenIn(file))
  BY <1>1, <1>2, ArmKeeps
<1>4. WorkerTypes' /\ Latches'
  BY <1>1, IoStays
<1>5. QED BY <1>1, <1>3, <1>4 DEF Base, ClientTypes, Files, OneConnection, IoTypes, PoolTypes

LEMMA IoKeeps ==
    ASSUME Base, IoStep
    PROVE  Base'
BY IoEventKeeps, IoAcceptKeeps, IoAcceptedKeeps, IoNotifiedKeeps, IoHangupKeeps, IoReadKeeps,
   IoEndOfInputKeeps, IoRead_doneKeeps, IoDispatchKeeps, IoWriteKeeps, IoFlushKeeps, ShutdownKeeps
   DEF IoStep

LEMMA BaseInit == Init => Base
<1> SUFFICES ASSUME Init PROVE Base
  OBVIOUS
<1>1. OpenIn(file) = {} /\ file \in [Fds -> Clients \cup {NoClient}]
  BY DEF Init, OpenIn
<1>2. \A S : <<>> \in Seq(S) /\ Len(<<>>) = 0 /\ DOMAIN <<>> = {}
  BY EmptySeq
<1>3. EpOK(ep, OpenIn(file))
  BY <1>1, <1>2 DEF Init, EpOK, IsInjective, ToSet
<1>4. conns \in [OpenIn(file) -> Connection(plan)]
  BY <1>1 DEF Init
<1>5. Files
  BY <1>1, <1>3, <1>4 DEF Files
<1>6. ClientTypes
  <2>1. cl \in [Clients -> Client] /\ backlog \in Seq(Clients) /\ plan \in Plans
    BY <1>2 DEF Init, Client
  <2>2. [in |-> <<>>, out |-> <<>>, eof |-> FALSE] \in Socket(plan)
    BY <1>2 DEF Socket
  <2>3. sock \in [Clients -> Socket(plan)]
    BY <2>2 DEF Init
  <2>4. \A c \in Clients : Len(sock[c].out) <= Room
    BY <1>2, SizesAssumption DEF Init
  <2>5. QED BY <2>1, <2>3, <2>4 DEF ClientTypes
<1>7. OneConnection
  BY <1>1, <1>2 DEF Init, OneConnection, IsInjective, ToSet
<1>8. IoTypes
  BY SizesAssumption DEF Init, IoTypes, IoPcs, OnFd
<1>9. PoolTypes
  BY <1>2 DEF Init, PoolTypes
<1> DEFINE x == [Idle EXCEPT !.pc = "asleep"]
<1>10. x \in Worker(plan) /\ x.pc = "asleep"
  <2>1. [p \in Patterns |-> NoPlan] \in Caches(plan)
    BY DEF Caches
  <2>2. 0 \in 0 .. MaxFd
    BY SizesAssumption
  <2>3. <<>> \in Seq(Unit(plan))
    BY <1>2
  <2>4. QED BY <2>1, <2>2, <2>3 DEF Idle, Worker, WorkerPcs
<1> HIDE DEF x
<1>11. wk = [w \in Workers |-> x]
  BY DEF Init, x
<1>12. WorkerTypes
  BY <1>10, <1>11 DEF WorkerTypes, Pc, Working
<1>13. \A v \in Workers : v # Free
  BY NamesAssumption
<1>14. Latches
  BY <1>10, <1>11, <1>13 DEF Init, Latches, Pc
<1>15. QED BY <1>5, <1>6, <1>7, <1>8, <1>9, <1>12, <1>14 DEF Base

LEMMA BaseNext == Base /\ [Next]_vars => Base'
<1> SUFFICES ASSUME Base, [Next]_vars PROVE Base'
  OBVIOUS
<1>1. CASE UNCHANGED vars
  BY <1>1 DEF vars, Base, ClientTypes, Files, OneConnection, IoTypes, PoolTypes, WorkerTypes, Latches, Pc
<1>2. CASE Next
  BY <1>2, ClientKeeps, WorkerKeeps, IoKeeps, StopKeeps DEF Next
<1>3. QED BY <1>1, <1>2

LEMMA TypeFollows == Base => TypeOK
<1> SUFFICES ASSUME Base PROVE TypeOK
  OBVIOUS
<1>1. /\ file \in [Fds -> Clients \cup {NoClient}] /\ conns \in [OpenIn(file) -> Connection(plan)]
      /\ EpOK(ep, OpenIn(file)) /\ DOMAIN conns = OpenIn(file)
  BY DEF Base, Files
<1>2. \A fd \in Fds : fd \in DOMAIN conns <=> file[fd] # NoClient
  BY <1>1 DEF OpenIn
<1>3. \A fd, other \in DOMAIN conns : file[fd] = file[other] => fd = other
  BY <1>1 DEF Base, OneConnection
<1>4. IsInjective(ep.ready) /\ Len(ep.ready) <= MaxFd + 2
  <2>1. ep.ready \in Seq(1 .. MaxFd + 2) /\ IsInjective(ep.ready) /\ MaxFd + 2 \in Nat
    BY <1>1, SizesAssumption DEF EpOK
  <2>2. QED BY <2>1, ListFits
<1>5. Unit(plan) = Stmts \cup {End}
  BY DEF Unit, Stmts, StmtsOf, Script
<1>6. ASSUME NEW fd \in DOMAIN conns PROVE ToSet(conns[fd].read_buf) \subseteq Stmts \cup {End}
  <2>1. conns[fd].read_buf \in Seq(Unit(plan))
    BY <1>1, ConnIs
  <2>2. DOMAIN conns[fd].read_buf = 1 .. Len(conns[fd].read_buf)
        /\ \A i \in 1 .. Len(conns[fd].read_buf) : conns[fd].read_buf[i] \in Unit(plan)
    BY <2>1, LenProperties, ElementOfSeq
  <2>3. QED BY <1>5, <2>2 DEF ToSet
<1>7. ASSUME NEW i \in DOMAIN queue PROVE Last(queue[i].sql) = End
  <2>1. queue \in Seq([conn_fd : Fds, sql : Text(plan)])
    BY DEF Base, PoolTypes
  <2>2. queue[i] \in [conn_fd : Fds, sql : Text(plan)]
    BY <2>1, LenProperties, ElementOfSeq
  <2>3. QED BY <2>2 DEF Text, Last
<1>8. parser.holder # Free => Pc(parser.holder) = "analyze"
  BY DEF Base, Latches
<1>9. conn_mutex \in Workers => Pc(conn_mutex) = "respond"
  BY DEF Base, Latches
<1>10. QED BY <1>2, <1>3, <1>4, <1>6, <1>7, <1>8, <1>9 DEF TypeOK

\* Every connection is found by the descriptor of one client, and every open descriptor has
\* its connection; epoll reports no descriptor twice and none that is closed; what waits in
\* the pool is a whole statement, and the parser and the table of connections are locked by
\* workers that use them (epoll_server.cpp:112-329, rmdb.cpp:514-695).
THEOREM TypeCorrect == Spec => []TypeOK
<1>1. Spec => []Base
  <2>1. Init => Base
    BY BaseInit
  <2>2. Base /\ [Next]_vars => Base'
    BY BaseNext
  <2>3. QED BY <2>1, <2>2, PTL DEF Spec
<1>2. Base => TypeOK
  BY TypeFollows
<1>3. QED BY <1>1, <1>2, PTL

-----------------------------------------------------------------------------
(* The input of a client that waits for its answers, on its way through    *)
(* the server: q is what the client means to send, k the client, s its     *)
(* socket, y its connection, ws the workers, qu the queue of the pool.     *)

InputOf(q, i) == IF i % 2 = 0 THEN End ELSE q[(i + 1) \div 2]
TextOf(q, n) == <<q[n + 1], End>>

\* The answers made for the client, and the units of its input that statements were made of.
Made(k, s, y) == Len(k.got) + Len(s.out) + Len(y.write_buf)
Left(k, s, y) == k.sent - Len(s.in) - Len(y.read_buf)
Calm(k, s, y) == Len(s.out) = 0 /\ Len(y.write_buf) = 0 /\ Left(k, s, y) = 2 * Len(k.got)

\* What the client has been told, or will read next, is what its statements mean.
Right(q, k, s) ==
    /\ k.sent <= 2 * Len(q) /\ 2 * (Len(k.got) + Len(s.out)) <= k.sent
    /\ \A i \in 1 .. Len(k.got) : k.got[i] = Meant(q[i])
    /\ \A i \in 1 .. Len(s.out) : s.out[i] = Meant(q[Len(k.got) + i])

\* Before the server has accepted its connection.
Unserved(q, k, s) ==
    /\ k.got = <<>> /\ s.out = <<>> /\ Len(s.in) = k.sent
    /\ \A i \in 1 .. k.sent : s.in[i] = InputOf(q, i)

\* At most one statement has no answer yet, and what it has left of the input is in order.
Track(q, k, s, y) ==
    /\ Left(k, s, y) \in {2 * Made(k, s, y), 2 * Made(k, s, y) + 2}
    /\ \A i \in 1 .. Len(y.read_buf) : y.read_buf[i] = InputOf(q, Left(k, s, y) + i)
    /\ \A i \in 1 .. Len(s.in) : s.in[i] = InputOf(q, Left(k, s, y) + Len(y.read_buf) + i)
    /\ \A i \in 1 .. Len(y.write_buf) : y.write_buf[i] = Meant(q[Len(k.got) + Len(s.out) + i])
    /\ s.in # <<>> => Calm(k, s, y) /\ Len(y.read_buf) <= 1

\* The I/O thread x is about to make a statement of the input that came in on fd.
Dispatching(x, fd) == x.fd = fd /\ (x.pc = "dispatch" \/ (x.pc = "read" /\ x.dispatch))

\* Statements of fd in the queue, in the hands of workers, and just answered.
Queued(qu, i, fd) == qu[i].conn_fd = fd
Works(ws, w, fd) == ws[w].pc \in Working /\ ws[w].fd = fd
Replies(ws, w, fd) == ws[w].pc = "respond" /\ ws[w].fd = fd
Busy(qu, ws, fd) ==
    (\E i \in DOMAIN qu : Queued(qu, i, fd)) \/ (\E w \in Workers : Works(ws, w, fd))

\* The pool has one statement of fd, or none.
Single(qu, ws, fd) ==
    /\ \A i, j \in DOMAIN qu : Queued(qu, i, fd) /\ Queued(qu, j, fd) => i = j
    /\ \A v, w \in Workers : Works(ws, v, fd) /\ Works(ws, w, fd) => v = w
    /\ \A i \in DOMAIN qu, w \in Workers : ~(Queued(qu, i, fd) /\ Works(ws, w, fd))

\* It is the one after the first n, or the answer to that.
Carries(qu, ws, fd, q, n) ==
    /\ \A i \in DOMAIN qu : Queued(qu, i, fd) => qu[i].sql = TextOf(q, n)
    /\ \A w \in Workers : Works(ws, w, fd) =>
         /\ ws[w].pc \in {"begin", "analyze"} => ws[w].sql = TextOf(q, n)
         /\ ws[w].pc = "answer" => ws[w].plan = Meant(q[n + 1])

\* All of it together, for a client that has the connection fd.
Line(q, k, s, y, x, qu, ws, fd) ==
    /\ Track(q, k, s, y)
    /\ Dispatching(x, fd) => Calm(k, s, y)
    /\ (\E w \in Workers : Replies(ws, w, fd)) => y.write_buf # <<>> /\ Left(k, s, y) = 2 * Made(k, s, y)
    /\ Busy(qu, ws, fd) => Left(k, s, y) = 2 * Made(k, s, y) + 2
    /\ Single(qu, ws, fd) /\ Carries(qu, ws, fd, q, Made(k, s, y))

FlowOf(c) ==
    LET q == plan.script[c].stmts
    IN  /\ Right(q, cl[c], sock[c])
        /\ cl[c].state = "new" \/ c \in ToSet(backlog) => Unserved(q, cl[c], sock[c])
        /\ \A fd \in OpenIn(file) : file[fd] = c =>
             Line(q, cl[c], sock[c], conns[fd], io, queue, wk, fd)

\* The invariant of the answers.
Flow == ~ reused /\ Alike => \A c \in Clients : plan.script[c].waits => FlowOf(c)

LEMMA InputIs ==
    ASSUME NEW q, NEW n \in Nat
    PROVE  InputOf(q, 2 * n + 1) = q[n + 1] /\ InputOf(q, 2 * n + 2) = End
<1>1. (2 * n + 1) % 2 = 1 /\ (2 * n + 2) % 2 = 0 /\ ((2 * n + 1) + 1) \div 2 = n + 1
  OBVIOUS
<1>2. QED BY <1>1 DEF InputOf

LEMMA Sizes ==
    ASSUME NEW p, NEW k \in Client, NEW s \in Socket(p), NEW y \in Connection(p)
    PROVE  /\ k.got \in Seq(Answer) /\ s.in \in Seq(Unit(p)) /\ s.out \in Seq(Answer)
           /\ y.read_buf \in Seq(Unit(p)) /\ y.write_buf \in Seq(Answer)
           /\ k.sent \in Nat /\ Len(k.got) \in Nat /\ Len(s.in) \in Nat /\ Len(s.out) \in Nat
           /\ Len(y.read_buf) \in Nat /\ Len(y.write_buf) \in Nat
           /\ Made(k, s, y) \in Nat /\ Left(k, s, y) \in Int
<1>1. /\ k.got \in Seq(Answer) /\ s.in \in Seq(Unit(p)) /\ s.out \in Seq(Answer)
      /\ y.read_buf \in Seq(Unit(p)) /\ y.write_buf \in Seq(Answer) /\ k.sent \in Nat
  BY DEF Client, Socket, Connection
<1>2. /\ Len(k.got) \in Nat /\ Len(s.in) \in Nat /\ Len(s.out) \in Nat
      /\ Len(y.read_buf) \in Nat /\ Len(y.write_buf) \in Nat
  BY <1>1, LenProperties
<1>3. Made(k, s, y) \in Nat
  <2> DEFINE a == Len(k.got)
             b == Len(s.out)
             d == Len(y.write_buf)
  <2>1. a \in Nat /\ b \in Nat /\ d \in Nat
    BY <1>2
  <2>2. Made(k, s, y) = a + b + d
    BY DEF Made
  <2> HIDE DEF a, b, d
  <2>3. QED BY <2>1, <2>2
<1>4. Left(k, s, y) \in Int
  BY <1>1, <1>2 DEF Left
<1>5. QED BY <1>1, <1>2, <1>3, <1>4

\* What a client sends: the units of its input up to the n-th.
NextUnits(p, q, from, n, u) ==
    /\ n \in Nat /\ n > from /\ u \in Seq(Unit(p)) /\ Len(u) = n - from
    /\ \A i \in 1 .. n - from : u[i] = InputOf(q, from + i)
Sends(p, q, k, s, n, u, k2, s2) ==
    /\ Len(k.got) = k.sent \div 2 /\ NextUnits(p, q, k.sent, n, u)
    /\ k2.sent = n /\ k2.got = k.got
    /\ s2.in = s.in \o u /\ s2.out = s.out

\* A client that has all its answers finds the server calm, and sends the next units.
LEMMA SendTracks ==
    ASSUME NEW p, NEW q, NEW k \in Client, NEW s \in Socket(p), NEW y \in Connection(p),
           Track(q, k, s, y), NEW n, NEW u, NEW k2, NEW s2, Sends(p, q, k, s, n, u, k2, s2)
    PROVE  /\ Calm(k, s, y) /\ Calm(k2, s2, y) /\ Track(q, k2, s2, y)
           /\ Made(k2, s2, y) = Made(k, s, y) /\ Left(k2, s2, y) = Left(k, s, y)
<1> DEFINE G == Len(k.got)
           O == Len(s.out)
           W == Len(y.write_buf)
           I == Len(s.in)
           R == Len(y.read_buf)
           S == k.sent
           L == Left(k, s, y)
<1>. /\ k2.sent = n /\ k2.got = k.got /\ s2.in = s.in \o u /\ s2.out = s.out
     /\ Len(k.got) = k.sent \div 2
  BY DEF Sends
<1>0. /\ n \in Nat /\ n > S /\ u \in Seq(Unit(p)) /\ Len(u) = n - S
      /\ \A i \in 1 .. n - S : u[i] = InputOf(q, S + i)
  BY DEF Sends, NextUnits
<1>1. /\ G \in Nat /\ O \in Nat /\ W \in Nat /\ I \in Nat /\ R \in Nat /\ S \in Nat
      /\ s.in \in Seq(Unit(p))
  BY Sizes
<1>2. L = S - I - R /\ L \in {2 * (G + O + W), 2 * (G + O + W) + 2}
  BY DEF Track, Left, Made
<1>3. Len(s2.in) = I + (n - S)
      /\ \A i \in 1 .. I + (n - S) : s2.in[i] = IF i <= I THEN s.in[i] ELSE u[i - I]
  <2>1. Len(s.in \o u) = Len(s.in) + Len(u)
        /\ \A i \in 1 .. Len(s.in) + Len(u) :
              (s.in \o u)[i] = IF i <= Len(s.in) THEN s.in[i] ELSE u[i - Len(s.in)]
    BY <1>0, <1>1, ConcatProperties
  <2>2. Len(u) = n - S
    BY <1>0
  <2>3. QED BY <2>1, <2>2
<1>4. G = S \div 2
  OBVIOUS
<1> HIDE DEF G, O, W, I, R, S, L
<1>5. S <= 2 * G + 1
  BY <1>0, <1>1, <1>4
<1>6. O = 0 /\ W = 0 /\ L = 2 * G /\ R <= 1 /\ L + R + I = S
  BY <1>1, <1>2, <1>5
<1>7. Calm(k, s, y) /\ R <= 1
  BY <1>6 DEF Calm, O, W, L, G
<1>8. Left(k2, s2, y) = L /\ Made(k2, s2, y) = Made(k, s, y)
  <2>1. Left(k2, s2, y) = n - (I + (n - S)) - R
    BY <1>3 DEF Left, R
  <2>2. n - (I + (n - S)) - R = L
    BY <1>0, <1>1, <1>2
  <2>3. Made(k2, s2, y) = Made(k, s, y)
    BY DEF Made
  <2>4. QED BY <2>1, <2>2, <2>3
<1>9. Calm(k2, s2, y)
  BY <1>7, <1>8 DEF Calm, L
<1>10. \A i \in 1 .. Len(s2.in) : s2.in[i] = InputOf(q, L + R + i)
  <2>1. ASSUME NEW i \in 1 .. I + (n - S) PROVE s2.in[i] = InputOf(q, L + R + i)
    <3>1. CASE i <= I
      <4>1. i \in 1 .. I /\ s.in[i] = InputOf(q, L + R + i)
        BY <1>1, <3>1 DEF Track, L, R, I
      <4>2. QED BY <1>0, <1>3, <3>1, <4>1
    <3>2. CASE ~(i <= I)
      <4>1. i - I \in 1 .. n - S
        BY <1>0, <1>1, <3>2
      <4>2. u[i - I] = InputOf(q, S + (i - I))
        BY <1>0, <4>1
      <4>3. S + (i - I) = L + R + i
        BY <1>0, <1>1, <1>2
      <4>4. QED BY <1>3, <3>2, <4>2, <4>3
    <3>3. QED BY <3>1, <3>2
  <2>2. QED BY <1>3, <2>1
<1>11. /\ \A i \in 1 .. Len(y.read_buf) : y.read_buf[i] = InputOf(q, L + i)
       /\ \A i \in 1 .. Len(y.write_buf) : y.write_buf[i] = Meant(q[Len(k2.got) + Len(s2.out) + i])
       /\ L \in {2 * Made(k, s, y), 2 * Made(k, s, y) + 2}
  BY DEF Track, L
<1>12. Track(q, k2, s2, y)
  BY <1>7, <1>8, <1>9, <1>10, <1>11 DEF Track, R
<1>13. QED BY <1>7, <1>8, <1>9, <1>12 DEF L

\* An answer goes from the socket to the client.
LEMMA ReceiveTracks ==
    ASSUME NEW p, NEW q, NEW k \in Client, NEW s \in Socket(p), NEW y \in Connection(p),
           Track(q, k, s, y), s.out # <<>>,
           NEW k2, k2.sent = k.sent, k2.got = Append(k.got, Head(s.out)),
           NEW s2, s2.in = s.in, s2.out = Tail(s.out)
    PROVE  /\ Track(q, k2, s2, y) /\ ~ Calm(k, s, y)
           /\ Made(k2, s2, y) = Made(k, s, y) /\ Left(k2, s2, y) = Left(k, s, y)
<1>1. /\ Len(k.got) \in Nat /\ Len(s.out) \in Nat /\ Len(y.write_buf) \in Nat
      /\ s.out \in Seq(Answer) /\ k.got \in Seq(Answer)
  BY Sizes
<1>2. Len(s.out) > 0 /\ Len(s2.out) = Len(s.out) - 1 /\ Head(s.out) \in Answer
  BY <1>1, HeadTailProperties, EmptySeq
<1>3. Len(k2.got) = Len(k.got) + 1
  BY <1>1, <1>2, AppendProperties
<1>4. Left(k2, s2, y) = Left(k, s, y)
  BY DEF Left
<1>5. Len(k2.got) + Len(s2.out) = Len(k.got) + Len(s.out)
  <2> DEFINE a == Len(k.got)
             b == Len(s.out)
             a2 == Len(k2.got)
             b2 == Len(s2.out)
  <2>1. a \in Nat /\ b \in Nat /\ a2 = a + 1 /\ b2 = b - 1
    BY <1>1, <1>2, <1>3
  <2> HIDE DEF a, b, a2, b2
  <2>2. a2 + b2 = a + b
    BY <2>1
  <2>3. QED BY <2>2 DEF a, b, a2, b2
<1>6. Made(k2, s2, y) = Made(k, s, y)
  BY <1>5 DEF Made
<1>7. ~ Calm(k, s, y)
  BY <1>2 DEF Calm
<1>8. Track(q, k2, s2, y)
  BY <1>4, <1>5, <1>6, <1>7 DEF Track
<1>9. QED BY <1>4, <1>6, <1>7, <1>8

LEMMA ReceiveRight ==
    ASSUME NEW p, NEW q, NEW k \in Client, NEW s \in Socket(p), Right(q, k, s), s.out # <<>>,
           NEW k2, k2.sent = k.sent, k2.got = Append(k.got, Head(s.out)),
           NEW s2, s2.out = Tail(s.out)
    PROVE  Right(q, k2, s2)
<1> DEFINE g == k.got
           o == s.out
           G == Len(g)
           O == Len(o)
<1>1. g \in Seq(Answer) /\ o \in Seq(Answer) /\ G \in Nat /\ O \in Nat /\ k.sent \in Nat
  BY LenProperties DEF Client, Socket
<1>2. /\ O > 0 /\ Head(o) = o[1] /\ Head(o) \in Answer /\ Len(Tail(o)) = O - 1
      /\ \A i \in 1 .. O - 1 : Tail(o)[i] = o[i + 1]
  BY <1>1, HeadTailProperties, EmptySeq
<1>3. /\ Len(Append(g, Head(o))) = G + 1 /\ Append(g, Head(o))[G + 1] = Head(o)
      /\ \A i \in 1 .. G : Append(g, Head(o))[i] = g[i]
  BY <1>1, <1>2, AppendProperties
<1>4. /\ k.sent <= 2 * Len(q) /\ 2 * (G + O) <= k.sent
      /\ \A i \in 1 .. G : g[i] = Meant(q[i])
      /\ \A i \in 1 .. O : o[i] = Meant(q[G + i])
  BY DEF Right
<1> DEFINE g2 == k2.got
           o2 == s2.out
           G2 == Len(g2)
           O2 == Len(o2)
<1>5. /\ G2 = G + 1 /\ O2 = O - 1 /\ g2[G + 1] = o[1]
      /\ \A i \in 1 .. G : g2[i] = g[i]
      /\ \A i \in 1 .. O - 1 : o2[i] = o[i + 1]
  BY <1>2, <1>3
<1> HIDE DEF g, o, G, O, g2, o2, G2, O2
<1>6. 2 * (G2 + O2) <= k2.sent
  <2>1. G2 + O2 = G + O
    BY <1>1, <1>5
  <2>2. QED BY <1>4, <2>1
<1>7. ASSUME NEW i \in 1 .. G2 PROVE g2[i] = Meant(q[i])
  <2>1. CASE i = G + 1
    <3>1. o[1] = Meant(q[G + 1])
      BY <1>1, <1>2, <1>4
    <3>2. QED BY <1>5, <2>1, <3>1
  <2>2. CASE i # G + 1
    <3>1. i \in 1 .. G
      BY <1>1, <1>5, <2>2
    <3>2. QED BY <1>4, <1>5, <3>1
  <2>3. QED BY <2>1, <2>2
<1>8. ASSUME NEW i \in 1 .. O2 PROVE o2[i] = Meant(q[G2 + i])
  <2>1. i + 1 \in 1 .. O /\ i \in 1 .. O - 1
    BY <1>1, <1>5
  <2>2. G + (i + 1) = G2 + i
    BY <1>1, <1>5
  <2>3. o2[i] = o[i + 1] /\ o[i + 1] = Meant(q[G + (i + 1)])
    BY <1>4, <1>5, <2>1
  <2>4. QED BY <2>2, <2>3
<1>9. k2.sent <= 2 * Len(q)
  BY <1>4
<1>10. QED BY <1>6, <1>7, <1>8, <1>9 DEF Right, g2, o2, G2, O2

LEMMA SendRight ==
    ASSUME NEW p, NEW q, NEW k \in Client, NEW s \in Socket(p), Right(q, k, s),
           NEW n \in Nat, n > k.sent, n <= 2 * Len(q),
           NEW k2, k2.sent = n, k2.got = k.got, NEW s2, s2.out = s.out
    PROVE  Right(q, k2, s2)
<1> DEFINE a == Len(k.got)
           b == Len(s.out)
           m == k.sent
<1>1. a \in Nat /\ b \in Nat /\ m \in Nat
  BY LenProperties DEF Client, Socket
<1>2. 2 * (a + b) <= m
  BY DEF Right
<1> HIDE DEF a, b, m
<1>3. 2 * (a + b) <= n
  BY <1>1, <1>2 DEF m
<1>4. QED BY <1>3 DEF Right, a, b

LEMMA SendUnserved ==
    ASSUME NEW p, NEW q, NEW k \in Client, NEW s \in Socket(p), Unserved(q, k, s),
           NEW n \in Nat, n > k.sent, NEW u \in Seq(Unit(p)), Len(u) = n - k.sent,
           \A i \in 1 .. n - k.sent : u[i] = InputOf(q, k.sent + i),
           NEW k2, k2.sent = n, k2.got = k.got,
           NEW s2, s2.in = s.in \o u, s2.out = s.out
    PROVE  Unserved(q, k2, s2)
<1> DEFINE S == k.sent
<1>1. s.in \in Seq(Unit(p)) /\ S \in Nat /\ Len(s.in) = S
      /\ \A i \in 1 .. S : s.in[i] = InputOf(q, i)
  BY DEF Unserved, Client, Socket
<1>2. Len(s2.in) = S + (n - S)
      /\ \A i \in 1 .. S + (n - S) : s2.in[i] = IF i <= S THEN s.in[i] ELSE u[i - S]
  <2>1. Len(s.in \o u) = Len(s.in) + Len(u)
        /\ \A i \in 1 .. Len(s.in) + Len(u) :
              (s.in \o u)[i] = IF i <= Len(s.in) THEN s.in[i] ELSE u[i - Len(s.in)]
    BY <1>1, ConcatProperties
  <2>2. Len(u) = n - S
    OBVIOUS
  <2>3. QED BY <1>1, <2>1, <2>2
<1>3. \A i \in 1 .. n - S : u[i] = InputOf(q, S + i)
  OBVIOUS
<1> HIDE DEF S
<1>4. S + (n - S) = n
  BY <1>1
<1>5. ASSUME NEW i \in 1 .. n PROVE s2.in[i] = InputOf(q, i)
  <2>1. CASE i <= S
    BY <1>1, <1>2, <1>4, <2>1
  <2>2. CASE ~(i <= S)
    <3>1. i - S \in 1 .. n - S /\ S + (i - S) = i
      BY <1>1, <2>2
    <3>2. u[i - S] = InputOf(q, i)
      BY <1>3, <3>1
    <3>3. QED BY <1>2, <1>4, <2>2, <3>2
  <2>3. QED BY <2>1, <2>2
<1>6. QED BY <1>2, <1>4, <1>5 DEF Unserved

\* What a statement is made of: the next two units.
LEMMA TakeTracks ==
    ASSUME NEW p, NEW q \in Seq(Statement), NEW k \in Client, NEW s \in Socket(p),
           NEW y \in Connection(p), Right(q, k, s), Track(q, k, s, y),
           Left(k, s, y) = 2 * Made(k, s, y), HasStatement(y.read_buf),
           NEW y2, y2.read_buf = AfterFirst(y.read_buf), y2.write_buf = y.write_buf
    PROVE  /\ s.in = <<>> /\ First(y.read_buf) = TextOf(q, Made(k, s, y))
           /\ Track(q, k, s, y2)
           /\ Made(k, s, y2) = Made(k, s, y) /\ Left(k, s, y2) = 2 * Made(k, s, y) + 2
<1> DEFINE rb == y.read_buf
           R == Len(rb)
           M == Made(k, s, y)
           L == Left(k, s, y)
           I == Len(s.in)
           S == k.sent
           m == Semi(rb)
           f == First(rb)
           r2 == AfterFirst(rb)
<1>1. rb \in Seq(Unit(p)) /\ R \in Nat /\ M \in Nat /\ I \in Nat /\ S \in Nat
  BY Sizes
<1>2. m \in 1 .. R /\ rb[m] = End /\ \A j \in 1 .. m - 1 : rb[j] # End
  BY <1>1, SemiIs
<1>3. /\ f \in Seq(Unit(p)) /\ Len(f) = m /\ \A i \in 1 .. m : f[i] = rb[i]
      /\ Len(r2) = R - m /\ \A i \in 1 .. R - m : r2[i] = rb[m + i]
  BY <1>1, FirstIs
<1>4. L = 2 * M /\ L = S - I - R /\ S <= 2 * Len(q) /\ Len(q) \in Nat
  BY LenProperties DEF Left, Right
<1>5. \A i \in 1 .. R : rb[i] = InputOf(q, L + i)
  BY DEF Track
<1>6. s.in # <<>> => R <= 1
  BY DEF Track
<1>7. /\ Left(k, s, y2) = S - I - Len(r2) /\ Made(k, s, y2) = M
  BY DEF Left, Made
<1> HIDE DEF rb, R, M, L, I, S, m, f, r2
<1>8. M + 1 \in 1 .. Len(q)
  BY <1>1, <1>2, <1>4
<1>9. q[M + 1] # End
  <2>1. q[M + 1] \in Statement
    BY <1>8, ElementOfSeq
  <2>2. QED BY <2>1, NamesAssumption
<1>10. InputOf(q, L + 1) = q[M + 1] /\ InputOf(q, L + 2) = End
  BY <1>1, <1>4, InputIs
<1>11. rb[1] = q[M + 1] /\ m # 1
  BY <1>1, <1>2, <1>5, <1>9, <1>10
<1>12. R >= 2 /\ rb[2] = End
  BY <1>1, <1>2, <1>5, <1>10, <1>11
<1>13. m = 2
  BY <1>1, <1>2, <1>11, <1>12
<1>14. s.in = <<>>
  BY <1>1, <1>6, <1>12
<1>15. f = TextOf(q, M)
  <2> DEFINE t == TextOf(q, M)
  <2>1. t \in Seq({q[M + 1], End}) /\ Len(t) = 2 /\ t[1] = q[M + 1] /\ t[2] = End
    BY DEF TextOf
  <2>2. Len(f) = 2 /\ f[1] = t[1] /\ f[2] = t[2]
    BY <1>3, <1>11, <1>12, <1>13, <2>1
  <2> HIDE DEF t
  <2>3. Len(f) = Len(t) /\ \A i \in 1 .. Len(f) : f[i] = t[i]
    <3>1. \A i \in 1 .. 2 : i = 1 \/ i = 2
      OBVIOUS
    <3>2. QED BY <2>1, <2>2, <3>1
  <2>4. f = t
    BY <1>3, <2>1, <2>3, SeqEqual
  <2>5. QED BY <2>4 DEF t
<1>16. Left(k, s, y2) = L + 2
  BY <1>1, <1>3, <1>4, <1>7, <1>13
<1>17. ASSUME NEW i \in 1 .. Len(r2) PROVE r2[i] = InputOf(q, L + 2 + i)
  <2>1. i \in 1 .. R - m /\ m + i \in 1 .. R /\ L + (m + i) = L + 2 + i
    BY <1>1, <1>3, <1>4, <1>13
  <2>2. QED BY <1>3, <1>5, <2>1
<1>18. L + 2 \in {2 * M, 2 * M + 2}
  BY <1>4
<1>19. \A i \in 1 .. Len(y2.write_buf) : y2.write_buf[i] = Meant(q[Len(k.got) + Len(s.out) + i])
  BY DEF Track
<1>20. Len(s.in) = 0
  BY <1>14, EmptySeq
<1>21. y2.read_buf = r2
  BY DEF r2, rb
<1>22. \A i \in 1 .. Len(s.in) : s.in[i] = InputOf(q, L + 2 + Len(r2) + i)
  BY <1>20
<1>23. Track(q, k, s, y2)
  BY <1>7, <1>14, <1>16, <1>17, <1>18, <1>19, <1>21, <1>22 DEF Track
<1>24. QED BY <1>4, <1>7, <1>14, <1>15, <1>16, <1>23 DEF f, rb, M

LEMMA AnswerTracks ==
    ASSUME NEW p, NEW q, NEW k \in Client, NEW s \in Socket(p), NEW y \in Connection(p),
           Track(q, k, s, y), Left(k, s, y) = 2 * Made(k, s, y) + 2,
           NEW a \in Answer, a = Meant(q[Made(k, s, y) + 1]),
           NEW y2, y2.read_buf = y.read_buf, y2.write_buf = Append(y.write_buf, a)
    PROVE  /\ Track(q, k, s, y2) /\ ~ Calm(k, s, y) /\ y2.write_buf # <<>>
           /\ Made(k, s, y2) = Made(k, s, y) + 1 /\ Left(k, s, y2) = 2 * Made(k, s, y2)
<1> DEFINE G == Len(k.got)
           O == Len(s.out)
           wb == y.write_buf
           W == Len(wb)
           M == Made(k, s, y)
           L == Left(k, s, y)
           w2 == y2.write_buf
           W2 == Len(w2)
<1>1. wb \in Seq(Answer) /\ G \in Nat /\ O \in Nat /\ W \in Nat /\ M \in Nat
  BY Sizes
<1>2. W2 = W + 1 /\ w2[W + 1] = a /\ \A i \in 1 .. W : w2[i] = wb[i]
  BY <1>1, AppendProperties
<1>3. w2 # <<>>
  <2> HIDE DEF wb, W, w2
  <2>1. W2 # 0
    BY <1>1, <1>2
  <2>2. Len(<<>>) = 0
    BY EmptySeq
  <2>3. QED BY <2>1, <2>2
<1>4. M = G + O + W /\ L = 2 * M + 2 /\ a = Meant(q[M + 1])
  BY DEF Made
<1>5. Left(k, s, y2) = L /\ Made(k, s, y2) = G + O + W2
  BY DEF Left, Made
<1>6. \A i \in 1 .. W : wb[i] = Meant(q[G + O + i])
  BY DEF Track
<1>7. Calm(k, s, y) => O = 0 /\ W = 0 /\ L = 2 * G
  BY DEF Calm
<1> HIDE DEF G, O, wb, W, M, L, w2, W2
<1>8. Made(k, s, y2) = M + 1 /\ L = 2 * (M + 1)
  BY <1>1, <1>2, <1>4, <1>5
<1>9. ~ Calm(k, s, y)
  BY <1>1, <1>4, <1>7
<1>10. ASSUME NEW i \in 1 .. W2 PROVE w2[i] = Meant(q[G + O + i])
  <2>1. CASE i = W + 1
    <3>1. G + O + i = M + 1
      BY <1>1, <1>4, <2>1
    <3>2. QED BY <1>2, <1>4, <2>1, <3>1
  <2>2. CASE i # W + 1
    <3>1. i \in 1 .. W
      BY <1>1, <1>2, <2>2
    <3>2. QED BY <1>2, <1>6, <3>1
  <2>3. QED BY <2>1, <2>2
<1>11. s.in = <<>>
  BY <1>9 DEF Track
<1>12. /\ \A i \in 1 .. Len(y2.read_buf) : y2.read_buf[i] = InputOf(q, L + i)
       /\ \A i \in 1 .. Len(s.in) : s.in[i] = InputOf(q, L + Len(y2.read_buf) + i)
  BY DEF Track, L
<1>13. Track(q, k, s, y2)
  BY <1>5, <1>8, <1>10, <1>11, <1>12 DEF Track, w2, W2, G, O
<1>14. QED BY <1>3, <1>5, <1>8, <1>9, <1>13 DEF M, w2


Reads(s, y, s2, y2) ==
    /\ s.in # <<>> /\ s2.in = <<>> /\ s2.out = s.out
    /\ y2.read_buf = y.read_buf \o s.in /\ y2.write_buf = y.write_buf

\* The I/O thread puts what came in to the buffer of the connection.
LEMMA ReadTracks ==
    ASSUME NEW p, NEW q, NEW k \in Client, NEW s \in Socket(p), NEW y \in Connection(p),
           Track(q, k, s, y), NEW s2, NEW y2, Reads(s, y, s2, y2)
    PROVE  /\ Track(q, k, s2, y2) /\ Calm(k, s, y) /\ Calm(k, s2, y2)
           /\ Made(k, s2, y2) = Made(k, s, y) /\ Left(k, s2, y2) = Left(k, s, y)
<1> DEFINE rb == y.read_buf
           R == Len(rb)
           in == s.in
           I == Len(in)
           L == Left(k, s, y)
           S == k.sent
           r2 == y2.read_buf
           R2 == Len(r2)
<1>. /\ s.in # <<>> /\ s2.in = <<>> /\ s2.out = s.out
     /\ y2.read_buf = y.read_buf \o s.in /\ y2.write_buf = y.write_buf
  BY DEF Reads
<1>1. rb \in Seq(Unit(p)) /\ in \in Seq(Unit(p)) /\ R \in Nat /\ I \in Nat /\ S \in Nat
  BY Sizes
<1>2. R2 = R + I /\ \A i \in 1 .. R + I : r2[i] = IF i <= R THEN rb[i] ELSE in[i - R]
  <2>1. y.read_buf \in Seq(Unit(p)) /\ s.in \in Seq(Unit(p))
    BY <1>1
  <2>2. Len(y.read_buf \o s.in) = Len(y.read_buf) + Len(s.in)
        /\ \A i \in 1 .. Len(y.read_buf) + Len(s.in) : (y.read_buf \o s.in)[i] =
              IF i <= Len(y.read_buf) THEN y.read_buf[i] ELSE s.in[i - Len(y.read_buf)]
    BY <2>1, ConcatProperties
  <2>3. QED BY <2>2
<1>3. Len(s2.in) = 0 /\ L = S - I - R
  BY EmptySeq DEF Left
<1>4. Calm(k, s, y) /\ (\A i \in 1 .. R : rb[i] = InputOf(q, L + i))
      /\ (\A i \in 1 .. I : in[i] = InputOf(q, L + R + i))
  BY DEF Track
<1>5. Left(k, s2, y2) = S - 0 - R2
  BY <1>3 DEF Left
<1> HIDE DEF rb, R, in, I, L, S, r2, R2
<1>6. Left(k, s2, y2) = L
  BY <1>1, <1>2, <1>3, <1>5
<1>7. Made(k, s2, y2) = Made(k, s, y)
  BY DEF Made
<1>8. Calm(k, s2, y2)
  BY <1>4, <1>6 DEF Calm, L
<1>9. ASSUME NEW i \in 1 .. R2 PROVE r2[i] = InputOf(q, L + i)
  <2>1. CASE i <= R
    <3>1. i \in 1 .. R
      BY <1>1, <2>1
    <3>2. QED BY <1>2, <1>4, <2>1, <3>1
  <2>2. CASE ~(i <= R)
    <3>1. i - R \in 1 .. I
      BY <1>1, <1>2, <2>2
    <3>2. in[i - R] = InputOf(q, L + R + (i - R))
      BY <1>4, <3>1
    <3>3. L + R + (i - R) = L + i
      BY <1>1, <1>3
    <3>4. QED BY <1>2, <2>2, <3>2, <3>3
  <2>3. QED BY <2>1, <2>2
<1>10. \A i \in 1 .. Len(s2.in) : s2.in[i] = InputOf(q, L + R2 + i)
  BY <1>3
<1>11. /\ \A i \in 1 .. Len(y2.write_buf) : y2.write_buf[i] = Meant(q[Len(k.got) + Len(s2.out) + i])
       /\ L \in {2 * Made(k, s, y), 2 * Made(k, s, y) + 2}
  BY DEF Track, L
<1>12. Track(q, k, s2, y2)
  BY <1>6, <1>7, <1>9, <1>10, <1>11 DEF Track, r2, R2
<1>13. QED BY <1>4, <1>6, <1>7, <1>8, <1>12 DEF L

Writes(s, y, n, a, s2, y2) ==
    /\ n \in 0 .. Len(y.write_buf) /\ a \in Seq(Answer) /\ Len(a) = n
    /\ \A i \in 1 .. n : a[i] = y.write_buf[i]
    /\ s2.in = s.in /\ s2.out = s.out \o a
    /\ y2.read_buf = y.read_buf /\ Len(y2.write_buf) = Len(y.write_buf) - n
    /\ \A i \in 1 .. Len(y.write_buf) - n : y2.write_buf[i] = y.write_buf[n + i]

\* Answers go from the connection to the socket.
LEMMA WriteTracks ==
    ASSUME NEW p, NEW q, NEW k \in Client, NEW s \in Socket(p), NEW y \in Connection(p),
           Track(q, k, s, y), Right(q, k, s),
           NEW n, NEW a, NEW s2, NEW y2, Writes(s, y, n, a, s2, y2)
    PROVE  /\ Track(q, k, s2, y2) /\ Right(q, k, s2) /\ (Calm(k, s, y) => Calm(k, s2, y2))
           /\ Made(k, s2, y2) = Made(k, s, y) /\ Left(k, s2, y2) = Left(k, s, y)
<1> DEFINE G == Len(k.got)
           o == s.out
           O == Len(o)
           wb == y.write_buf
           W == Len(wb)
           M == Made(k, s, y)
           L == Left(k, s, y)
           S == k.sent
           I == Len(s.in)
           R == Len(y.read_buf)
           o2 == s2.out
           O2 == Len(o2)
           w2 == y2.write_buf
           W2 == Len(w2)
<1>. /\ n \in 0 .. Len(y.write_buf) /\ a \in Seq(Answer) /\ Len(a) = n
     /\ \A i \in 1 .. n : a[i] = y.write_buf[i]
     /\ s2.in = s.in /\ s2.out = s.out \o a
     /\ y2.read_buf = y.read_buf /\ Len(y2.write_buf) = Len(y.write_buf) - n
     /\ \A i \in 1 .. Len(y.write_buf) - n : y2.write_buf[i] = y.write_buf[n + i]
  BY DEF Writes
<1>1. /\ o \in Seq(Answer) /\ G \in Nat /\ O \in Nat /\ W \in Nat /\ M \in Nat /\ S \in Nat
      /\ I \in Nat /\ R \in Nat
  BY Sizes
<1>2. O2 = O + n /\ \A i \in 1 .. O + n : o2[i] = IF i <= O THEN o[i] ELSE a[i - O]
  <2>1. Len(s.out \o a) = Len(s.out) + Len(a)
        /\ \A i \in 1 .. Len(s.out) + Len(a) :
              (s.out \o a)[i] = IF i <= Len(s.out) THEN s.out[i] ELSE a[i - Len(s.out)]
    <3>1. s.out \in Seq(Answer) /\ a \in Seq(Answer)
      BY <1>1
    <3>2. QED BY ONLY <3>1, ConcatProperties
  <2>2. QED BY <2>1
<1>3. W2 = W - n /\ \A i \in 1 .. W - n : w2[i] = wb[n + i]
  OBVIOUS
<1>4. /\ M = G + O + W /\ Made(k, s2, y2) = G + O2 + W2 /\ Left(k, s2, y2) = L /\ L = S - I - R
      /\ L \in {2 * M, 2 * M + 2}
  BY DEF Made, Left, Track
<1>5. /\ \A i \in 1 .. W : wb[i] = Meant(q[G + O + i])
      /\ \A i \in 1 .. O : o[i] = Meant(q[G + i])
      /\ \A i \in 1 .. G : k.got[i] = Meant(q[i])
      /\ S <= 2 * Len(q)
  BY DEF Track, Right
<1>6. n \in 0 .. W /\ \A i \in 1 .. n : a[i] = wb[i]
  OBVIOUS
<1>7. /\ Calm(k, s, y) <=> O = 0 /\ W = 0 /\ L = 2 * G
      /\ Calm(k, s2, y2) <=> O2 = 0 /\ W2 = 0 /\ L = 2 * G
  BY DEF Calm, Left
<1>8. /\ \A i \in 1 .. Len(y2.read_buf) : y2.read_buf[i] = InputOf(q, L + i)
      /\ \A i \in 1 .. Len(s2.in) : s2.in[i] = InputOf(q, L + Len(y2.read_buf) + i)
      /\ s2.in # <<>> => Calm(k, s, y) /\ Len(y2.read_buf) <= 1
  BY DEF Track
<1> HIDE DEF G, o, O, wb, W, M, L, S, I, R, o2, O2, w2, W2
<1>9. Made(k, s2, y2) = M
  BY <1>1, <1>2, <1>3, <1>4, <1>6
<1>10. Calm(k, s, y) => Calm(k, s2, y2)
  BY <1>1, <1>2, <1>3, <1>6, <1>7
<1>11. ASSUME NEW i \in 1 .. W2 PROVE w2[i] = Meant(q[G + O2 + i])
  <2>1. i \in 1 .. W - n /\ n + i \in 1 .. W /\ G + O + (n + i) = G + O2 + i
    BY <1>1, <1>2, <1>3, <1>6
  <2>2. QED BY <1>3, <1>5, <2>1
<1>12. ASSUME NEW i \in 1 .. O2 PROVE o2[i] = Meant(q[G + i])
  <2>1. i \in 1 .. O + n
    BY <1>2
  <2>2. CASE i <= O
    <3>1. i \in 1 .. O
      BY <1>1, <2>1, <2>2
    <3>2. QED BY <1>2, <1>5, <2>1, <2>2, <3>1
  <2>3. CASE ~(i <= O)
    <3>1. i - O \in 1 .. n /\ i - O \in 1 .. W /\ G + O + (i - O) = G + i
      BY <1>1, <1>6, <2>1, <2>3
    <3>2. o2[i] = wb[i - O]
      BY <1>2, <1>6, <2>1, <2>3, <3>1
    <3>3. QED BY <1>5, <3>1, <3>2
  <2>4. QED BY <2>2, <2>3
<1>13. 2 * (G + O2) <= S
  BY <1>1, <1>2, <1>4, <1>6
<1>14. Right(q, k, s2)
  BY <1>5, <1>12, <1>13 DEF Right, G, S, o2, O2
<1>15. Track(q, k, s2, y2)
  <2>1. L \in {2 * Made(k, s2, y2), 2 * Made(k, s2, y2) + 2} /\ Left(k, s2, y2) = L
    BY <1>4, <1>9
  <2>2. \A i \in 1 .. Len(y2.write_buf) : y2.write_buf[i] = Meant(q[Len(k.got) + Len(s2.out) + i])
    BY <1>11 DEF w2, W2, G, o2, O2
  <2>3. QED BY <1>8, <1>10, <2>1, <2>2 DEF Track
<1>16. QED BY <1>4, <1>9, <1>10, <1>14, <1>15 DEF L, M

\* A connection is accepted with all the input of its client before it.
LEMMA NewTracks ==
    ASSUME NEW p, NEW q, NEW k \in Client, NEW s \in Socket(p), NEW y \in Connection(p),
           Unserved(q, k, s), y.read_buf = <<>>, y.write_buf = <<>>
    PROVE  Track(q, k, s, y) /\ Calm(k, s, y)
<1>1. Len(k.got) = 0 /\ Len(s.out) = 0 /\ Len(y.read_buf) = 0 /\ Len(y.write_buf) = 0
      /\ k.sent \in Nat /\ Len(s.in) = k.sent
  BY EmptySeq DEF Unserved, Client
<1>2. Left(k, s, y) = 0 /\ Made(k, s, y) = 0
  BY <1>1 DEF Left, Made
<1>3. Calm(k, s, y)
  BY <1>1, <1>2 DEF Calm
<1>4. \A i \in 1 .. Len(s.in) : s.in[i] = InputOf(q, 0 + 0 + i)
  BY <1>1 DEF Unserved
<1>5. QED BY <1>1, <1>2, <1>3, <1>4 DEF Track

-----------------------------------------------------------------------------
(* What the pool does, seen from one connection.                           *)

\* The worker has nothing to do with fd that it had not before.
Kept(x, y, fd) ==
    y.fd = fd /\ y.pc \in Working \cup {"respond"} =>
        x.fd = fd /\ x.pc = y.pc /\ x.sql = y.sql /\ x.plan = y.plan

LEMMA NudgeIsKept ==
    ASSUME NEW p, NEW x \in Worker(p), NEW y, Nudge(x, y), NEW fd
    PROVE  Kept(x, y, fd)
<1>1. y.fd = x.fd /\ y.sql = x.sql /\ y.plan = x.plan /\ (y.pc = x.pc \/ y.pc = "ready")
  BY NudgeTypes
<1>2. QED BY <1>1 DEF Kept, Working

LEMMA LineKept ==
    ASSUME NEW q, NEW k, NEW s, NEW y, NEW x, NEW qu, NEW ws, NEW fd,
           Line(q, k, s, y, x, qu, ws, fd),
           NEW y2, y2.read_buf = y.read_buf, y2.write_buf = y.write_buf,
           NEW x2, Dispatching(x2, fd) => Dispatching(x, fd),
           NEW qu2, \A i \in DOMAIN qu2 : Queued(qu2, i, fd) => i \in DOMAIN qu /\ qu[i] = qu2[i],
           NEW ws2, \A w \in Workers : Kept(ws[w], ws2[w], fd)
    PROVE  Line(q, k, s, y2, x2, qu2, ws2, fd)
<1>1. /\ Track(q, k, s, y2) /\ (Calm(k, s, y) <=> Calm(k, s, y2))
      /\ Made(k, s, y2) = Made(k, s, y) /\ Left(k, s, y2) = Left(k, s, y)
  BY DEF Line, Track, Calm, Made, Left
<1>2. ASSUME NEW w \in Workers, Works(ws2, w, fd)
      PROVE  Works(ws, w, fd) /\ ws2[w].pc = ws[w].pc /\ ws2[w].sql = ws[w].sql /\ ws2[w].plan = ws[w].plan
  BY <1>2 DEF Works, Kept
<1>3. \A w \in Workers : Replies(ws2, w, fd) => Replies(ws, w, fd)
  BY DEF Replies, Kept
<1>4. \A i \in DOMAIN qu2 : Queued(qu2, i, fd) =>
         i \in DOMAIN qu /\ Queued(qu, i, fd) /\ qu2[i].sql = qu[i].sql
  BY DEF Queued
<1>5. Busy(qu2, ws2, fd) => Busy(qu, ws, fd)
  BY <1>2, <1>4 DEF Busy
<1>6. Single(qu2, ws2, fd)
  BY <1>2, <1>4 DEF Line, Single
<1>7. Carries(qu2, ws2, fd, q, Made(k, s, y))
  BY <1>2, <1>4 DEF Line, Carries
<1>8. QED BY <1>1, <1>3, <1>5, <1>6, <1>7 DEF Line

\* A worker takes the first statement of the queue.
LEMMA TakesLine ==
    ASSUME NEW q, NEW k, NEW s, NEW y, NEW x, NEW S, NEW qu \in Seq(S), NEW ws, NEW fd,
           Line(q, k, s, y, x, qu, ws, fd), qu # <<>>,
           NEW w \in Workers, ws[w].pc = "ready",
           NEW ws2, ws2[w].pc = "begin", ws2[w].fd = Head(qu).conn_fd, ws2[w].sql = Head(qu).sql,
           \A v \in Workers \ {w} : ws2[v] = ws[v]
    PROVE  Line(q, k, s, y, x, Tail(qu), ws2, fd)
<1> DEFINE t == Tail(qu)
<1>1. Len(qu) \in Nat /\ Len(qu) > 0 /\ DOMAIN qu = 1 .. Len(qu)
  BY LenProperties, EmptySeq
<1>2. Head(qu) = qu[1] /\ t \in Seq(S) /\ Len(t) = Len(qu) - 1
      /\ \A i \in 1 .. Len(qu) - 1 : t[i] = qu[i + 1]
  BY <1>1, HeadTailProperties
<1>3. DOMAIN t = 1 .. Len(qu) - 1
  BY <1>2, LenProperties
<1> HIDE DEF t
<1>4. ASSUME NEW i \in DOMAIN t
      PROVE  i + 1 \in DOMAIN qu /\ i + 1 # 1 /\ qu[i + 1] = t[i] /\ (Queued(t, i, fd) <=> Queued(qu, i + 1, fd))
  BY <1>1, <1>2, <1>3 DEF Queued
<1>5. 1 \in DOMAIN qu
  BY <1>1
<1>6. /\ \A v \in Workers \ {w} : Works(ws2, v, fd) <=> Works(ws, v, fd)
      /\ Works(ws2, w, fd) <=> Queued(qu, 1, fd)
  BY <1>2 DEF Works, Queued, Working
<1>7. \A v \in Workers : Replies(ws2, v, fd) => Replies(ws, v, fd)
  BY DEF Replies
<1>8. Busy(t, ws2, fd) => Busy(qu, ws, fd)
  BY <1>4, <1>5, <1>6 DEF Busy
<1>9. /\ \A i, j \in DOMAIN qu : Queued(qu, i, fd) /\ Queued(qu, j, fd) => i = j
      /\ \A v, u \in Workers : Works(ws, v, fd) /\ Works(ws, u, fd) => v = u
      /\ \A i \in DOMAIN qu, v \in Workers : ~(Queued(qu, i, fd) /\ Works(ws, v, fd))
  BY DEF Line, Single
<1>10. Single(t, ws2, fd)
  <2>1. ASSUME NEW i \in DOMAIN t, NEW j \in DOMAIN t, Queued(t, i, fd), Queued(t, j, fd) PROVE i = j
    <3>1. i + 1 = j + 1 /\ i \in Int /\ j \in Int
      BY <1>3, <1>4, <1>9, <2>1
    <3>2. QED BY <3>1
  <2>2. ASSUME NEW v \in Workers, NEW u \in Workers, Works(ws2, v, fd), Works(ws2, u, fd) PROVE v = u
    BY <1>5, <1>6, <1>9, <2>2
  <2>3. ASSUME NEW i \in DOMAIN t, NEW v \in Workers, Queued(t, i, fd), Works(ws2, v, fd) PROVE FALSE
    BY <1>4, <1>5, <1>6, <1>9, <2>3
  <2>4. QED BY <2>1, <2>2, <2>3 DEF Single
<1>11. Carries(t, ws2, fd, q, Made(k, s, y))
  <2> DEFINE n == Made(k, s, y)
  <2>1. Carries(qu, ws, fd, q, n)
    BY DEF Line
  <2> HIDE DEF n
  <2>2. ASSUME NEW i \in DOMAIN t, Queued(t, i, fd) PROVE t[i].sql = TextOf(q, n)
    BY <1>4, <2>1, <2>2 DEF Carries
  <2>3. ASSUME NEW v \in Workers, Works(ws2, v, fd)
        PROVE  /\ ws2[v].pc \in {"begin", "analyze"} => ws2[v].sql = TextOf(q, n)
               /\ ws2[v].pc = "answer" => ws2[v].plan = Meant(q[n + 1])
    <3>1. CASE v = w
      <4>1. Queued(qu, 1, fd)
        BY <1>6, <2>3, <3>1
      <4>2. qu[1].sql = TextOf(q, n)
        BY <1>5, <2>1, <4>1 DEF Carries
      <4>3. QED BY <1>2, <3>1, <4>2
    <3>2. CASE v # w
      BY <1>6, <2>1, <2>3, <3>2 DEF Carries
    <3>3. QED BY <3>1, <3>2
  <2>4. QED BY <2>2, <2>3 DEF Carries, n
<1>12. QED BY <1>7, <1>8, <1>10, <1>11 DEF Line, t

\* A worker goes on with its statement.
LEMMA WorksLine ==
    ASSUME NEW q, NEW k, NEW s, NEW y, NEW x, NEW qu, NEW ws, NEW fd,
           Line(q, k, s, y, x, qu, ws, fd),
           NEW w \in Workers, ws[w].pc \in Working,
           NEW ws2, ws2[w].pc \in Working, ws2[w].fd = ws[w].fd,
           \A v \in Workers \ {w} : ws2[v] = ws[v],
           Works(ws, w, fd) =>
             /\ ws2[w].pc \in {"begin", "analyze"} => ws2[w].sql = TextOf(q, Made(k, s, y))
             /\ ws2[w].pc = "answer" => ws2[w].plan = Meant(q[Made(k, s, y) + 1])
    PROVE  Line(q, k, s, y, x, qu, ws2, fd)
<1>1. \A v \in Workers : Works(ws2, v, fd) <=> Works(ws, v, fd)
  BY DEF Works
<1>2. \A v \in Workers : Replies(ws2, v, fd) => Replies(ws, v, fd)
  BY DEF Replies, Working
<1>3. Busy(qu, ws2, fd) => Busy(qu, ws, fd)
  BY <1>1 DEF Busy
<1>4. Single(qu, ws2, fd)
  BY <1>1 DEF Line, Single
<1>5. Carries(qu, ws2, fd, q, Made(k, s, y))
  BY <1>1 DEF Line, Carries
<1>6. QED BY <1>2, <1>3, <1>4, <1>5 DEF Line

\* It puts its answer to the connection.
LEMMA AnswersLine ==
    ASSUME NEW p, NEW q, NEW k \in Client, NEW s \in Socket(p), NEW y \in Connection(p),
           NEW x, NEW qu, NEW ws, NEW fd, Line(q, k, s, y, x, qu, ws, fd),
           NEW w \in Workers, ws[w].pc = "answer", ws[w].fd = fd, ws[w].plan \in Answer,
           NEW ws2, ws2[w].pc = "respond", \A v \in Workers \ {w} : ws2[v] = ws[v],
           NEW y2, y2.read_buf = y.read_buf, y2.write_buf = Append(y.write_buf, ws[w].plan)
    PROVE  Line(q, k, s, y2, x, qu, ws2, fd)
<1>1. Works(ws, w, fd)
  BY DEF Works, Working
<1>2. Track(q, k, s, y) /\ Left(k, s, y) = 2 * Made(k, s, y) + 2
      /\ ws[w].plan = Meant(q[Made(k, s, y) + 1])
  BY <1>1 DEF Line, Busy, Carries
<1>3. /\ Track(q, k, s, y2) /\ ~ Calm(k, s, y) /\ y2.write_buf # <<>>
      /\ Left(k, s, y2) = 2 * Made(k, s, y2)
  BY <1>2, AnswerTracks
<1>4. ~ Dispatching(x, fd)
  BY <1>3 DEF Line
<1>5. \A v \in Workers : ~ Works(ws2, v, fd)
  BY <1>1 DEF Line, Single, Works, Working
<1>6. \A i \in DOMAIN qu : ~ Queued(qu, i, fd)
  BY <1>1 DEF Line, Single
<1>7. ~ Busy(qu, ws2, fd) /\ Single(qu, ws2, fd) /\ Carries(qu, ws2, fd, q, Made(k, s, y2))
  BY <1>5, <1>6 DEF Busy, Single, Carries
<1>8. QED BY <1>3, <1>4, <1>7 DEF Line

\* The next statement of the connection goes to the pool.
LEMMA SubmitsLine ==
    ASSUME NEW p, NEW q \in Seq(Statement), NEW k \in Client, NEW s \in Socket(p),
           NEW y \in Connection(p), Right(q, k, s), HasStatement(y.read_buf),
           NEW x, NEW S, NEW qu \in Seq(S), NEW ws, NEW fd, Line(q, k, s, y, x, qu, ws, fd),
           Left(k, s, y) = 2 * Made(k, s, y),
           NEW y2, y2.read_buf = AfterFirst(y.read_buf), y2.write_buf = y.write_buf,
           NEW x2, ~ Dispatching(x2, fd),
           NEW qu2, qu2 = qu \/ qu2 = Append(qu, [conn_fd |-> fd, sql |-> First(y.read_buf)]),
           NEW ws2, \A w \in Workers : Kept(ws[w], ws2[w], fd) /\ ~ Replies(ws2, w, fd)
    PROVE  Line(q, k, s, y2, x2, qu2, ws2, fd)
<1> DEFINE M == Made(k, s, y)
           e == [conn_fd |-> fd, sql |-> First(y.read_buf)]
<1>1. M \in Nat /\ ~(2 * M = 2 * M + 2)
  <2>1. M \in Nat
    BY Sizes
  <2> HIDE DEF M
  <2>2. QED BY <2>1
<1>2. ~ Busy(qu, ws, fd)
  BY <1>1 DEF Line
<1>3. /\ First(y.read_buf) = TextOf(q, M) /\ Track(q, k, s, y2)
      /\ Made(k, s, y2) = M /\ Left(k, s, y2) = 2 * M + 2
  BY TakeTracks DEF Line
<1>4. \A w \in Workers : ~ Works(ws2, w, fd)
  BY <1>2 DEF Busy, Works, Kept
<1>5. \A i \in DOMAIN qu : ~ Queued(qu, i, fd)
  BY <1>2 DEF Busy
<1>6. e.sql = TextOf(q, M) /\ Len(qu) \in Nat /\ DOMAIN qu = 1 .. Len(qu)
  BY <1>3, LenProperties
<1> HIDE DEF e
<1>7. \A i \in DOMAIN qu2 : Queued(qu2, i, fd) => i = Len(qu) + 1 /\ qu2[i] = e
  <2>1. CASE qu2 = qu
    BY <1>5, <2>1
  <2>2. CASE qu2 = Append(qu, e)
    <3>1. DOMAIN qu2 = 1 .. Len(qu) + 1 /\ qu2[Len(qu) + 1] = e
          /\ \A i \in 1 .. Len(qu) : qu2[i] = qu[i]
      <4>1. qu \in Seq(S \cup {e})
        BY SeqMonotonic
      <4>2. /\ Append(qu, e) \in Seq(S \cup {e}) /\ Len(Append(qu, e)) = Len(qu) + 1
            /\ Append(qu, e)[Len(qu) + 1] = e /\ \A i \in 1 .. Len(qu) : Append(qu, e)[i] = qu[i]
        BY <4>1, AppendProperties
      <4>3. DOMAIN Append(qu, e) = 1 .. Len(qu) + 1
        BY <4>2, LenProperties
      <4>4. QED BY <2>2, <4>2, <4>3
    <3>2. QED BY <1>5, <1>6, <3>1 DEF Queued
  <2>3. QED BY <2>1, <2>2 DEF e
<1>8. Single(qu2, ws2, fd) /\ Carries(qu2, ws2, fd, q, M)
  BY <1>4, <1>6, <1>7 DEF Single, Carries
<1> HIDE DEF M
<1>9. QED BY <1>3, <1>8 DEF Line

-----------------------------------------------------------------------------
(* Each step keeps the flow of a client.                                   *)

LEMMA FlowIs ==
    ASSUME Base, NEW c \in Clients, FlowOf(c)
    PROVE  LET q == plan.script[c].stmts
           IN  /\ q \in Seq(Statement) /\ cl[c] \in Client /\ sock[c] \in Socket(plan)
               /\ Right(q, cl[c], sock[c])
               /\ \A fd \in OpenIn(file) :
                    /\ conns[fd] \in Connection(plan)
                    /\ file[fd] = c => Line(q, cl[c], sock[c], conns[fd], io, queue, wk, fd)
<1>1. plan.script[c].stmts \in Seq(Statement)
  BY PlanFacts DEF Base, ClientTypes
<1>2. cl[c] \in Client /\ sock[c] \in Socket(plan)
  BY DEF Base, ClientTypes
<1>3. \A fd \in OpenIn(file) : conns[fd] \in Connection(plan)
  BY ConnIs
<1>4. QED BY <1>1, <1>2, <1>3 DEF FlowOf

\* A step that leaves the client alone.
LEMMA FlowStep ==
    ASSUME Base, NEW c \in Clients, FlowOf(c), plan' = plan, cl'[c] = cl[c], sock'[c] = sock[c],
           cl'[c].state = "new" \/ c \in ToSet(backlog') => cl[c].state = "new" \/ c \in ToSet(backlog),
           \A fd \in OpenIn(file)' :
             /\ file'[fd] = c => fd \in OpenIn(file) /\ file[fd] = c
             /\ fd \in OpenIn(file) /\ file[fd] = c
                /\ Line(plan.script[c].stmts, cl[c], sock[c], conns[fd], io, queue, wk, fd) =>
                  Line(plan.script[c].stmts, cl[c], sock[c], conns'[fd], io', queue', wk', fd)
    PROVE  FlowOf(c)'
BY DEF FlowOf

LEMMA LineClient ==
    ASSUME NEW q, NEW k, NEW s, NEW y, NEW x, NEW qu, NEW ws, NEW fd,
           Line(q, k, s, y, x, qu, ws, fd), NEW k2, NEW s2, Track(q, k2, s2, y),
           Made(k2, s2, y) = Made(k, s, y), Left(k2, s2, y) = Left(k, s, y),
           Dispatching(x, fd) => Calm(k2, s2, y)
    PROVE  Line(q, k2, s2, y, x, qu, ws, fd)
BY DEF Line

LEMMA ClientFlows ==
    ASSUME Base, NEW c \in Clients, plan.script[c].waits, FlowOf(c), NEW d \in Clients, ClientStep(d)
    PROVE  FlowOf(c)'
<1> DEFINE q == plan.script[c].stmts
           k == cl[c]
           s == sock[c]
<1>1. UNCHANGED <<plan, file, conns, conn_mutex, running, io, queue, stop, parser, wk, reused>>
  BY ClientLeaves
<1>2. /\ cl \in [Clients -> Client] /\ sock \in [Clients -> Socket(plan)] /\ backlog \in Seq(Clients)
      /\ IsInjective(backlog)
  BY DEF Base, ClientTypes, OneConnection
<1>3. /\ q \in Seq(Statement) /\ k \in Client /\ s \in Socket(plan) /\ Right(q, k, s)
      /\ \A fd \in OpenIn(file) :
           /\ conns[fd] \in Connection(plan)
           /\ file[fd] = c => Line(q, k, s, conns[fd], io, queue, wk, fd)
  BY FlowIs
<1>4. CASE d # c
  <2>1. cl'[c] = cl[c] /\ sock'[c] = sock[c] /\ (c \in ToSet(backlog') => c \in ToSet(backlog))
    <3>1. CASE Connect(d)
      <4>1. cl[d].state = "new" /\ backlog' = Append(backlog, d) /\ cl'[c] = cl[c] /\ sock' = sock
        BY <1>4, <3>1 DEF Connect
      <4>2. d \notin ToSet(backlog)
        BY <4>1 DEF Base, OneConnection
      <4>3. ToSet(backlog') = ToSet(backlog) \cup {d}
        BY <1>2, <4>1, <4>2, AppendElement
      <4>4. QED BY <1>4, <4>1, <4>3
    <3>2. CASE Send(d)
      <4>1. PICK n \in Script(d).packets :
              /\ cl' = [cl EXCEPT ![d].sent = n]
              /\ sock' = [sock EXCEPT ![d].in = @ \o Units(d, cl[d].sent, n)]
        BY <3>2 DEF Send
      <4>2. backlog' = backlog
        BY <3>2 DEF Send
      <4>3. QED BY <1>4, <4>1, <4>2
    <3>3. CASE Receive(d)
      BY <1>4, <3>3 DEF Receive
    <3>4. CASE Leave(d)
      BY <1>4, <3>4 DEF Leave
    <3>5. QED BY <3>1, <3>2, <3>3, <3>4 DEF ClientStep
  <2>2. QED BY <1>1, <2>1, FlowStep
<1>5. CASE Connect(c)
  <2>1. /\ cl[c].state = "new" /\ sock' = sock
        /\ cl' = [cl EXCEPT ![c].state = "open"]
    BY <1>5 DEF Connect
  <2>2. cl'[c].sent = k.sent /\ cl'[c].got = k.got /\ sock'[c] = s
    BY <1>2, <2>1 DEF Client
  <2>3. \A y : /\ Track(q, cl'[c], s, y) <=> Track(q, k, s, y)
               /\ Made(cl'[c], s, y) = Made(k, s, y) /\ Left(cl'[c], s, y) = Left(k, s, y)
               /\ Calm(cl'[c], s, y) <=> Calm(k, s, y)
    BY <2>2 DEF Track, Made, Left, Calm
  <2>4. Right(q, cl'[c], s) /\ Unserved(q, cl'[c], s)
    BY <1>3, <2>1, <2>2 DEF Right, Unserved, FlowOf
  <2>5. ASSUME NEW fd \in OpenIn(file), file[fd] = c PROVE Line(q, cl'[c], s, conns[fd], io, queue, wk, fd)
    <3>1. Line(q, k, s, conns[fd], io, queue, wk, fd)
      BY <1>3, <2>5
    <3>2. Track(q, cl'[c], s, conns[fd]) /\ (Dispatching(io, fd) => Calm(cl'[c], s, conns[fd]))
      BY <2>3, <3>1 DEF Line
    <3>3. QED BY <2>3, <3>1, <3>2, LineClient
  <2> HIDE DEF k, s
  <2>6. QED BY <1>1, <2>2, <2>4, <2>5 DEF FlowOf
<1>6. CASE Send(c)
  <2>1. PICK n \in Script(c).packets :
          /\ n > cl[c].sent
          /\ cl' = [cl EXCEPT ![c].sent = n]
          /\ sock' = [sock EXCEPT ![c].in = @ \o Units(c, cl[c].sent, n)]
    BY <1>6 DEF Send
  <2>2. Len(k.got) = k.sent \div 2 /\ backlog' = backlog /\ k.state = "open"
    BY <1>6 DEF Send, Answered, Complete, Script
  <2>3. n \in 1 .. 2 * Len(q) /\ Len(q) \in Nat
    BY <2>1, <1>3, PlanFacts, LenProperties DEF Base, ClientTypes, Script
  <2>4. n \in Nat /\ n > k.sent /\ n <= 2 * Len(q) /\ k.sent \in Nat
    BY <1>3, <2>1, <2>3 DEF Client
  <2> DEFINE u == Units(c, k.sent, n)
  <2>5. u \in Seq(Unit(plan)) /\ Len(u) = n - k.sent
        /\ \A i \in 1 .. n - k.sent : u[i] = InputOf(q, k.sent + i)
    <3>1. ClientTypes /\ n <= 2 * Len(Script(c).stmts) /\ k.sent <= n
      BY <2>4 DEF Base, Script
    <3>2. u \in Seq(Unit(plan)) /\ Len(u) = n - k.sent
          /\ \A i \in 1 .. n - k.sent : u[i] = Input(c, k.sent + i)
      BY <2>4, <3>1, UnitsAre
    <3>3. \A i : Input(c, i) = InputOf(q, i)
      BY DEF Input, InputOf, Script
    <3>4. QED BY <3>2, <3>3
  <2>6. /\ cl'[c].sent = n /\ cl'[c].got = k.got /\ cl'[c].state = "open"
        /\ sock'[c].in = s.in \o u /\ sock'[c].out = s.out
    BY <1>2, <2>1, <2>2 DEF Client, Socket
  <2> HIDE DEF u, k, s, q
  <2>7. Right(q, cl'[c], sock'[c])
    BY <1>3, <2>4, <2>6, SendRight
  <2>8. Unserved(q, k, s) => Unserved(q, cl'[c], sock'[c])
    BY <1>3, <2>4, <2>5, <2>6, SendUnserved
  <2>9. ASSUME NEW fd \in OpenIn(file), file[fd] = c
        PROVE  Line(q, cl'[c], sock'[c], conns[fd], io, queue, wk, fd)
    <3>1. Line(q, k, s, conns[fd], io, queue, wk, fd) /\ conns[fd] \in Connection(plan)
      BY <1>3, <2>9
    <3>2. Track(q, k, s, conns[fd])
      BY <3>1 DEF Line
    <3> DEFINE y == conns[fd]
               k2 == cl'[c]
               s2 == sock'[c]
    <3>3. k \in Client /\ s \in Socket(plan) /\ y \in Connection(plan) /\ Track(q, k, s, y)
      BY <1>3, <3>1, <3>2
    <3>4. k2.sent = n /\ k2.got = k.got /\ s2.in = s.in \o u /\ s2.out = s.out
      BY <2>6
    <3>5. Len(k.got) = k.sent \div 2
      BY <2>2
    <3>6. Sends(plan, q, k, s, n, u, k2, s2)
      BY <2>4, <2>5, <3>4, <3>5 DEF Sends, NextUnits
    <3> HIDE DEF y, k2, s2
    <3>7. /\ Calm(k2, s2, y) /\ Track(q, k2, s2, y)
          /\ Made(k2, s2, y) = Made(k, s, y) /\ Left(k2, s2, y) = Left(k, s, y)
      BY ONLY <3>3, <3>6, SendTracks
    <3>8. Line(q, k, s, y, io, queue, wk, fd)
      BY <3>1 DEF y
    <3>9. Line(q, k2, s2, y, io, queue, wk, fd)
      BY ONLY <3>7, <3>8, LineClient
    <3>10. QED BY <3>9 DEF y, k2, s2
  <2>10. QED BY <1>1, <2>2, <2>6, <2>7, <2>8, <2>9 DEF FlowOf, k, s, q
<1>7. CASE Receive(c)
  <2>1. /\ s.out # <<>> /\ backlog' = backlog
        /\ cl' = [cl EXCEPT ![c].got = Append(@, Head(s.out))]
        /\ sock' = [sock EXCEPT ![c].out = Tail(@)]
    BY <1>7 DEF Receive
  <2>2. /\ cl'[c].sent = k.sent /\ cl'[c].got = Append(k.got, Head(s.out)) /\ cl'[c].state = k.state
        /\ sock'[c].in = s.in /\ sock'[c].out = Tail(s.out)
    BY <1>2, <2>1 DEF Client, Socket
  <2> HIDE DEF k, s, q
  <2>3. Right(q, cl'[c], sock'[c])
    BY <1>3, <2>1, <2>2, ReceiveRight
  <2>4. ~ Unserved(q, k, s)
    BY <2>1 DEF Unserved
  <2>5. ASSUME NEW fd \in OpenIn(file), file[fd] = c
        PROVE  Line(q, cl'[c], sock'[c], conns[fd], io, queue, wk, fd)
    <3>1. Line(q, k, s, conns[fd], io, queue, wk, fd) /\ conns[fd] \in Connection(plan)
      BY <1>3, <2>5
    <3>2. Track(q, k, s, conns[fd])
      BY <3>1 DEF Line
    <3> DEFINE y == conns[fd]
               k2 == cl'[c]
               s2 == sock'[c]
    <3>3. k \in Client /\ s \in Socket(plan) /\ y \in Connection(plan) /\ Track(q, k, s, y)
      BY <1>3, <3>1, <3>2
    <3>4. k2.sent = k.sent /\ k2.got = Append(k.got, Head(s.out)) /\ s2.in = s.in /\ s2.out = Tail(s.out)
      BY <2>2
    <3>5. s.out # <<>>
      BY <2>1
    <3>6. Line(q, k, s, y, io, queue, wk, fd)
      BY <3>1
    <3> HIDE DEF y, k2, s2
    <3>7. /\ ~ Calm(k, s, y) /\ Track(q, k2, s2, y)
          /\ Made(k2, s2, y) = Made(k, s, y) /\ Left(k2, s2, y) = Left(k, s, y)
      BY ONLY <3>3, <3>4, <3>5, ReceiveTracks
    <3>8. ~ Dispatching(io, fd)
      BY <3>6, <3>7 DEF Line
    <3>9. Line(q, k2, s2, y, io, queue, wk, fd)
      BY ONLY <3>6, <3>7, <3>8, LineClient
    <3>10. QED BY <3>9 DEF y, k2, s2
  <2>6. QED BY <1>1, <2>1, <2>2, <2>3, <2>4, <2>5 DEF FlowOf, k, s, q
<1>8. CASE Leave(c)
  <2>1. /\ k.state = "open" /\ cl' = [cl EXCEPT ![c].state = "left"]
        /\ sock' = [sock EXCEPT ![c].eof = TRUE] /\ backlog' = backlog
    BY <1>8 DEF Leave
  <2>2. /\ cl'[c].sent = k.sent /\ cl'[c].got = k.got /\ cl'[c].state = "left"
        /\ sock'[c].in = s.in /\ sock'[c].out = s.out
    BY <1>2, <2>1 DEF Client, Socket
  <2> HIDE DEF k, s, q
  <2>3. Right(q, cl'[c], sock'[c]) /\ (Unserved(q, k, s) => Unserved(q, cl'[c], sock'[c]))
    BY <1>3, <2>2 DEF Right, Unserved
  <2>4. \A y : /\ Track(q, cl'[c], sock'[c], y) <=> Track(q, k, s, y)
               /\ Made(cl'[c], sock'[c], y) = Made(k, s, y) /\ Left(cl'[c], sock'[c], y) = Left(k, s, y)
               /\ Calm(cl'[c], sock'[c], y) <=> Calm(k, s, y)
    BY <2>2 DEF Track, Made, Left, Calm
  <2>5. ASSUME NEW fd \in OpenIn(file), file[fd] = c
        PROVE  Line(q, cl'[c], sock'[c], conns[fd], io, queue, wk, fd)
    <3>1. Line(q, k, s, conns[fd], io, queue, wk, fd)
      BY <1>3, <2>5
    <3>2. Track(q, cl'[c], sock'[c], conns[fd]) /\ (Dispatching(io, fd) => Calm(cl'[c], sock'[c], conns[fd]))
      BY <2>4, <3>1 DEF Line
    <3>3. QED BY <2>4, <3>1, <3>2, LineClient
  <2>6. QED BY <1>1, <2>1, <2>2, <2>3, <2>5 DEF FlowOf, k, s, q
<1>9. QED BY <1>4, <1>5, <1>6, <1>7, <1>8 DEF ClientStep

\* A step of the server that leaves the clients and their descriptors alone.
LEMMA LinesFlow ==
    ASSUME Base, NEW c \in Clients, FlowOf(c), UNCHANGED <<plan, cl, sock, file, backlog>>,
           \A fd \in OpenIn(file) :
             file[fd] = c /\ Line(plan.script[c].stmts, cl[c], sock[c], conns[fd], io, queue, wk, fd) =>
               Line(plan.script[c].stmts, cl[c], sock[c], conns'[fd], io', queue', wk', fd)
    PROVE  FlowOf(c)'
BY DEF FlowOf

\* A step that leaves what there is of the input of the client where it is.
LEMMA KeptFlow ==
    ASSUME Base, NEW c \in Clients, FlowOf(c), UNCHANGED <<plan, cl, sock>>,
           c \in ToSet(backlog') => c \in ToSet(backlog),
           \A fd \in OpenIn(file)' : file'[fd] = c =>
             /\ fd \in OpenIn(file) /\ file[fd] = c
             /\ conns'[fd].read_buf = conns[fd].read_buf /\ conns'[fd].write_buf = conns[fd].write_buf
             /\ Dispatching(io', fd) => Dispatching(io, fd)
             /\ \A i \in DOMAIN queue' : Queued(queue', i, fd) => i \in DOMAIN queue /\ queue[i] = queue'[i]
             /\ \A w \in Workers : Kept(wk[w], wk'[w], fd)
    PROVE  FlowOf(c)'
<1> DEFINE q == plan.script[c].stmts
<1>1. ASSUME NEW fd \in OpenIn(file)', file'[fd] = c
      PROVE  /\ fd \in OpenIn(file) /\ file[fd] = c
             /\ Line(q, cl[c], sock[c], conns[fd], io, queue, wk, fd) =>
                  Line(q, cl[c], sock[c], conns'[fd], io', queue', wk', fd)
  <2>1. /\ fd \in OpenIn(file) /\ file[fd] = c
        /\ conns'[fd].read_buf = conns[fd].read_buf /\ conns'[fd].write_buf = conns[fd].write_buf
        /\ Dispatching(io', fd) => Dispatching(io, fd)
        /\ \A i \in DOMAIN queue' : Queued(queue', i, fd) => i \in DOMAIN queue /\ queue[i] = queue'[i]
        /\ \A w \in Workers : Kept(wk[w], wk'[w], fd)
    BY <1>1
  <2> HIDE DEF q
  <2>2. ASSUME Line(q, cl[c], sock[c], conns[fd], io, queue, wk, fd)
        PROVE  Line(q, cl[c], sock[c], conns'[fd], io', queue', wk', fd)
    BY ONLY <2>1, <2>2, LineKept
  <2>3. QED BY <2>1, <2>2
<1>2. QED BY <1>1 DEF FlowOf

\* A plan of the cache with the numbers of a statement does what the statement means, when the
\* statement it was made for has the same table and the same WHERE.
LEMMA RebindsRight ==
    ASSUME NEW m \in Tree, NEW s \in Tree, Cacheable(s), s # Broken,
           m.pattern = s.pattern, m.tab = s.tab, m.where = s.where
    PROVE  Effect(clone_and_rebind(plan_query(m), s)) = Meant(s)
<1> DEFINE t == plan_query(m)
           r == clone_and_rebind(t, s)
<1>1. t = [pattern |-> s.pattern, tab |-> s.tab, where |-> s.where,
           key |-> m.key, val |-> m.val, scan |-> m.key]
  BY DEF plan_query
<1>2. Meant(s) = [pattern |-> s.pattern, tab |-> s.tab, where |-> s.where,
                  val |-> IF s.pattern = "delete" THEN 0 ELSE s.val, key |-> s.key]
  BY DEF Meant, Effect, plan_query
<1>3. ASSUME r.pattern = s.pattern, r.tab = s.tab, r.where = s.where,
             s.pattern = "delete" \/ r.val = s.val,
             IF s.pattern = "insert" THEN r.key = s.key ELSE r.scan = s.key
      PROVE  Effect(r) = Meant(s)
  <2> HIDE DEF r
  <2>1. QED BY <1>2, <1>3 DEF Effect
<1> HIDE DEF t
<1>4. CASE s.pattern = "update"
  <2>1. r = [t EXCEPT !.key = s.key, !.val = s.val, !.scan = s.key]
    BY <1>4 DEF clone_and_rebind, clone_rebind_update
  <2> HIDE DEF r
  <2>2. /\ r.pattern = s.pattern /\ r.tab = s.tab /\ r.where = s.where
        /\ s.pattern = "delete" \/ r.val = s.val
        /\ IF s.pattern = "insert" THEN r.key = s.key ELSE r.scan = s.key
    BY <1>1, <1>4, <2>1
  <2>3. QED BY <1>3, <2>2 DEF r, t
<1>5. CASE s.pattern = "delete"
  <2>1. r = [t EXCEPT !.key = s.key, !.scan = s.key]
    BY <1>5 DEF clone_and_rebind, clone_rebind_delete
  <2> HIDE DEF r
  <2>2. /\ r.pattern = s.pattern /\ r.tab = s.tab /\ r.where = s.where
        /\ s.pattern = "delete" \/ r.val = s.val
        /\ IF s.pattern = "insert" THEN r.key = s.key ELSE r.scan = s.key
    BY <1>1, <1>5, <2>1
  <2>3. QED BY <1>3, <2>2 DEF r, t
<1>6. CASE s.pattern = "select"
  <2>1. r = [t EXCEPT !.scan = s.key, !.val = s.val]
    BY <1>6 DEF clone_and_rebind, clone_rebind_select
  <2> HIDE DEF r
  <2>2. /\ r.pattern = s.pattern /\ r.tab = s.tab /\ r.where = s.where
        /\ s.pattern = "delete" \/ r.val = s.val
        /\ IF s.pattern = "insert" THEN r.key = s.key ELSE r.scan = s.key
    BY <1>1, <1>6, <2>1
  <2>3. QED BY <1>3, <2>2 DEF r, t
<1>7. CASE s.pattern = "insert"
  <2>1. r = [t EXCEPT !.key = s.key, !.val = s.val]
    BY <1>7 DEF clone_and_rebind, clone_rebind_insert
  <2> HIDE DEF r
  <2>2. /\ r.pattern = s.pattern /\ r.tab = s.tab /\ r.where = s.where
        /\ s.pattern = "delete" \/ r.val = s.val
        /\ IF s.pattern = "insert" THEN r.key = s.key ELSE r.scan = s.key
    BY <1>1, <1>7, <2>1
  <2>3. QED BY <1>3, <2>2 DEF r, t
<1>8. QED BY <1>4, <1>5, <1>6, <1>7 DEF Cacheable, identify_pattern, Patterns

LEMMA ParsedText ==
    ASSUME NEW q, NEW n
    PROVE  Parsed(TextOf(q, n)) = q[n + 1]
BY DEF Parsed, TextOf

LEMMA PoolMovesFlow ==
    ASSUME Base, NEW c \in Clients, FlowOf(c), NEW w \in Workers,
           WorkerTest(w) \/ WorkerStops(w) \/ WorkerFalls(w) \/ WorkerSleeps(w) \/ Commit(w)
    PROVE  FlowOf(c)'
<1>1. UNCHANGED <<plan, cl, sock, file, backlog, conns, io, queue>>
  BY DEF WorkerTest, WorkerStops, WorkerFalls, WorkerSleeps, Commit, pool_step
<1>2. wk \in [Workers -> Worker(plan)]
  BY WorkerIs
<1>3. wk'[w].pc \notin Working \cup {"respond"} /\ \A v \in Workers \ {w} : wk'[v] = wk[v]
  <2>1. CASE Commit(w)
    BY <1>2, <2>1, IdleIs DEF Commit, Working, Idle
  <2>2. CASE ~ Commit(w)
    <3>1. PICK pc \in {"gone", "ready", "falling", "overslept", "asleep"} : wk' = WkTo(w, pc)
      BY <2>2 DEF WorkerTest, WorkerStops, WorkerFalls, WorkerSleeps
    <3>2. QED BY <1>2, <3>1 DEF WkTo, Working, Worker
  <2>3. QED BY <2>1, <2>2
<1>4. \A v \in Workers, fd \in Fds : Kept(wk[v], wk'[v], fd)
  BY <1>3 DEF Kept
<1>5. ASSUME NEW fd \in OpenIn(file), NEW q,
             Line(q, cl[c], sock[c], conns[fd], io, queue, wk, fd)
      PROVE  Line(q, cl[c], sock[c], conns'[fd], io', queue', wk', fd)
  <2>1. \A v \in Workers : Kept(wk[v], wk'[v], fd)
    BY <1>4 DEF OpenIn
  <2>2. QED BY <1>1, <1>5, <2>1, LineKept
<1>6. QED BY <1>1, <1>5, LinesFlow

LEMMA TakesFlow ==
    ASSUME Base, NEW c \in Clients, FlowOf(c), NEW w \in Workers, WorkerTakes(w)
    PROVE  FlowOf(c)'
<1>1. UNCHANGED <<plan, cl, sock, file, backlog, conns, io>> /\ queue' = Tail(queue)
      /\ queue # <<>> /\ wk[w].pc = "ready"
  BY DEF WorkerTakes, pool_step, Pc
<1>2. wk \in [Workers -> Worker(plan)] /\ queue \in Seq([conn_fd : Fds, sql : Text(plan)])
  BY WorkerIs DEF Base, PoolTypes
<1>3. /\ wk'[w].pc = "begin" /\ wk'[w].fd = Head(queue).conn_fd /\ wk'[w].sql = Head(queue).sql
      /\ \A v \in Workers \ {w} : wk'[v] = wk[v]
  BY <1>2 DEF WorkerTakes, Worker
<1>4. ASSUME NEW fd \in OpenIn(file), NEW q,
             Line(q, cl[c], sock[c], conns[fd], io, queue, wk, fd)
      PROVE  Line(q, cl[c], sock[c], conns'[fd], io', queue', wk', fd)
  BY <1>1, <1>2, <1>3, <1>4, TakesLine
<1>5. QED BY <1>1, <1>4, LinesFlow

\* The statement is parsed, planned and run: a plan of the cache is as good as a new one.
LEMMA RunsFlow ==
    ASSUME Base, NEW c \in Clients, FlowOf(c), NEW w \in Workers,
           UNCHANGED <<plan, cl, sock, file, backlog, conns, io, queue>>,
           wk[w].pc \in {"begin", "analyze"},
           wk'[w].fd = wk[w].fd, \A v \in Workers \ {w} : wk'[v] = wk[v],
           \/ wk'[w].pc = "analyze" /\ wk'[w].sql = wk[w].sql
           \/ wk'[w].pc = "answer" /\ wk'[w].plan = Meant(Parsed(wk[w].sql))
    PROVE  FlowOf(c)'
<1>1. wk[w].pc \in Working /\ wk'[w].pc \in Working
  BY DEF Working
<1>2. ASSUME NEW fd \in OpenIn(file), NEW q,
             Line(q, cl[c], sock[c], conns[fd], io, queue, wk, fd)
      PROVE  Line(q, cl[c], sock[c], conns'[fd], io', queue', wk', fd)
  <2> DEFINE n == Made(cl[c], sock[c], conns[fd])
  <2>1. ASSUME Works(wk, w, fd) PROVE wk[w].sql = TextOf(q, n)
    BY <1>2, <2>1 DEF Line, Carries
  <2>2. ASSUME Works(wk, w, fd)
        PROVE  /\ wk'[w].pc \in {"begin", "analyze"} => wk'[w].sql = TextOf(q, n)
               /\ wk'[w].pc = "answer" => wk'[w].plan = Meant(q[n + 1])
    <3>1. Parsed(wk[w].sql) = q[n + 1] /\ wk[w].sql = TextOf(q, n)
      BY <2>1, <2>2, ParsedText
    <3> HIDE DEF n
    <3>2. QED BY <3>1
  <2>3. Line(q, cl[c], sock[c], conns[fd], io, queue, wk', fd)
    BY <1>1, <1>2, <2>2, WorksLine
  <2>4. QED BY <2>3
<1>3. QED BY <1>2, LinesFlow

LEMMA FromCacheFlow ==
    ASSUME Base, Alike, NEW c \in Clients, FlowOf(c), NEW w \in Workers, FromCache(w)
    PROVE  FlowOf(c)'
<1> DEFINE s == Parsed(wk[w].sql)
           t == wk[w].cache[s.pattern]
           x == [wk[w] EXCEPT !.pc = "answer", !.plan = Effect(clone_and_rebind(t, s))]
<1>1. /\ s \in StmtsOf(plan) \ {Broken} /\ s \in Tree /\ Cacheable(s)
      /\ \E m \in StmtsOf(plan) \ {Broken} : m.pattern = s.pattern /\ t = plan_query(m)
      /\ wk' = [wk EXCEPT ![w] = x]
  BY FromCacheIs
<1>2. UNCHANGED <<plan, cl, sock, file, backlog, conns, io, queue>> /\ wk[w].pc = "begin"
  BY DEF FromCache, pool_step, Pc
<1>3. wk \in [Workers -> Worker(plan)] /\ wk[w] \in Worker(plan) /\ plan \in Plans
  BY WorkerIs
<1> HIDE DEF s, t
<1>4. PICK m \in StmtsOf(plan) \ {Broken} : m.pattern = s.pattern /\ t = plan_query(m)
  BY <1>1
<1>5. m \in Tree /\ m.tab = s.tab /\ m.where = s.where
  <2>1. m \in Tree
    BY <1>3, <1>4, StatementIs
  <2>2. Stmts = StmtsOf(plan)
    BY DEF Stmts, StmtsOf, Script
  <2>3. QED BY <1>1, <1>4, <2>1, <2>2 DEF Alike
<1>6. Effect(clone_and_rebind(t, s)) = Meant(s)
  BY <1>1, <1>4, <1>5, RebindsRight
<1>7. x.pc = "answer" /\ x.plan = Meant(s) /\ x.fd = wk[w].fd
  BY <1>3, <1>6 DEF Worker
<1> HIDE DEF x
<1>8. wk'[w].pc = "answer" /\ wk'[w].plan = Meant(s) /\ wk'[w].fd = wk[w].fd
      /\ \A v \in Workers \ {w} : wk'[v] = wk[v]
  BY <1>1, <1>3, <1>7
<1>9. QED BY <1>2, <1>8, RunsFlow DEF s

LEMMA ParseFlow ==
    ASSUME Base, NEW c \in Clients, FlowOf(c), NEW w \in Workers, Parse(w)
    PROVE  FlowOf(c)'
<1>1. UNCHANGED <<plan, cl, sock, file, backlog, conns, io, queue>> /\ wk[w].pc = "begin"
  BY DEF Parse, pool_step, Pc
<1>2. wk \in [Workers -> Worker(plan)] /\ wk[w] \in Worker(plan)
  BY WorkerIs
<1>3. CASE Parsed(wk[w].sql) = Broken
  <2>1. wk' = [wk EXCEPT ![w].pc = "answer", ![w].plan = Broken]
    BY <1>3 DEF Parse
  <2>2. Meant(Broken) = Broken
    BY DEF Meant
  <2>3. wk'[w].pc = "answer" /\ wk'[w].plan = Meant(Parsed(wk[w].sql)) /\ wk'[w].fd = wk[w].fd
        /\ \A v \in Workers \ {w} : wk'[v] = wk[v]
    BY <1>2, <1>3, <2>1, <2>2 DEF Worker
  <2>4. QED BY <1>1, <2>3, RunsFlow
<1>4. CASE Parsed(wk[w].sql) # Broken
  <2>1. wk' = WkTo(w, "analyze")
    BY <1>4 DEF Parse
  <2>2. wk'[w].pc = "analyze" /\ wk'[w].sql = wk[w].sql /\ wk'[w].fd = wk[w].fd
        /\ \A v \in Workers \ {w} : wk'[v] = wk[v]
    BY <1>2, <2>1 DEF Worker, WkTo
  <2>3. QED BY <1>1, <2>2, RunsFlow
<1>5. QED BY <1>3, <1>4

LEMMA AnalyzeFlow ==
    ASSUME Base, NEW c \in Clients, FlowOf(c), NEW w \in Workers, Analyze(w)
    PROVE  FlowOf(c)'
<1> DEFINE s == Parsed(wk[w].sql)
           old == wk[w].cache
           x == [wk[w] EXCEPT !.pc = "answer", !.plan = Effect(plan_query(s)),
                    !.cache = IF Cacheable(s) /\ old[s.pattern] = NoPlan
                              THEN [old EXCEPT ![s.pattern] = plan_query(s)] ELSE old]
<1>1. s # Broken /\ wk' = [wk EXCEPT ![w] = x]
  BY AnalyzeIs
<1>2. UNCHANGED <<plan, cl, sock, file, backlog, conns, io, queue>> /\ wk[w].pc = "analyze"
  BY DEF Analyze, pool_step, Pc
<1>3. wk \in [Workers -> Worker(plan)] /\ wk[w] \in Worker(plan)
  BY WorkerIs
<1>4. x.pc = "answer" /\ x.plan = Effect(plan_query(s)) /\ x.fd = wk[w].fd
  BY <1>3 DEF Worker
<1>5. Effect(plan_query(s)) = Meant(s)
  BY <1>1 DEF Meant
<1> HIDE DEF x
<1>6. wk'[w].pc = "answer" /\ wk'[w].plan = Meant(s) /\ wk'[w].fd = wk[w].fd
      /\ \A v \in Workers \ {w} : wk'[v] = wk[v]
  BY <1>1, <1>3, <1>4, <1>5
<1>7. QED BY <1>2, <1>6, RunsFlow

\* A statement of another connection joins the queue.
LEMMA OtherQueued ==
    ASSUME NEW S, NEW qu \in Seq(S), NEW e \in S, NEW fd, e.conn_fd # fd,
           NEW qu2, qu2 = qu \/ qu2 = Append(qu, e)
    PROVE  \A i \in DOMAIN qu2 : Queued(qu2, i, fd) => i \in DOMAIN qu /\ qu[i] = qu2[i]
<1>1. CASE qu2 = qu
  BY <1>1
<1>2. CASE qu2 = Append(qu, e)
  <2>1. Len(qu) \in Nat /\ DOMAIN qu = 1 .. Len(qu)
    BY LenProperties
  <2>2. Append(qu, e) \in Seq(S) /\ Len(Append(qu, e)) = Len(qu) + 1 /\ Append(qu, e)[Len(qu) + 1] = e
        /\ \A i \in 1 .. Len(qu) : Append(qu, e)[i] = qu[i]
    BY AppendProperties
  <2>3. DOMAIN qu2 = 1 .. Len(qu) + 1
    BY <1>2, <2>2, LenProperties
  <2>4. QED BY <1>2, <2>1, <2>2, <2>3 DEF Queued
<1>3. QED BY <1>1, <1>2

\* The next statement of the connection fd0 goes to the pool, from the I/O thread or from a
\* worker that has answered: the statement before has its answer.
LEMMA SubmitFlow ==
    ASSUME Base, NEW c \in Clients, FlowOf(c), UNCHANGED <<plan, cl, sock, file, backlog>>,
           NEW fd0 \in OpenIn(file), HasStatement(conns[fd0].read_buf), conns' = Taken(fd0),
           NEW ws, \A v \in Workers : Nudge(ws[v], wk'[v]) /\ ws[v] \in Worker(plan),
           submit(fd0, First(conns[fd0].read_buf), ws),
           \A v \in Workers : ws[v] = wk[v] \/ ws[v].pc \notin Working \cup {"respond"},
           \A fd : fd # fd0 /\ Dispatching(io', fd) => Dispatching(io, fd),
           file[fd0] = c /\ Line(plan.script[c].stmts, cl[c], sock[c], conns[fd0], io, queue, wk, fd0) =>
             /\ Left(cl[c], sock[c], conns[fd0]) = 2 * Made(cl[c], sock[c], conns[fd0])
             /\ ~ Dispatching(io', fd0) /\ \A v \in Workers : ~ Replies(ws, v, fd0)
    PROVE  FlowOf(c)'
<1> DEFINE q == plan.script[c].stmts
           e == [conn_fd |-> fd0, sql |-> First(conns[fd0].read_buf)]
           S == [conn_fd : Fds, sql : Text(plan)]
<1>1. queue \in Seq(S) /\ (queue' = queue \/ queue' = Append(queue, e))
  BY DEF Base, PoolTypes, submit
<1>2. e \in S
  BY TakenIs DEF OpenIn
<1>3. /\ q \in Seq(Statement) /\ cl[c] \in Client /\ sock[c] \in Socket(plan)
      /\ Right(q, cl[c], sock[c])
  BY FlowIs
<1>4. ASSUME NEW v \in Workers
      PROVE  /\ Replies(wk', v, fd0) => Replies(ws, v, fd0)
             /\ \A fd : Kept(wk[v], wk'[v], fd)
  <2>1. \A fd : Kept(ws[v], wk'[v], fd)
    BY NudgeIsKept
  <2>2. QED BY <2>1 DEF Kept, Working, Replies
<1>5. conns \in [OpenIn(file) -> Connection(plan)] /\ conns[fd0] \in Connection(plan)
      /\ conns' = [conns EXCEPT ![fd0] = [conns[fd0] EXCEPT !.read_buf = AfterFirst(@), !.busy = TRUE]]
  BY ConnIs, TakenIs
<1>6. ASSUME NEW fd \in OpenIn(file), file[fd] = c,
             Line(q, cl[c], sock[c], conns[fd], io, queue, wk, fd)
      PROVE  Line(q, cl[c], sock[c], conns'[fd], io', queue', wk', fd)
  <2>1. CASE fd = fd0
    <3> DEFINE y == conns[fd0]
               y2 == conns'[fd0]
               k == cl[c]
               s == sock[c]
    <3>1. y2.read_buf = AfterFirst(y.read_buf) /\ y2.write_buf = y.write_buf
      BY <1>5 DEF Connection
    <3>2. /\ y \in Connection(plan) /\ Line(q, k, s, y, io, queue, wk, fd0)
          /\ Left(k, s, y) = 2 * Made(k, s, y) /\ ~ Dispatching(io', fd0)
          /\ HasStatement(y.read_buf) /\ \A v \in Workers : ~ Replies(ws, v, fd0)
      BY <1>5, <1>6, <2>1
    <3>3. \A w \in Workers : Kept(wk[w], wk'[w], fd0) /\ ~ Replies(wk', w, fd0)
      BY <1>4, <3>2
    <3>4. queue' = queue \/ queue' = Append(queue, [conn_fd |-> fd0, sql |-> First(y.read_buf)])
      BY <1>1
    <3> HIDE DEF y, y2, k, s, q, S
    <3>5. q \in Seq(Statement) /\ k \in Client /\ s \in Socket(plan) /\ Right(q, k, s)
          /\ queue \in Seq(S)
      BY <1>1, <1>3 DEF k, s
    <3>6. Line(q, k, s, y2, io', queue', wk', fd0)
      BY ONLY <3>1, <3>2, <3>3, <3>4, <3>5, SubmitsLine
    <3>7. QED BY <2>1, <3>6 DEF y2, k, s
  <2>2. CASE fd # fd0
    <3>1. /\ conns'[fd].read_buf = conns[fd].read_buf /\ conns'[fd].write_buf = conns[fd].write_buf
          /\ Dispatching(io', fd) => Dispatching(io, fd)
      BY <1>5, <2>2
    <3>2. e.conn_fd # fd
      BY <2>2
    <3> HIDE DEF e, S, q
    <3>3. \A i \in DOMAIN queue' : Queued(queue', i, fd) => i \in DOMAIN queue /\ queue[i] = queue'[i]
      BY <1>1, <1>2, <3>2, OtherQueued
    <3>4. \A w \in Workers : Kept(wk[w], wk'[w], fd)
      BY <1>4
    <3>5. Line(q, cl[c], sock[c], conns[fd], io, queue, wk, fd)
      BY <1>6
    <3>6. QED BY ONLY <3>1, <3>3, <3>4, <3>5, LineKept
  <2>3. QED BY <2>1, <2>2
<1>7. QED BY <1>6, LinesFlow

LEMMA RespondFlow ==
    ASSUME Base, NEW c \in Clients, FlowOf(c), NEW w \in Workers, Respond(w)
    PROVE  FlowOf(c)'
<1>1. /\ wk[w].pc = "answer" /\ wk[w].plan \in Answer
      /\ UNCHANGED <<plan, cl, sock, file, backlog, io, queue>>
  BY RespondIs
<1>2. wk \in [Workers -> Worker(plan)] /\ wk[w] \in Worker(plan)
  BY WorkerIs
<1>3. cl[c] \in Client /\ sock[c] \in Socket(plan)
  BY FlowIs
<1>4. CASE wk[w].fd \in OpenIn(file)
  <2> DEFINE fd0 == wk[w].fd
             a == wk[w].plan
  <2>1. /\ conns' = [conns EXCEPT ![fd0] = [conns[fd0] EXCEPT !.write_buf = Append(@, a), !.busy = FALSE]]
        /\ wk' = [wk EXCEPT ![w] = [wk[w] EXCEPT !.pc = "respond"]]
    BY <1>4, RespondIs
  <2>2. conns \in [OpenIn(file) -> Connection(plan)] /\ conns[fd0] \in Connection(plan)
    BY <1>4, ConnIs
  <2>3. wk'[w].pc = "respond" /\ wk'[w].fd = fd0 /\ \A v \in Workers \ {w} : wk'[v] = wk[v]
    BY <1>2, <2>1 DEF Worker
  <2>4. conns'[fd0].read_buf = conns[fd0].read_buf
        /\ conns'[fd0].write_buf = Append(conns[fd0].write_buf, a)
    BY <1>4, <2>1, <2>2 DEF Connection
  <2>5. ASSUME NEW fd \in OpenIn(file), NEW q, Line(q, cl[c], sock[c], conns[fd], io, queue, wk, fd)
        PROVE  Line(q, cl[c], sock[c], conns'[fd], io', queue', wk', fd)
    <3>1. CASE fd = fd0
      <4> DEFINE y == conns[fd]
                 y2 == conns'[fd]
                 k == cl[c]
                 s == sock[c]
      <4>1. /\ k \in Client /\ s \in Socket(plan) /\ y \in Connection(plan)
            /\ Line(q, k, s, y, io, queue, wk, fd)
            /\ y2.read_buf = y.read_buf /\ y2.write_buf = Append(y.write_buf, wk[w].plan)
            /\ wk[w].pc = "answer" /\ wk[w].fd = fd /\ wk[w].plan \in Answer
        BY <1>1, <1>3, <2>2, <2>4, <2>5, <3>1
      <4> HIDE DEF y, y2, k, s
      <4>2. Line(q, k, s, y2, io, queue, wk', fd)
        BY ONLY <2>3, <4>1, AnswersLine
      <4>3. QED BY <1>1, <4>2 DEF k, s, y2
    <3>2. CASE fd # fd0
      <4>1. conns'[fd] = conns[fd] /\ \A v \in Workers : Kept(wk[v], wk'[v], fd)
        BY <2>1, <2>2, <2>3, <3>2 DEF Kept
      <4>2. io' = io /\ queue' = queue /\ Line(q, cl[c], sock[c], conns[fd], io, queue, wk, fd)
        BY <1>1, <2>5
      <4>3. QED BY ONLY <4>1, <4>2, LineKept
    <3>3. QED BY <3>1, <3>2
  <2>6. QED BY <1>1, <2>5, LinesFlow
<1>5. CASE wk[w].fd \notin OpenIn(file)
  <2>1. wk' = [wk EXCEPT ![w] = [wk[w] EXCEPT !.pc = "commit"]] /\ conns' = conns
    BY <1>5, RespondIs
  <2>2. wk'[w].pc = "commit" /\ \A v \in Workers \ {w} : wk'[v] = wk[v]
    BY <1>2, <2>1 DEF Worker
  <2>3. \A v \in Workers : \A fd : Kept(wk[v], wk'[v], fd)
    BY <2>2 DEF Kept, Working
  <2>4. QED BY <1>1, <2>1, <2>3, KeptFlow
<1>6. QED BY <1>4, <1>5

LEMMA RespondNextFlow ==
    ASSUME Base, NEW c \in Clients, FlowOf(c), NEW w \in Workers, RespondNext(w)
    PROVE  FlowOf(c)'
<1> DEFINE fd0 == wk[w].fd
           ws == WkTo(w, "commit")
<1>1. /\ wk[w].pc = "respond" /\ fd0 \in OpenIn(file) /\ conn_mutex = w
      /\ UNCHANGED <<plan, cl, sock, file, backlog, io>>
  BY RespondNextIs
<1>2. wk \in [Workers -> Worker(plan)] /\ wk[w] \in Worker(plan)
  BY WorkerIs
<1>3. \A v \in Workers : wk[v].pc = "respond" => v = w
  BY <1>1 DEF Base, Latches, Pc
<1>4. /\ ws \in [Workers -> Worker(plan)] /\ ws[w].pc = "commit"
      /\ \A v \in Workers \ {w} : ws[v] = wk[v]
  BY <1>2 DEF WkTo, Worker, WorkerPcs
<1>5. CASE ~ HasStatement(conns[fd0].read_buf)
  <2>1. wk' = ws /\ queue' = queue /\ conns' = conns
    BY <1>5, RespondNextIs
  <2>2. \A v \in Workers : \A fd : Kept(wk[v], wk'[v], fd)
    BY <1>4, <2>1 DEF Kept, Working
  <2>3. ASSUME NEW fd \in OpenIn(file), NEW q, Line(q, cl[c], sock[c], conns[fd], io, queue, wk, fd)
        PROVE  Line(q, cl[c], sock[c], conns'[fd], io', queue', wk', fd)
    BY <1>1, <2>1, <2>2, <2>3, LineKept
  <2>4. QED BY <1>1, <2>3, LinesFlow
<1>6. CASE HasStatement(conns[fd0].read_buf)
  <2>1. conns' = Taken(fd0) /\ submit(fd0, First(conns[fd0].read_buf), ws)
    BY <1>6, RespondNextIs
  <2>2. \A v \in Workers : Nudge(ws[v], wk'[v]) /\ ws[v] \in Worker(plan)
    <3>1. fd0 \in Fds /\ First(conns[fd0].read_buf) \in Text(plan)
      BY <1>1, <1>6, TakenIs DEF OpenIn
    <3>2. QED BY <1>4, <2>1, <3>1, SubmitIs
  <2>3. \A v \in Workers : /\ ws[v] = wk[v] \/ ws[v].pc \notin Working \cup {"respond"}
                           /\ ~ Replies(ws, v, fd0)
    BY <1>3, <1>4 DEF Working, Replies
  <2>4. conns[fd0].write_buf # <<>> => Len(conns[fd0].write_buf) # 0
    BY <1>1, ConnIs, EmptySeq
  <2>5. \A q, k, s : Line(q, k, s, conns[fd0], io, queue, wk, fd0) =>
             /\ Left(k, s, conns[fd0]) = 2 * Made(k, s, conns[fd0])
             /\ ~ Dispatching(io', fd0)
    BY <1>1, <2>4 DEF Line, Replies, Calm
  <2>6. QED BY <1>1, <1>6, <2>1, <2>2, <2>3, <2>4, <2>5, SubmitFlow
<1>7. QED BY <1>5, <1>6

-----------------------------------------------------------------------------
(* The I/O thread.                                                         *)

\* A step that only moves it on, or closes descriptors.
LEMMA IoGoesOn ==
    ASSUME Base, NEW c \in Clients, FlowOf(c), UNCHANGED <<plan, cl, sock, backlog, queue>>,
           \A w \in Workers : Nudge(wk[w], wk'[w]),
           \A fd \in OpenIn(file)' :
             /\ fd \in OpenIn(file) /\ file'[fd] = file[fd]
             /\ conns'[fd].read_buf = conns[fd].read_buf /\ conns'[fd].write_buf = conns[fd].write_buf,
           \A fd \in OpenIn(file) : Dispatching(io', fd) => Dispatching(io, fd)
    PROVE  FlowOf(c)'
<1>1. \A w \in Workers : wk[w] \in Worker(plan)
  BY DEF Base, WorkerTypes
<1>2. \A w \in Workers : \A fd : Kept(wk[w], wk'[w], fd)
  BY <1>1, NudgeIsKept
<1>3. QED BY <1>2, KeptFlow

\* Where it is when it has done with an event, and on its way to writing.
LEMMA NotDispatching ==
    ASSUME IoNext \/ (Base /\ ToWrite) \/ \E pc : Base /\ pc \notin {"read", "dispatch"} /\ io' = IoTo(pc)
    PROVE  \A fd : ~ Dispatching(io', fd)
<1>1. CASE IoNext
  BY <1>1 DEF IoNext, Dispatching
<1>2. ASSUME Base, NEW pc, pc \notin {"read", "dispatch"}, io' = IoTo(pc)
      PROVE  \A fd : ~ Dispatching(io', fd)
  BY <1>2, IoIs DEF IoTo, Dispatching
<1>3. CASE Base /\ ToWrite
  BY <1>1, <1>2, <1>3 DEF ToWrite
<1>4. QED BY <1>1, <1>2, <1>3

\* The connection closes, or is marked for it.
LEMMA ClosingKeeps ==
    ASSUME Base, NEW fd \in OpenIn(file), close_connection(fd)
    PROVE  \A x \in OpenIn(file)' :
             /\ x \in OpenIn(file) /\ file'[x] = file[x]
             /\ conns'[x].read_buf = conns[x].read_buf /\ conns'[x].write_buf = conns[x].write_buf
<1>1. conns \in [OpenIn(file) -> Connection(plan)] /\ file \in [Fds -> Clients \cup {NoClient}]
      /\ conns[fd] \in Connection(plan)
  BY ConnIs DEF Base, Files
<1>2. CASE HasPendingWrite(fd)
  <2>1. conns' = [conns EXCEPT ![fd].closing = TRUE] /\ file' = file
    BY <1>2 DEF close_connection
  <2>2. QED BY <1>1, <2>1 DEF OpenIn, Connection
<1>3. CASE ~ HasPendingWrite(fd)
  <2>1. conns' = [other \in DOMAIN conns \ {fd} |-> conns[other]] /\ file' = [file EXCEPT ![fd] = NoClient]
    BY <1>3 DEF close_connection, Closes
  <2>2. QED BY <1>1, <2>1 DEF OpenIn
<1>4. QED BY <1>2, <1>3

LEMMA IoPlainFlow ==
    ASSUME Base, NEW c \in Clients, FlowOf(c),
           \/ IoEvent \/ IoAccepted \/ IoNotified \/ IoHangup \/ IoEndOfInput \/ IoRead_done
           \/ IoFlush \/ IoStopPool \/ IoNotifyAll \/ IoJoin \/ Stop
    PROVE  FlowOf(c)'
<1>1. UNCHANGED <<plan, cl, sock, backlog, queue>>
  BY DEF IoEvent, IoAccepted, IoNotified, IoHangup, IoEndOfInput, IoRead_done, IoFlush, IoStopPool,
         IoNotifyAll, IoJoin, Stop, io_step
<1>2. ASSUME NEW w \in Workers PROVE Nudge(wk[w], wk'[w])
  BY DEF IoEvent, IoAccepted, IoNotified, IoHangup, IoEndOfInput, IoRead_done, IoFlush, IoStopPool,
         IoNotifyAll, IoJoin, Stop, Nudge, Pc
<1>3. ASSUME NEW fd \in OpenIn(file)'
      PROVE  /\ fd \in OpenIn(file) /\ file'[fd] = file[fd]
             /\ conns'[fd].read_buf = conns[fd].read_buf /\ conns'[fd].write_buf = conns[fd].write_buf
  <2>1. CASE IoHangup \/ IoEndOfInput
    <3>1. close_connection(io.fd) /\ io.pc \in OnFd
      BY <2>1 DEF IoHangup, IoEndOfInput, OnFd
    <3>2. QED BY <3>1, IoIs, ClosingKeeps
  <2>2. CASE IoFlush
    <3>1. CASE Pending # {}
      BY <2>2, <3>1 DEF IoFlush, OpenIn
    <3>2. CASE Pending = {}
      BY <2>2, <3>2 DEF IoFlush, OpenIn
    <3>3. QED BY <3>1, <3>2
  <2>3. CASE ~(IoHangup \/ IoEndOfInput \/ IoFlush)
    <3>1. UNCHANGED <<file, conns>>
      BY <2>3 DEF IoEvent, IoAccepted, IoNotified, IoRead_done, IoStopPool, IoNotifyAll, IoJoin, Stop
    <3>2. QED BY <3>1 DEF OpenIn
  <2>4. QED BY <2>1, <2>2, <2>3
<1>4. ASSUME NEW fd \in OpenIn(file) PROVE Dispatching(io', fd) => Dispatching(io, fd)
  <2>1. CASE IoEvent
    <3>1. \/ io' = IoTo("accept") \/ io' = IoTo("notify")
          \/ io'.dispatch = FALSE /\ io'.pc # "dispatch"
      <4> DEFINE fd0 == Head(ep.ready)
                 ev == Readiness(sock[file[fd0]]) \cap (ep.interest[fd0] \cup {"RDHUP"})
                 pc2 == CASE "RDHUP" \in ev -> "hangup"
                          [] "IN" \in ev /\ "RDHUP" \notin ev -> "read"
                          [] ev = {"OUT"} -> "write"
                          [] ev = {} -> "wait"
      <4>1. io' = CASE fd0 = Listen -> IoTo("accept")
                   [] fd0 = Notify -> IoTo("notify")
                   [] OTHER -> [pc |-> pc2, fd |-> fd0, ev |-> ev, dispatch |-> FALSE]
        BY <2>1 DEF IoEvent
      <4>2. pc2 \in {"hangup", "read", "write", "wait"}
        BY ReadinessIs DEF Events
      <4> HIDE DEF pc2, ev, fd0
      <4>3. Listen # Notify
        BY SizesAssumption DEF Listen, Notify
      <4>4. QED BY <4>1, <4>2, <4>3
    <3>2. QED BY <3>1, NotDispatching DEF Dispatching
  <2>2. CASE IoAccepted \/ IoNotified \/ IoHangup
    BY <2>2, NotDispatching DEF IoAccepted, IoNotified, IoHangup
  <2>3. CASE IoEndOfInput
    BY <2>3, NotDispatching DEF IoEndOfInput
  <2>4. CASE IoRead_done
    <3>1. CASE io.dispatch /\ ~ conns[io.fd].busy
      <4>1. io' = IoTo("dispatch") /\ io.pc = "read"
        BY <2>4, <3>1 DEF IoRead_done
      <4>2. io'.fd = io.fd
        BY <4>1, IoIs DEF IoTo
      <4>3. QED BY <3>1, <4>1, <4>2 DEF Dispatching
    <3>2. CASE ~(io.dispatch /\ ~ conns[io.fd].busy)
      BY <2>4, <3>2, NotDispatching DEF IoRead_done
    <3>3. QED BY <3>1, <3>2
  <2>5. CASE IoFlush \/ IoStopPool \/ IoNotifyAll \/ IoJoin
    <3>1. \E pc \in {"hung", "shutdown", "wake", "join", "down"} : io' = IoTo(pc)
      BY <2>5 DEF IoFlush, IoStopPool, IoNotifyAll, IoJoin
    <3>2. QED BY <3>1, NotDispatching
  <2>6. CASE Stop
    BY <2>6 DEF Stop
  <2>7. QED BY <2>1, <2>2, <2>3, <2>4, <2>5, <2>6
<1>5. QED BY <1>1, <1>2, <1>3, <1>4, IoGoesOn

LEMMA IoAcceptFlow ==
    ASSUME Base, NEW c \in Clients, FlowOf(c), IoAccept, ~ reused'
    PROVE  FlowOf(c)'
<1> DEFINE d == Head(backlog)
           low == LowestFd
           q == plan.script[c].stmts
<1>1. /\ backlog # <<>> /\ backlog' = Tail(backlog) /\ d \in Clients
      /\ UNCHANGED <<plan, cl, running, parser, sock, conn_mutex, io, queue, stop, wk>>
  BY IoAcceptIs
<1>2. backlog \in Seq(Clients) /\ IsInjective(backlog)
  BY DEF Base, ClientTypes, OneConnection
<1>3. ToSet(backlog') = ToSet(backlog) \ {d} /\ d \in ToSet(backlog)
  BY <1>1, <1>2, TailElement
<1>4. \A fd : \A w \in Workers : Kept(wk[w], wk'[w], fd)
  BY <1>1 DEF Kept
<1>5. CASE UNCHANGED <<file, ep, conns, reused>>
  <2>1. c \in ToSet(backlog') => c \in ToSet(backlog)
    BY <1>3
  <2>2. OpenIn(file)' = OpenIn(file)
    BY <1>5 DEF OpenIn
  <2> HIDE DEF q, d
  <2>3. QED BY <1>1, <1>4, <1>5, <2>1, <2>2, KeptFlow
<1>6. CASE ~ UNCHANGED <<file, ep, conns, reused>>
  <2>1. /\ conn_mutex = Free /\ low \in Fds /\ file[low] = NoClient
        /\ file' = [file EXCEPT ![low] = d]
        /\ conns' = [fd \in DOMAIN conns \cup {low} |-> IF fd = low THEN NewConnection ELSE conns[fd]]
        /\ reused' = (reused \/ InFlight(low))
    BY <1>6, IoAcceptIs
  <2> HIDE DEF d, low
  <2>2. file \in [Fds -> Clients \cup {NoClient}] /\ DOMAIN conns = OpenIn(file)
    BY DEF Base, Files
  <2>3. OpenIn(file)' = OpenIn(file) \cup {low} /\ low \notin OpenIn(file)
        /\ \A fd \in OpenIn(file)' : file'[fd] = IF fd = low THEN d ELSE file[fd]
    BY <1>1, <2>1, <2>2, NamesAssumption DEF OpenIn
  <2>4. conns'[low] = NewConnection /\ \A fd \in OpenIn(file) : conns'[fd] = conns[fd]
    BY <2>1, <2>2, <2>3
  <2>5. CASE c # d
    <3>1. \A fd \in OpenIn(file)' : file'[fd] = c =>
             fd \in OpenIn(file) /\ file[fd] = c /\ conns'[fd] = conns[fd]
      BY <2>3, <2>4, <2>5
    <3>2. c \in ToSet(backlog') => c \in ToSet(backlog)
      BY <1>3
    <3> HIDE DEF q
    <3>3. QED BY <1>1, <1>4, <3>1, <3>2, KeptFlow
  <2>6. CASE c = d
    <3> DEFINE y == conns'[low]
               k == cl[c]
               s == sock[c]
    <3>1. \A fd \in OpenIn(file)' : file'[fd] = c => fd = low
      BY <1>3, <2>3, <2>6 DEF Base, OneConnection
    <3>2. k \in Client /\ s \in Socket(plan) /\ Right(q, k, s)
      BY FlowIs
    <3>3. Unserved(q, k, s) /\ k.state # "new"
      BY <1>3, <2>6 DEF FlowOf, Base, OneConnection
    <3>4. y \in Connection(plan) /\ y.read_buf = <<>> /\ y.write_buf = <<>>
      BY <2>4, NewIs
    <3>5. ~ Dispatching(io, low)
      <4>1. io.pc = "accept"
        BY DEF IoAccept
      <4>2. QED BY <4>1 DEF Dispatching
    <3>6. \A w \in Workers : ~ Replies(wk, w, low)
      BY <2>1, NamesAssumption DEF Base, Latches, Replies, Pc
    <3>7. ~ Busy(queue, wk, low)
      BY <2>1 DEF Busy, InFlight, Queued, Works, Working, Pc
    <3> HIDE DEF y, k, s, q
    <3>8. Track(q, k, s, y) /\ Calm(k, s, y)
      BY ONLY <3>2, <3>3, <3>4, NewTracks
    <3>9. Single(queue, wk, low) /\ Carries(queue, wk, low, q, Made(k, s, y))
      BY <3>7 DEF Busy, Single, Carries
    <3>10. Line(q, k, s, y, io, queue, wk, low)
      BY <3>5, <3>6, <3>7, <3>8, <3>9 DEF Line
    <3>11. c \notin ToSet(backlog')
      BY <1>3, <2>6
    <3>12. QED BY <1>1, <3>1, <3>2, <3>3, <3>10, <3>11 DEF FlowOf, q, k, s, y
  <2>7. QED BY <2>5, <2>6
<1>7. QED BY <1>5, <1>6

LEMMA IoReadFlow ==
    ASSUME Base, NEW c \in Clients, FlowOf(c), IoRead
    PROVE  FlowOf(c)'
<1> DEFINE fd0 == io.fd
           d == file[fd0]
           q == plan.script[c].stmts
<1>1. /\ io.pc = "read" /\ fd0 \in OpenIn(file) /\ d \in Clients /\ sock[d].in # <<>>
      /\ conns' = [conns EXCEPT ![fd0] = [conns[fd0] EXCEPT !.read_buf = @ \o sock[d].in]]
      /\ sock' = [sock EXCEPT ![d] = [sock[d] EXCEPT !.in = <<>>]]
      /\ io' = [io EXCEPT !.dispatch = TRUE]
      /\ UNCHANGED <<plan, cl, running, parser, reused, file, backlog, ep, conn_mutex, queue, stop, wk>>
  BY IoReadIs
<1>2. /\ sock \in [Clients -> Socket(plan)] /\ conns \in [OpenIn(file) -> Connection(plan)]
      /\ conns[fd0] \in Connection(plan)
  BY <1>1, ConnIs DEF Base, ClientTypes
<1>3. OpenIn(file)' = OpenIn(file) /\ io'.fd = fd0
  BY <1>1, IoIs DEF OpenIn
<1>4. CASE c # d
  <2>1. sock'[c] = sock[c]
    BY <1>2, <1>1, <1>4
  <2>2. \A fd \in OpenIn(file)' : file'[fd] = c =>
             /\ fd \in OpenIn(file) /\ file[fd] = c /\ conns'[fd] = conns[fd]
             /\ ~ Dispatching(io', fd)
    BY <1>1, <1>2, <1>3, <1>4 DEF Dispatching
  <2> HIDE DEF d, fd0
  <2>3. ASSUME NEW fd \in OpenIn(file)', file'[fd] = c
        PROVE  /\ fd \in OpenIn(file) /\ file[fd] = c
               /\ Line(q, cl[c], sock[c], conns[fd], io, queue, wk, fd) =>
                    Line(q, cl[c], sock[c], conns'[fd], io', queue', wk', fd)
    <3>1. fd \in OpenIn(file) /\ file[fd] = c /\ conns'[fd] = conns[fd] /\ ~ Dispatching(io', fd)
          /\ queue' = queue /\ wk' = wk
      BY <1>1, <2>2, <2>3
    <3> HIDE DEF q
    <3>2. QED BY <3>1 DEF Line
  <2>4. QED BY <1>1, <2>1, <2>3, FlowStep
<1>5. CASE c = d
  <2> DEFINE k == cl[c]
             s == sock[c]
             s2 == sock'[c]
             y == conns[fd0]
             y2 == conns'[fd0]
  <2>1. \A fd \in OpenIn(file) : file[fd] = c => fd = fd0
    BY <1>1, <1>5 DEF Base, OneConnection
  <2>2. s2.in = <<>> /\ s2.out = s.out /\ s.in # <<>>
    BY <1>1, <1>2, <1>5 DEF Socket
  <2>3. y2.read_buf = y.read_buf \o s.in /\ y2.write_buf = y.write_buf
    BY <1>1, <1>2, <1>5 DEF Connection
  <2>4. /\ k \in Client /\ s \in Socket(plan) /\ y \in Connection(plan) /\ Right(q, k, s)
        /\ Line(q, k, s, y, io, queue, wk, fd0)
    BY <1>1, <1>5, FlowIs
  <2>5. Track(q, k, s, y)
    BY <2>4 DEF Line
  <2>6. k.state # "new" /\ c \notin ToSet(backlog)
    BY <1>1, <1>5 DEF Base, OneConnection
  <2> HIDE DEF k, s, s2, y, y2, q, fd0, d
  <2>7. /\ Track(q, k, s2, y2) /\ Calm(k, s2, y2)
        /\ Made(k, s2, y2) = Made(k, s, y) /\ Left(k, s2, y2) = Left(k, s, y)
    <3>1. k \in Client /\ s \in Socket(plan) /\ y \in Connection(plan)
      BY <2>4
    <3>2. Reads(s, y, s2, y2)
      BY <2>2, <2>3 DEF Reads
    <3>3. QED BY ONLY <2>5, <3>1, <3>2, ReadTracks
  <2>8. Line(q, k, s2, y2, io', queue, wk, fd0)
    BY <2>3, <2>4, <2>7 DEF Line
  <2>9. Right(q, k, s2)
    BY <2>2, <2>4 DEF Right
  <2>10. QED BY <1>1, <1>3, <2>1, <2>6, <2>8, <2>9 DEF FlowOf, k, s, s2, y, y2, q
<1>6. QED BY <1>4, <1>5

LEMMA IoDispatchFlow ==
    ASSUME Base, NEW c \in Clients, FlowOf(c), IoDispatch
    PROVE  FlowOf(c)'
<1> DEFINE fd0 == io.fd
<1>1. /\ io.pc = "dispatch" /\ fd0 \in OpenIn(file) /\ ToWrite
      /\ UNCHANGED <<plan, cl, sock, file, backlog, conn_mutex>>
  BY IoDispatchIs
<1>2. \A fd : ~ Dispatching(io', fd)
  BY <1>1, NotDispatching
<1>3. \A w \in Workers : wk[w] \in Worker(plan)
  BY DEF Base, WorkerTypes
<1>4. CASE ~ HasStatement(conns[fd0].read_buf)
  <2>1. UNCHANGED <<conns, queue, wk>>
    BY <1>4, IoDispatchIs
  <2>2. \A w \in Workers : Nudge(wk[w], wk'[w])
    BY <2>1 DEF Nudge
  <2>3. QED BY <1>1, <1>2, <2>1, <2>2, IoGoesOn DEF OpenIn
<1>5. CASE HasStatement(conns[fd0].read_buf)
  <2>1. conns' = Taken(fd0) /\ submit(fd0, First(conns[fd0].read_buf), wk)
    BY <1>5, IoDispatchIs
  <2>2. \A v \in Workers : Nudge(wk[v], wk'[v]) /\ wk[v] \in Worker(plan)
    <3>1. fd0 \in Fds /\ First(conns[fd0].read_buf) \in Text(plan) /\ wk \in [Workers -> Worker(plan)]
      BY <1>1, <1>5, TakenIs DEF OpenIn, Base, WorkerTypes
    <3>2. QED BY <2>1, <3>1, SubmitIs
  <2>3. conns[fd0].write_buf \in Seq(Answer) /\ Dispatching(io, fd0)
    BY <1>1, ConnIs DEF Dispatching
  <2>4. ASSUME NEW q, Line(q, cl[c], sock[c], conns[fd0], io, queue, wk, fd0)
        PROVE  /\ Left(cl[c], sock[c], conns[fd0]) = 2 * Made(cl[c], sock[c], conns[fd0])
               /\ \A v \in Workers : ~ Replies(wk, v, fd0)
    <3> DEFINE g == Len(cl[c].got)
               a == Len(sock[c].out)
               b == Len(conns[fd0].write_buf)
    <3>1. Calm(cl[c], sock[c], conns[fd0])
      BY <2>3, <2>4 DEF Line
    <3>2. a = 0 /\ b = 0 /\ Left(cl[c], sock[c], conns[fd0]) = 2 * g
          /\ Made(cl[c], sock[c], conns[fd0]) = g + a + b
      BY <3>1 DEF Calm, Made
    <3>3. g \in Nat
      BY LenProperties DEF Base, ClientTypes, Client
    <3>4. conns[fd0].write_buf = <<>>
      BY <2>3, <3>2, EmptySeq
    <3>5. \A v \in Workers : ~ Replies(wk, v, fd0)
      BY <2>4, <3>4 DEF Line
    <3> HIDE DEF g, a, b
    <3>6. QED BY <3>2, <3>3, <3>5
  <2>5. QED BY <1>1, <1>2, <1>5, <2>1, <2>2, <2>4, SubmitFlow
<1>6. QED BY <1>4, <1>5

LEMMA IoWriteFlow ==
    ASSUME Base, NEW c \in Clients, FlowOf(c), IoWrite
    PROVE  FlowOf(c)'
<1> DEFINE fd0 == io.fd
           d == file[fd0]
           buf == conns[fd0].write_buf
           n == Fits(fd0)
           a == SubSeq(buf, 1, n)
           rest == SubSeq(buf, n + 1, Len(buf))
           q == plan.script[c].stmts
<1>1. /\ fd0 \in Fds /\ conn_mutex = Free /\ IoNext
      /\ UNCHANGED <<plan, cl, running, parser, reused, backlog, conn_mutex, queue, stop, wk>>
  BY IoWriteIs
<1>2. \A fd : ~ Dispatching(io', fd)
  BY <1>1, NotDispatching
<1>3. \A fd : \A w \in Workers : Kept(wk[w], wk'[w], fd)
  BY <1>1 DEF Kept
<1>4. CASE fd0 \notin OpenIn(file)
  <2>1. UNCHANGED <<sock, conns, file>>
    BY <1>4, IoWriteIs
  <2>2. OpenIn(file)' = OpenIn(file)
    BY <2>1 DEF OpenIn
  <2> HIDE DEF fd0
  <2>3. QED BY <1>1, <1>2, <1>3, <2>1, <2>2, KeptFlow
<1>5. CASE fd0 \in OpenIn(file)
  <2>1. /\ d \in Clients /\ n \in 0 .. Len(buf) /\ a \in Seq(Answer) /\ Len(a) = n
        /\ \A i \in 1 .. n : a[i] = buf[i]
        /\ Len(rest) = Len(buf) - n
        /\ \A i \in 1 .. Len(buf) - n : rest[i] = buf[n + i]
        /\ sock' = [sock EXCEPT ![d] = [sock[d] EXCEPT !.out = @ \o a]]
        /\ \/ Closes(fd0)
           \/ conns' = [conns EXCEPT ![fd0] = [conns[fd0] EXCEPT !.write_buf = rest]] /\ file' = file
    BY <1>5, IoWriteIs
  <2> HIDE DEF n, a, rest
  <2>2. /\ sock \in [Clients -> Socket(plan)] /\ conns \in [OpenIn(file) -> Connection(plan)]
        /\ conns[fd0] \in Connection(plan) /\ file \in [Fds -> Clients \cup {NoClient}]
    BY <1>5, ConnIs DEF Base, ClientTypes, Files
  <2>3. \/ OpenIn(file)' = OpenIn(file) \ {fd0} /\ \A fd \in OpenIn(file)' : file'[fd] = file[fd]
        \/ file' = file /\ OpenIn(file)' = OpenIn(file)
    BY <2>1, <2>2 DEF Closes, OpenIn
  <2>4. \A fd \in OpenIn(file)' \ {fd0} : conns'[fd] = conns[fd]
    BY <2>1, <2>2, <2>3 DEF Closes
  <2>5. CASE c # d
    <3>1. sock'[c] = sock[c]
      BY <2>1, <2>2, <2>5
    <3>2. \A fd \in OpenIn(file)' : file'[fd] = c =>
               fd \in OpenIn(file) /\ file[fd] = c /\ conns'[fd] = conns[fd]
      BY <2>3, <2>4, <2>5
    <3> HIDE DEF d, fd0, buf
    <3>3. ASSUME NEW fd \in OpenIn(file)', file'[fd] = c
          PROVE  /\ fd \in OpenIn(file) /\ file[fd] = c
                 /\ Line(q, cl[c], sock[c], conns[fd], io, queue, wk, fd) =>
                      Line(q, cl[c], sock[c], conns'[fd], io', queue', wk', fd)
      <4>1. fd \in OpenIn(file) /\ file[fd] = c /\ conns'[fd] = conns[fd] /\ ~ Dispatching(io', fd)
            /\ queue' = queue /\ wk' = wk
        BY <1>1, <1>2, <3>2, <3>3
      <4> HIDE DEF q
      <4>2. QED BY <4>1 DEF Line
    <3>4. QED BY <1>1, <3>1, <3>3, SMTT(30) DEF FlowOf
  <2>6. CASE c = d
    <3> DEFINE k == cl[c]
               s == sock[c]
               s2 == sock'[c]
               y == conns[fd0]
               y2 == [y EXCEPT !.write_buf = rest]
    <3>1. \A fd \in OpenIn(file) : file[fd] = c => fd = fd0
      BY <1>5, <2>6 DEF Base, OneConnection
    <3>2. s2.in = s.in /\ s2.out = s.out \o a
      BY <2>1, <2>2, <2>6 DEF Socket
    <3>3. y2.read_buf = y.read_buf /\ y2.write_buf = rest
      BY <2>2 DEF Connection
    <3>4. Writes(s, y, n, a, s2, y2)
      BY <2>1, <3>2, <3>3 DEF Writes
    <3>5. /\ k \in Client /\ s \in Socket(plan) /\ y \in Connection(plan) /\ Right(q, k, s)
          /\ Line(q, k, s, y, io, queue, wk, fd0)
      BY <1>5, <2>6, FlowIs
    <3>6. Track(q, k, s, y)
      BY <3>5 DEF Line
    <3>7. k.state # "new" /\ c \notin ToSet(backlog)
      BY <1>5, <2>6 DEF Base, OneConnection
    <3>8. \A w \in Workers : ~ Replies(wk, w, fd0)
      BY <1>1, NamesAssumption DEF Base, Latches, Replies, Pc
    <3>9. conns' = [conns EXCEPT ![fd0] = y2] => conns'[fd0] = y2
      BY <1>5, <2>2
    <3>10. fd0 \in OpenIn(file)' => conns'[fd0] = y2
      BY <2>1, <2>2, <3>9 DEF Closes, OpenIn
    <3> HIDE DEF k, s, s2, y, y2, q, fd0, d, buf
    <3>11. /\ Track(q, k, s2, y2) /\ Right(q, k, s2)
           /\ Made(k, s2, y2) = Made(k, s, y) /\ Left(k, s2, y2) = Left(k, s, y)
      BY ONLY <3>4, <3>5, <3>6, WriteTracks
    <3>12. Line(q, k, s2, y2, io', queue, wk, fd0)
      BY <1>2, <3>5, <3>8, <3>11 DEF Line
    <3>13. ASSUME NEW fd \in OpenIn(file)', file'[fd] = c
           PROVE  Line(q, k, s2, conns'[fd], io', queue', wk', fd)
      <4>1. fd = fd0
        BY <2>3, <3>1, <3>13
      <4>2. QED BY <1>1, <3>10, <3>12, <3>13, <4>1
    <3>14. plan'.script[c].stmts = q /\ cl'[c] = k /\ sock'[c] = s2 /\ Right(q, k, s2)
           /\ ~(cl'[c].state = "new" \/ c \in ToSet(backlog'))
      BY <1>1, <3>7, <3>11 DEF k, s2, q
    <3>15. \A fd \in OpenIn(file)' : file'[fd] = c =>
             Line(plan'.script[c].stmts, cl'[c], sock'[c], conns'[fd], io', queue', wk', fd)
      BY <3>13, <3>14
    <3>16. Right(plan'.script[c].stmts, cl'[c], sock'[c])
      BY <3>14
    <3>17. QED BY ONLY <3>14, <3>15, <3>16 DEF FlowOf
  <2>7. QED BY <2>5, <2>6
<1>6. QED BY <1>4, <1>5

-----------------------------------------------------------------------------
(* The flow holds in every state, and with it what the clients are told.   *)

LEMMA FlowInit == Init => Flow
<1> SUFFICES ASSUME Init, NEW c \in Clients PROVE FlowOf(c)
  BY DEF Flow
<1>1. Base
  BY BaseInit
<1>2. OpenIn(file) = {} /\ backlog = <<>>
  BY DEF Init, OpenIn
<1>3. cl[c] = [state |-> "new", sent |-> 0, got |-> <<>>] /\ sock[c].in = <<>> /\ sock[c].out = <<>>
  BY DEF Init
<1>4. Len(<<>>) = 0
  BY EmptySeq
<1>5. plan.script[c].stmts \in Seq(Statement)
  BY <1>1, PlanFacts DEF Base, ClientTypes
<1>6. Len(plan.script[c].stmts) \in Nat
  BY <1>5, LenProperties
<1> DEFINE q == plan.script[c].stmts
<1> HIDE DEF q
<1>7. Right(q, cl[c], sock[c]) /\ Unserved(q, cl[c], sock[c])
  BY <1>3, <1>4, <1>6 DEF Right, Unserved, q
<1>8. QED BY <1>2, <1>7 DEF FlowOf, q

LEMMA WorkerFlows ==
    ASSUME Base, Alike, NEW c \in Clients, FlowOf(c), NEW w \in Workers, WorkerStep(w)
    PROVE  FlowOf(c)'
BY PoolMovesFlow, TakesFlow, FromCacheFlow, ParseFlow, AnalyzeFlow, RespondFlow, RespondNextFlow
   DEF WorkerStep

LEMMA IoFlows ==
    ASSUME Base, NEW c \in Clients, FlowOf(c), IoStep, ~ reused'
    PROVE  FlowOf(c)'
BY IoPlainFlow, IoAcceptFlow, IoReadFlow, IoDispatchFlow, IoWriteFlow DEF IoStep

\* What excuses the server stays so.
LEMMA ExcusesStay ==
    ASSUME [Next]_vars
    PROVE  plan' = plan /\ (reused => reused') /\ (Alike' <=> Alike)
<1>1. CASE UNCHANGED vars
  BY <1>1 DEF vars, Alike, Stmts, Script
<1>2. CASE Next
  <2>1. plan' = plan /\ (reused => reused')
    <3>1. CASE \E c \in Clients : ClientStep(c)
      BY <3>1, ClientLeaves
    <3>2. CASE \E w \in Workers : WorkerStep(w)
      BY <3>2 DEF WorkerStep, WorkerTest, WorkerStops, WorkerFalls, WorkerSleeps, WorkerTakes,
                  FromCache, Parse, Analyze, Respond, RespondNext, Commit, pool_step
    <3>3. CASE IoAccept
      BY <3>3 DEF IoAccept
    <3>4. CASE Stop
      BY <3>4 DEF Stop
    <3>5. CASE IoStep /\ ~ IoAccept
      <4>1. CASE IoEvent
        BY <4>1 DEF IoEvent, io_step
      <4>6. CASE IoAccepted \/ IoNotified \/ IoHangup
        BY <4>6 DEF IoAccepted, IoNotified, IoHangup, io_step
      <4>2. CASE IoRead \/ IoEndOfInput \/ IoRead_done \/ IoDispatch
        BY <4>2 DEF IoRead, IoEndOfInput, IoRead_done, IoDispatch, io_step
      <4>3. CASE IoWrite \/ IoFlush
        BY <4>3 DEF IoWrite, IoFlush, io_step
      <4>4. CASE IoStopPool \/ IoNotifyAll \/ IoJoin
        BY <4>4 DEF IoStopPool, IoNotifyAll, IoJoin, io_step
      <4>5. QED BY <3>5, <4>1, <4>2, <4>3, <4>4, <4>6 DEF IoStep
    <3>6. QED BY <1>2, <3>1, <3>2, <3>3, <3>4, <3>5 DEF Next
  <2>2. QED BY <2>1 DEF Alike, Stmts, Script
<1>3. QED BY <1>1, <1>2

LEMMA FlowNext == Base /\ Flow /\ [Next]_vars => Flow'
<1> SUFFICES ASSUME Base, Flow, [Next]_vars, ~ reused', Alike', NEW c \in Clients, plan'.script[c].waits
             PROVE  FlowOf(c)'
  BY DEF Flow
<1>1. plan' = plan /\ ~ reused /\ Alike
  BY ExcusesStay
<1>2. plan.script[c].waits /\ FlowOf(c)
  BY <1>1 DEF Flow
<1>3. CASE UNCHANGED vars
  BY <1>2, <1>3 DEF vars, FlowOf, OpenIn
<1>4. CASE \E d \in Clients : ClientStep(d)
  BY <1>2, <1>4, ClientFlows
<1>5. CASE \E w \in Workers : WorkerStep(w)
  BY <1>1, <1>2, <1>5, WorkerFlows
<1>6. CASE IoStep
  BY <1>2, <1>6, IoFlows
<1>7. CASE Stop
  BY <1>2, <1>7, IoPlainFlow
<1>8. QED BY <1>3, <1>4, <1>5, <1>6, <1>7 DEF Next

LEMMA AnswersFollow == Base /\ Flow => AnswersMatch
<1> SUFFICES ASSUME Base, Flow, ~ reused, Alike, NEW c \in Clients, Script(c).waits
             PROVE  /\ 2 * Len(cl[c].got \o sock[c].out) <= cl[c].sent
                    /\ \A i \in DOMAIN (cl[c].got \o sock[c].out) :
                          (cl[c].got \o sock[c].out)[i] = Meant(Script(c).stmts[i])
  BY DEF AnswersMatch
<1> DEFINE g == cl[c].got
           o == sock[c].out
           q == plan.script[c].stmts
<1>1. Right(q, cl[c], sock[c])
  BY DEF Flow, FlowOf, Script
<1>2. g \in Seq(Answer) /\ o \in Seq(Answer)
  BY DEF Base, ClientTypes, Client, Socket
<1>3. /\ g \o o \in Seq(Answer) /\ Len(g \o o) = Len(g) + Len(o)
      /\ \A i \in 1 .. Len(g) + Len(o) : (g \o o)[i] = IF i <= Len(g) THEN g[i] ELSE o[i - Len(g)]
  BY ONLY <1>2, ConcatProperties
<1>4. /\ 2 * (Len(g) + Len(o)) <= cl[c].sent
      /\ \A i \in 1 .. Len(g) : g[i] = Meant(q[i])
      /\ \A i \in 1 .. Len(o) : o[i] = Meant(q[Len(g) + i])
  BY <1>1 DEF Right
<1>5. Len(g) \in Nat /\ Len(o) \in Nat /\ DOMAIN (g \o o) = 1 .. Len(g \o o)
  BY <1>2, <1>3, LenProperties
<1> DEFINE G == Len(g)
           O == Len(o)
           t == g \o o
<1>6. /\ G \in Nat /\ O \in Nat /\ DOMAIN t = 1 .. G + O /\ Len(t) = G + O
      /\ \A i \in 1 .. G + O : t[i] = IF i <= G THEN g[i] ELSE o[i - G]
      /\ 2 * (G + O) <= cl[c].sent
      /\ \A i \in 1 .. G : g[i] = Meant(q[i])
      /\ \A i \in 1 .. O : o[i] = Meant(q[G + i])
  BY <1>3, <1>4, <1>5
<1> HIDE DEF G, O, t, g, o, q
<1>7. ASSUME NEW i \in DOMAIN t PROVE t[i] = Meant(q[i])
  <2>1. CASE i <= G
    <3>1. i \in 1 .. G
      BY <1>6, <2>1
    <3>2. QED BY <1>6, <2>1, <3>1
  <2>2. CASE ~(i <= G)
    <3>1. i - G \in 1 .. O /\ G + (i - G) = i
      BY <1>6, <2>2
    <3>2. QED BY <1>6, <2>2, <3>1
  <2>3. QED BY <2>1, <2>2
<1>8. 2 * Len(t) <= cl[c].sent
  BY <1>6
<1>9. QED BY <1>7, <1>8 DEF t, g, o, q, Script

\* A client that waits for its answers gets the effects of its own statements, in order and
\* one for each: the workers, the cached plans, the descriptors and the two threads at its
\* buffers confuse nothing, as long as no descriptor is reused under a statement and no pattern
\* stands for two kinds of statements (epoll_server.cpp:112-329, rmdb.cpp:514-695).
THEOREM ClientsGetTheirAnswers == Spec => []AnswersMatch
<1>1. Spec => [](Base /\ Flow)
  <2>1. Init => Base /\ Flow
    BY BaseInit, FlowInit
  <2>2. Base /\ Flow /\ [Next]_vars => (Base /\ Flow)'
    BY BaseNext, FlowNext
  <2>3. QED BY <2>1, <2>2, PTL DEF Spec
<1>2. Base /\ Flow => AnswersMatch
  BY AnswersFollow
<1>3. QED BY <1>1, <1>2, PTL

=============================================================================
