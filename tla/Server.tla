------------------------------- MODULE Server --------------------------------
(***************************************************************************)
(* EpollServer and WorkerPool (network/epoll_server.cpp) with the work of  *)
(* process_query (rmdb.cpp:514) and the end of main: one I/O thread, the   *)
(* workers and their queue, connections found by descriptor, the plans     *)
(* each worker caches, the mutex of the parser, shutdown by SIGINT.        *)
(*                                                                         *)
(* The kernel and the clients are as the server uses them: a socket has    *)
(* unread input, output the client has not read (Room of it at most) and   *)
(* the end of the input; descriptors are given out lowest first; epoll is  *)
(* edge-triggered, with its list of ready descriptors in order, and hands  *)
(* out one event at a time.  Input is statements and End, the ';', in      *)
(* turn.  An answer is one unit, the effect of the plan that ran.          *)
(*                                                                         *)
(* Left out: errors of system calls (a reset connection among them),       *)
(* aborts and failures of a statement (TransactionManager has them), views *)
(* and subqueries.                                                         *)
(***************************************************************************)
EXTENDS PlanCache, Sequences, FiniteSets, SequencesExt

CONSTANTS
    Clients, Workers,
    End,            \* the ';' that ends a statement
    MaxFd,          \* bound on the descriptors of clients, 1 .. MaxFd
    MaxConn,        \* MAX_CONN, 128 in the code
    Room,           \* answers the kernel holds for a client before a write gets EAGAIN
    Plans           \* what the clients do, and whether the server is stopped

ASSUME SizesAssumption ==
    MaxConn \in Nat \ {0} /\ Room \in Nat \ {0} /\ MaxFd \in Nat /\ MaxFd > MaxConn

VARIABLES
    plan,       \* the plan of this behaviour
    cl,         \* the clients: packets sent, answers received, state
    sock,       \* of each client: input not read, output not received, end of input
    file,       \* descriptor table: the client behind an open descriptor
    backlog,    \* connections not accepted
    ep,         \* epoll: the list of ready descriptors, the events asked for
    conns,      \* connections_
    conn_mutex, \* who holds conn_mutex_ across steps
    running,    \* running_
    io,         \* the I/O thread
    queue,      \* queue_ of the pool
    stop,       \* stop_ of the pool
    parser,     \* buffer_mutex with the global parse_tree: who holds it, the tree
    wk,         \* the workers, each with its tls_plan_cache
    reused      \* ghost: a descriptor went to a new client while a statement of the former ran

vars == <<plan, cl, sock, file, backlog, ep, conns, conn_mutex, running, io, queue, stop,
          parser, wk, reused>>

Fds == 1 .. MaxFd
NoClient == "no client"
Free == "free"
IoThread == "io"
Listen == MaxFd + 1
Notify == MaxFd + 2

ASSUME NamesAssumption ==
    NoClient \notin Clients /\ {Free, IoThread} \cap Workers = {} /\ End \notin Statement

\* The packets of a client end after so many units of its input.
ASSUME PlansAssumption ==
    \A p \in Plans : \A c \in Clients :
        /\ p.script[c].stmts \in Seq(Statement)
        /\ p.script[c].packets \subseteq 1 .. 2 * Len(p.script[c].stmts)

\* A worker between two statements; when the server begins to run they all sleep.
Idle == [pc |-> "top", fd |-> 0, who |-> NoClient, sql |-> <<>>, plan |-> NoPlan,
         cache |-> [p \in Patterns |-> NoPlan]]

Init ==
    /\ plan \in Plans
    /\ cl = [c \in Clients |-> [state |-> "new", sent |-> 0, got |-> <<>>]]
    /\ sock = [c \in Clients |-> [in |-> <<>>, out |-> <<>>, eof |-> FALSE]]
    /\ file = [fd \in Fds |-> NoClient]
    /\ backlog = <<>>
    /\ ep = [ready |-> <<>>, interest |-> [fd \in Fds |-> {}]]
    /\ conns = <<>>
    /\ conn_mutex = Free
    /\ running = TRUE
    /\ io = [pc |-> "wait", fd |-> 0, ev |-> {}, dispatch |-> FALSE]
    /\ queue = <<>>
    /\ stop = FALSE
    /\ parser = [holder |-> Free, tree |-> Broken]
    /\ wk = [w \in Workers |-> [Idle EXCEPT !.pc = "asleep"]]
    /\ reused = FALSE

-----------------------------------------------------------------------------
(* The kernel: readiness of a socket s and the list of epoll. *)

Readiness(s) ==
    (IF s.in # <<>> \/ s.eof THEN {"IN"} ELSE {})
        \cup (IF s.eof THEN {"RDHUP"} ELSE {})
        \cup (IF Len(s.out) < Room THEN {"OUT"} ELSE {})

Arm(e, fd) == IF Contains(e.ready, fd) THEN e ELSE [e EXCEPT !.ready = Append(@, fd)]

\* EPOLL_CTL_ADD and EPOLL_CTL_MOD report a descriptor that is ready already.
mod_epoll(e, fd, events, s) ==
    LET asked == [e EXCEPT !.interest[fd] = events]
    IN  IF Readiness(s) \cap (events \cup {"RDHUP"}) # {} THEN Arm(asked, fd) ELSE asked

\* An edge on the socket of client c.
Edge(e, c, events) ==
    LET fds == {fd \in Fds : file[fd] = c /\ events \cap (e.interest[fd] \cup {"RDHUP"}) # {}}
    IN  IF fds = {} THEN e ELSE Arm(e, CHOOSE fd \in fds : TRUE)

\* close() takes a descriptor out of epoll.
Place(s, x) == CHOOSE i \in DOMAIN s : s[i] = x
Forget(e, fd) == [ready |-> IF Contains(e.ready, fd) THEN RemoveAt(e.ready, Place(e.ready, fd))
                            ELSE e.ready,
                  interest |-> [e.interest EXCEPT ![fd] = {}]]

-----------------------------------------------------------------------------
(* The clients. *)

Script(c) == plan.script[c]
Input(c, i) == IF i % 2 = 0 THEN End ELSE Script(c).stmts[(i + 1) \div 2]
Units(c, from, to) == [i \in 1 .. to - from |-> Input(c, from + i)]
Complete(c) == cl[c].sent \div 2
Answered(c) == Len(cl[c].got) = Complete(c)
AllSent(c) == \A n \in Script(c).packets : n <= cl[c].sent
Closed(c) == cl[c].state \in {"open", "left"} /\ \A fd \in Fds : file[fd] # c
                /\ ~ Contains(backlog, c)

Reached(c, what) == IF what = "left" THEN cl[c].state = "left" ELSE cl[c].got # <<>>

Connect(c) ==
    /\ cl[c].state = "new" /\ Script(c).packets # {} /\ running
    /\ \A d \in DOMAIN Script(c).after : Reached(d, Script(c).after[d])
    /\ cl' = [cl EXCEPT ![c].state = "open"]
    /\ backlog' = Append(backlog, c)
    /\ ep' = Arm(ep, Listen)
    /\ UNCHANGED <<plan, sock, file, conns, conn_mutex, running, io, queue, stop, parser, wk, reused>>

\* A client waits for its answers before it sends more, unless the plan says it does not.
Send(c) ==
    /\ cl[c].state = "open" /\ ~ AllSent(c) /\ ~ Closed(c)
    /\ Script(c).waits => Answered(c)
    /\ \E n \in Script(c).packets :
        /\ n > cl[c].sent /\ \A m \in Script(c).packets : m > cl[c].sent => n <= m
        /\ cl' = [cl EXCEPT ![c].sent = n]
        /\ sock' = [sock EXCEPT ![c].in = @ \o Units(c, cl[c].sent, n)]
    /\ ep' = Edge(ep, c, {"IN"})
    /\ UNCHANGED <<plan, file, backlog, conns, conn_mutex, running, io, queue, stop, parser, wk, reused>>

Receive(c) ==
    /\ sock[c].out # <<>>
    /\ cl' = [cl EXCEPT ![c].got = Append(@, Head(sock[c].out))]
    /\ sock' = [sock EXCEPT ![c].out = Tail(@)]
    /\ ep' = Edge(ep, c, {"OUT"})
    /\ UNCHANGED <<plan, file, backlog, conns, conn_mutex, running, io, queue, stop, parser, wk, reused>>

\* The client ends its side of the connection; what is still sent to it, it reads.
Leave(c) ==
    /\ cl[c].state = "open" /\ AllSent(c)
    /\ Script(c).leaves = "early" \/ (Script(c).leaves = "answered" /\ Answered(c))
    /\ cl' = [cl EXCEPT ![c].state = "left"]
    /\ sock' = [sock EXCEPT ![c].eof = TRUE]
    /\ ep' = Edge(ep, c, {"IN", "RDHUP"})
    /\ UNCHANGED <<plan, file, backlog, conns, conn_mutex, running, io, queue, stop, parser, wk, reused>>

ClientStep(c) == Connect(c) \/ Send(c) \/ Receive(c) \/ Leave(c)

-----------------------------------------------------------------------------
(* WorkerPool.  mutex_ is held across steps only between a look at the     *)
(* predicate of cv_ and the sleep that follows.                            *)

Pc(w) == wk[w].pc
MutexFree == \A w \in Workers : Pc(w) # "falling"
WkTo(w, pc) == [wk EXCEPT ![w].pc = pc]

\* The workers as notify_one may leave them.
NotifyOne(ws) ==
    LET asleep == {w \in Workers : ws[w].pc = "asleep"}
    IN  IF asleep = {} THEN {ws} ELSE {[ws EXCEPT ![w].pc = "ready"] : w \in asleep}

\* A caller that leaves the workers as ws submits a statement.
submit(fd, sql, ws) ==
    /\ MutexFree
    /\ IF stop THEN UNCHANGED queue /\ wk' = ws
       ELSE /\ queue' = Append(queue, [conn_fd |-> fd, sql |-> sql])
            /\ wk' \in NotifyOne(ws)

pool_step ==
    UNCHANGED <<plan, cl, sock, file, backlog, ep, conns, conn_mutex, running, io, stop, reused>>

WorkerTest(w) ==
    /\ Pc(w) = "top"
    /\ wk' = WkTo(w, IF stop THEN "gone" ELSE "ready")
    /\ pool_step /\ UNCHANGED <<queue, parser>>

WorkerStops(w) ==
    /\ Pc(w) = "ready" /\ MutexFree /\ stop /\ queue = <<>>
    /\ wk' = WkTo(w, "gone")
    /\ pool_step /\ UNCHANGED <<queue, parser>>

\* The predicate of cv_ is false.
WorkerFalls(w) ==
    /\ Pc(w) = "ready" /\ MutexFree /\ ~ stop /\ queue = <<>>
    /\ wk' = WkTo(w, "falling")
    /\ pool_step /\ UNCHANGED <<queue, parser>>

\* It sleeps, and gives up mutex_.  shutdown notifies without mutex_: a worker that was
\* on its way to sleep then sleeps for ever ("overslept").
WorkerSleeps(w) ==
    /\ Pc(w) = "falling"
    /\ wk' = WkTo(w, IF io.pc = "join" THEN "overslept" ELSE "asleep")
    /\ pool_step /\ UNCHANGED <<queue, parser>>

WorkerTakes(w) ==
    /\ Pc(w) = "ready" /\ MutexFree /\ queue # <<>>
    /\ wk' = [wk EXCEPT ![w].pc = "begin", ![w].fd = Head(queue).conn_fd,
                        ![w].who = file[Head(queue).conn_fd], ![w].sql = Head(queue).sql]
    /\ queue' = Tail(queue)
    /\ pool_step /\ UNCHANGED parser

-----------------------------------------------------------------------------
(* process_query: the plan of the statement, its answer, its commit.  A    *)
(* statement runs in the step that makes its plan.                         *)

\* The tree of the whole text, which ends with the first ';', or a syntax error.
Parsed(sql) == IF Len(sql) = 2 THEN sql[1] ELSE Broken
Cached(w) == LET s == Parsed(wk[w].sql)
             IN  try_fast_path(s) /\ wk[w].cache[s.pattern] # NoPlan

FromCache(w) ==
    /\ Pc(w) = "begin" /\ Cached(w)
    /\ LET s == Parsed(wk[w].sql)
       IN  wk' = [wk EXCEPT ![w].pc = "answer",
                            ![w].plan = Effect(clone_and_rebind(wk[w].cache[s.pattern], s))]
    /\ pool_step /\ UNCHANGED <<queue, parser>>

\* buffer_mutex; the parser leaves its tree in a variable all workers share, unless
\* the fast path has made one.
Parse(w) ==
    /\ Pc(w) = "begin" /\ ~ Cached(w) /\ parser.holder = Free
    /\ LET s == Parsed(wk[w].sql)
       IN  IF s = Broken
           THEN /\ wk' = [wk EXCEPT ![w].pc = "answer", ![w].plan = Broken]
                /\ parser' = [parser EXCEPT !.tree = Broken]
           ELSE /\ wk' = WkTo(w, "analyze")
                /\ parser' = [holder |-> w,
                              tree |-> IF try_fast_path(s) THEN parser.tree ELSE s]
    /\ pool_step /\ UNCHANGED queue

LocalAst(w) == LET s == Parsed(wk[w].sql) IN IF try_fast_path(s) THEN s ELSE parser.tree

\* do_analyze, plan_query, and a clone for the cache when the pattern has none yet.
Analyze(w) ==
    /\ Pc(w) = "analyze"
    /\ LET s == LocalAst(w)
           p == plan_query(s)
       IN  wk' = [wk EXCEPT ![w].pc = "answer", ![w].plan = Effect(p),
                            ![w].cache = IF Cacheable(s) /\ @[s.pattern] = NoPlan
                                         THEN [@ EXCEPT ![s.pattern] = p] ELSE @]
    /\ parser' = [parser EXCEPT !.holder = Free]
    /\ pool_step /\ UNCHANGED queue

\* enqueue_response takes conn_mutex_ and finds the connection by its descriptor.
Respond(w) ==
    /\ Pc(w) = "answer" /\ conn_mutex = Free
    /\ LET fd == wk[w].fd
       IN  IF fd \in DOMAIN conns
           THEN /\ conns' = [conns EXCEPT ![fd].write_buf = Append(@, wk[w].plan),
                                          ![fd].busy = FALSE]
                /\ conn_mutex' = w
                /\ wk' = WkTo(w, "respond")
           ELSE wk' = WkTo(w, "commit") /\ UNCHANGED <<conns, conn_mutex>>
    /\ UNCHANGED <<plan, cl, sock, file, backlog, ep, running, io, queue, stop, parser, reused>>

\* The first statement of a buffer, and what follows it.
HasStatement(buf) == Contains(buf, End)
Semi(buf) == CHOOSE i \in DOMAIN buf : buf[i] = End /\ \A j \in 1 .. i - 1 : buf[j] # End
First(buf) == SubSeq(buf, 1, Semi(buf))
AfterFirst(buf) == SubSeq(buf, Semi(buf) + 1, Len(buf))

Taken(fd) == [conns EXCEPT ![fd].read_buf = AfterFirst(@), ![fd].busy = TRUE]

\* Mutant: the statements that wait in read_buf are left for the next input.
RespondNextForgets(w) ==
    /\ Pc(w) = "respond"
    /\ wk' = WkTo(w, "commit")
    /\ UNCHANGED <<queue, conns>>
    /\ conn_mutex' = Free
    /\ ep' = Arm(ep, Notify)
    /\ UNCHANGED <<plan, cl, sock, file, backlog, running, io, stop, parser, reused>>

\* The next statement that waits, the notification of the I/O thread, and the mutex back.
RespondNext(w) ==
    /\ Pc(w) = "respond"
    /\ LET fd == wk[w].fd
           buf == conns[fd].read_buf
       IN  IF HasStatement(buf)
           THEN conns' = Taken(fd) /\ submit(fd, First(buf), WkTo(w, "commit"))
           ELSE wk' = WkTo(w, "commit") /\ UNCHANGED <<queue, conns>>
    /\ conn_mutex' = Free
    /\ ep' = Arm(ep, Notify)
    /\ UNCHANGED <<plan, cl, sock, file, backlog, running, io, stop, parser, reused>>

\* The transaction of the statement commits after its answer is on its way.
Commit(w) ==
    /\ Pc(w) = "commit"
    /\ wk' = [wk EXCEPT ![w] = [Idle EXCEPT !.cache = wk[w].cache]]
    /\ pool_step /\ UNCHANGED <<queue, parser>>

WorkerStep(w) ==
    \/ WorkerTest(w) \/ WorkerStops(w) \/ WorkerFalls(w) \/ WorkerSleeps(w) \/ WorkerTakes(w)
    \/ FromCache(w) \/ Parse(w) \/ Analyze(w) \/ Respond(w) \/ RespondNext(w) \/ Commit(w)

-----------------------------------------------------------------------------
(* The I/O thread. *)

IoTo(pc) == [io EXCEPT !.pc = pc]
\* The end of an event: run looks at running_ before it waits again.
IoNext == io' = [pc |-> IF running THEN "wait" ELSE "flush", fd |-> 0, ev |-> {},
                 dispatch |-> FALSE]
io_step == UNCHANGED <<plan, cl, running, parser, reused>>

IoEvent ==
    /\ io.pc = "wait" /\ ep.ready # <<>>
    /\ LET fd == Head(ep.ready)
           ev == Readiness(sock[file[fd]]) \cap (ep.interest[fd] \cup {"RDHUP"})
       IN  io' = CASE fd = Listen -> IoTo("accept")
                   [] fd = Notify -> IoTo("notify")
                   [] OTHER -> [pc |-> CASE "RDHUP" \in ev -> "hangup"
                                         [] "IN" \in ev /\ "RDHUP" \notin ev -> "read"
                                         [] ev = {"OUT"} -> "write"
                                         [] ev = {} -> "wait",
                                fd |-> fd, ev |-> ev, dispatch |-> FALSE]
    /\ ep' = [ep EXCEPT !.ready = Tail(@)]
    /\ io_step /\ UNCHANGED <<sock, file, backlog, conns, conn_mutex, queue, stop, wk>>

NewConnection == [read_buf |-> <<>>, write_buf |-> <<>>, closing |-> FALSE, busy |-> FALSE]
LowestFd == CHOOSE fd \in Fds : file[fd] = NoClient
                /\ \A other \in Fds : other < fd => file[other] # NoClient

\* A statement that came in on fd is queued or runs.
InFlight(fd) == \/ \E i \in DOMAIN queue : queue[i].conn_fd = fd
                \/ \E w \in Workers : Pc(w) \in {"begin", "analyze", "answer"} /\ wk[w].fd = fd

\* accept4, until it says EAGAIN; beyond MAX_CONN connections it closes the new one.
IoAccept ==
    /\ io.pc = "accept" /\ backlog # <<>>
    /\ backlog' = Tail(backlog)
    /\ IF Cardinality(DOMAIN conns) >= MaxConn
       THEN UNCHANGED <<file, ep, conns, reused>>
       ELSE /\ conn_mutex = Free
            /\ file' = [file EXCEPT ![LowestFd] = Head(backlog)]
            /\ ep' = mod_epoll(ep, LowestFd, {"IN"}, sock[Head(backlog)])
            /\ conns' = [fd \in DOMAIN conns \cup {LowestFd} |->
                            IF fd = LowestFd THEN NewConnection ELSE conns[fd]]
            /\ reused' = (reused \/ InFlight(LowestFd))
    /\ UNCHANGED <<plan, cl, running, parser, sock, conn_mutex, io, queue, stop, wk>>

IoAccepted ==
    /\ io.pc = "accept" /\ backlog = <<>>
    /\ IoNext
    /\ io_step /\ UNCHANGED <<sock, file, backlog, ep, conns, conn_mutex, queue, stop, wk>>

HasPendingWrite(fd) == conns[fd].write_buf # <<>>
Pending == {fd \in DOMAIN conns : HasPendingWrite(fd)}

Reported == {fd \in Pending : Readiness(sock[file[fd]]) # {} /\ ~ Contains(ep.ready, fd)}

\* A worker has answered: EPOLLOUT is asked for wherever output waits, which reports the
\* sockets with room at once, in the order of an unordered_map.
IoNotified ==
    /\ io.pc = "notify" /\ conn_mutex = Free
    /\ \E order \in SetToSeqs(Reported) :
        ep' = [ready |-> ep.ready \o order,
               interest |-> [fd \in Fds |-> IF fd \in Pending THEN {"IN", "OUT"} ELSE ep.interest[fd]]]
    /\ IoNext
    /\ io_step /\ UNCHANGED <<sock, file, backlog, conns, conn_mutex, queue, stop, wk>>

\* Mutant: the connection stays in connections_.
ClosesKeepsConnection(fd) ==
    /\ conns' = [conns EXCEPT ![fd].write_buf = <<>>]
    /\ file' = [file EXCEPT ![fd] = NoClient]
    /\ ep' = Forget(ep, fd)

\* The descriptor is closed and the connection forgotten; a statement of it may still run.
Closes(fd) ==
    /\ conns' = [other \in DOMAIN conns \ {fd} |-> conns[other]]
    /\ file' = [file EXCEPT ![fd] = NoClient]
    /\ ep' = Forget(ep, fd)

close_connection(fd) ==
    /\ conn_mutex = Free
    /\ IF HasPendingWrite(fd)
       THEN /\ conns' = [conns EXCEPT ![fd].closing = TRUE]
            /\ ep' = mod_epoll(ep, fd, {"IN", "OUT"}, sock[file[fd]])
            /\ UNCHANGED file
       ELSE Closes(fd)

IoHangup ==
    /\ io.pc = "hangup"
    /\ close_connection(io.fd)
    /\ IoNext
    /\ io_step /\ UNCHANGED <<sock, backlog, conn_mutex, queue, stop, wk>>

\* handle_read: it finds the connection under conn_mutex_ and then works without it.
IoRead ==
    /\ io.pc = "read" /\ sock[file[io.fd]].in # <<>>
    /\ io.dispatch \/ conn_mutex = Free
    /\ conns' = [conns EXCEPT ![io.fd].read_buf = @ \o sock[file[io.fd]].in]
    /\ sock' = [sock EXCEPT ![file[io.fd]].in = <<>>]
    /\ io' = [io EXCEPT !.dispatch = TRUE]
    /\ io_step /\ UNCHANGED <<file, backlog, ep, conn_mutex, queue, stop, wk>>

\* handle_write follows when the event says so.
ToWrite == IF "OUT" \in io.ev THEN io' = IoTo("write") ELSE IoNext

IoEndOfInput ==
    /\ io.pc = "read" /\ sock[file[io.fd]].in = <<>> /\ sock[file[io.fd]].eof
    /\ close_connection(io.fd)
    /\ ToWrite
    /\ io_step /\ UNCHANGED <<sock, backlog, conn_mutex, queue, stop, wk>>

\* EAGAIN: whether a statement can be dispatched is asked once.
IoRead_done ==
    /\ io.pc = "read" /\ sock[file[io.fd]].in = <<>> /\ ~ sock[file[io.fd]].eof
    /\ IF io.dispatch /\ ~ conns[io.fd].busy THEN io' = IoTo("dispatch") ELSE ToWrite
    /\ io_step /\ UNCHANGED <<sock, file, backlog, ep, conns, conn_mutex, queue, stop, wk>>

IoDispatch ==
    /\ io.pc = "dispatch"
    /\ LET buf == conns[io.fd].read_buf
       IN  IF HasStatement(buf)
           THEN conns' = Taken(io.fd) /\ submit(io.fd, First(buf), wk)
           ELSE UNCHANGED <<conns, queue, wk>>
    /\ ToWrite
    /\ io_step /\ UNCHANGED <<sock, file, backlog, ep, conn_mutex, stop>>

\* handle_write: as much as the kernel takes; back to reading alone when nothing is left.
Fits(fd) == LET room == Room - Len(sock[file[fd]].out)
            IN  IF room < Len(conns[fd].write_buf) THEN room ELSE Len(conns[fd].write_buf)

IoWrite ==
    /\ io.pc = "write" /\ conn_mutex = Free
    /\ IF io.fd \notin DOMAIN conns THEN UNCHANGED <<sock, conns, file, ep>>
       ELSE LET fd == io.fd
                c == file[fd]
                buf == conns[fd].write_buf
                rest == SubSeq(buf, Fits(fd) + 1, Len(buf))
            IN  /\ sock' = [sock EXCEPT ![c].out = @ \o SubSeq(buf, 1, Fits(fd))]
                /\ IF rest = <<>> /\ conns[fd].closing THEN Closes(fd)
                   ELSE /\ conns' = [conns EXCEPT ![fd].write_buf = rest]
                        /\ ep' = IF rest = <<>> THEN mod_epoll(ep, fd, {"IN"}, sock'[c]) ELSE ep
                        /\ UNCHANGED file
    /\ IoNext
    /\ io_step /\ UNCHANGED <<backlog, conn_mutex, queue, stop, wk>>

-----------------------------------------------------------------------------
(* Shutdown: SIGINT, the end of run, the destructor of the pool.           *)

Stop ==
    /\ plan.stops /\ running
    /\ running' = FALSE
    /\ ep' = Arm(ep, Notify)
    /\ UNCHANGED <<plan, cl, sock, file, backlog, conns, conn_mutex, io, queue, stop, parser, wk, reused>>

\* The last flush holds conn_mutex_ and calls handle_write, which locks it again: with
\* output left, the I/O thread waits for itself.
IoFlush ==
    /\ io.pc = "flush" /\ conn_mutex = Free
    /\ IF Pending # {}
       THEN io' = IoTo("hung") /\ conn_mutex' = IoThread /\ UNCHANGED <<file, conns, ep>>
       ELSE /\ io' = IoTo("shutdown")
            /\ file' = [fd \in Fds |-> NoClient]
            /\ conns' = <<>>
            /\ ep' = [ready |-> <<>>, interest |-> [fd \in Fds |-> {}]]
            /\ UNCHANGED conn_mutex
    /\ io_step /\ UNCHANGED <<sock, backlog, queue, stop, wk>>

IoStopPool ==
    /\ io.pc = "shutdown"
    /\ stop' = TRUE
    /\ io' = IoTo("wake")
    /\ io_step /\ UNCHANGED <<sock, file, backlog, ep, conns, conn_mutex, queue, wk>>

\* Mutant: one worker is notified.
IoNotifyOne ==
    /\ io.pc = "wake"
    /\ wk' \in NotifyOne(wk)
    /\ io' = IoTo("join")
    /\ io_step /\ UNCHANGED <<sock, file, backlog, ep, conns, conn_mutex, queue, stop>>

IoNotifyAll ==
    /\ io.pc = "wake"
    /\ wk' = [w \in Workers |-> IF Pc(w) = "asleep" THEN [wk[w] EXCEPT !.pc = "ready"] ELSE wk[w]]
    /\ io' = IoTo("join")
    /\ io_step /\ UNCHANGED <<sock, file, backlog, ep, conns, conn_mutex, queue, stop>>

IoJoin ==
    /\ io.pc = "join" /\ \A w \in Workers : Pc(w) = "gone"
    /\ io' = IoTo("down")
    /\ io_step /\ UNCHANGED <<sock, file, backlog, ep, conns, conn_mutex, queue, stop, wk>>

IoStep ==
    \/ IoEvent \/ IoAccept \/ IoAccepted \/ IoNotified \/ IoHangup
    \/ IoRead \/ IoEndOfInput \/ IoRead_done \/ IoDispatch \/ IoWrite
    \/ IoFlush \/ IoStopPool \/ IoNotifyAll \/ IoJoin

-----------------------------------------------------------------------------
Next == (\E c \in Clients : ClientStep(c)) \/ (\E w \in Workers : WorkerStep(w)) \/ IoStep \/ Stop

\* The I/O thread and the workers are threads of their own; clients do what they mean to.
Spec == Init /\ [][Next]_vars
             /\ WF_vars(IoStep)
             /\ \A w \in Workers : WF_vars(WorkerStep(w))
             /\ \A c \in Clients : WF_vars(ClientStep(c))

-----------------------------------------------------------------------------
(* Properties. *)

Stmts == UNION {ToSet(Script(c).stmts) : c \in Clients}
TypeOK ==
    /\ \A fd \in Fds : fd \in DOMAIN conns <=> file[fd] # NoClient
    /\ \A fd, other \in DOMAIN conns : file[fd] = file[other] => fd = other
    /\ IsInjective(ep.ready) /\ Len(ep.ready) <= MaxFd + 2
    /\ \A fd \in DOMAIN conns : ToSet(conns[fd].read_buf) \subseteq Stmts \cup {End}
    /\ \A i \in DOMAIN queue : Last(queue[i].sql) = End
    /\ parser.holder # Free => Pc(parser.holder) = "analyze"
    /\ conn_mutex \in Workers => Pc(conn_mutex) = "respond"

\* The statements of one pattern agree in their table and in what their WHERE tests.
Alike ==
    \A s, t \in Stmts \ {Broken} :
        s.pattern = t.pattern => s.tab = t.tab /\ s.where = t.where

\* A client that waits for its answers before it sends more gets the effects of its own
\* statements, one for each, in the order it sent them, whichever workers run them, with
\* whatever plans they have cached: as long as no descriptor is reused under a statement
\* and no pattern stands for two kinds of statements
\* (rmdb.cpp:514-695, epoll_server.cpp:196-224).
AnswersMatch ==
    ~ reused /\ Alike =>
        \A c \in Clients :
            LET answers == cl[c].got \o sock[c].out
            IN  Script(c).waits => /\ 2 * Len(answers) <= cl[c].sent
                                   /\ \A i \in DOMAIN answers : answers[i] = Meant(Script(c).stmts[i])

\* Every client that does not hang up before its answers gets them all, unless it was one
\* connection too many, the server is stopped or a descriptor is reused under a statement: no
\* wake-up of the I/O thread, of a worker or of a socket is lost
\* (epoll_server.cpp:112-174, 196-329).
Refused(c) == cl[c].state = "open" /\ Closed(c) /\ cl[c].got = <<>>
Served(c) == Script(c).leaves = "early" \/ (AllSent(c) /\ Answered(c)) \/ Refused(c)
StatementsAreAnswered == <>(~ running \/ reused \/ \A c \in Clients : Served(c))

\* After SIGINT the server comes down, except where it hangs in the flush of output that
\* is left, or joins a worker that fell asleep on its back
\* (epoll_server.cpp:39-45, 176-194).
StopEnds ==
    ~ running ~> \/ io.pc \in {"down", "hung"}
                 \/ \E w \in Workers : Pc(w) = "overslept"

\* The workers of a connection are serialized: no statement of a client runs before the
\* one that went before it has ended (epoll_server.cpp:277-280).
StatementsAreSerial ==
    \A v, w \in Workers :
        v # w /\ wk[v].who = wk[w].who => wk[v].who = NoClient
==============================================================================
