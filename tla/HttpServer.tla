------------------------------- MODULE HttpServer -------------------------------
(***************************************************************************)
(* The threads of the HTTP server: mongoose's master thread, the ring of   *)
(* accepted sockets, its worker threads, the threads that the video        *)
(* request makes for connections it moves away from a worker, and the stop.*)
(*                                                                         *)
(* Sockets are descriptor numbers: a number that was closed is given again *)
(* to the next connection.  What a request asks of the NVR is module       *)
(* Commands; here a request is plain, a video request, or the end of the   *)
(* connection.  A step that holds ctx->mutex is one step; only the wait in *)
(* consume_socket has two, because stop_flag is set and sq_full is         *)
(* broadcast without the mutex.  A worker reads with recv, which has no    *)
(* timeout: a client that says nothing keeps it for ever.  Left out: a     *)
(* thread that cannot be created.                                          *)
(***************************************************************************)
EXTENDS Integers, Sequences, FiniteSets

CONSTANTS
    Socks,       \* descriptor numbers, the lowest of which accept gives
    WorkerIds,   \* worker threads (num_threads, 5)
    Streams,     \* bound: send_stream_threads at a time
    QSize,       \* ARRAY_SIZE(ctx->queue), 20
    MaxConnect   \* max_connect, 100

ASSUME HttpServerAssumption ==
    /\ Socks \subseteq Nat \ {0} /\ Streams \subseteq Nat \ {0}
    /\ WorkerIds \subseteq Nat \ {0} /\ IsFiniteSet(WorkerIds)
    /\ QSize \in Nat \ {0} /\ MaxConnect \in Nat

VARIABLES
    stop,      \* stop_flag
    threads,   \* num_threads
    main,      \* mg_start: the worker that is started and not yet counted, or 0
    queue, head, tail,   \* the ring
    mpc,       \* control point of the master thread
    msock,     \* the socket it has accepted
    wpc, wsock,\* control point and conn->client.sock of each worker
    spc, ssock,\* the same of each stream thread
    chan,      \* the keys of m_channelist
    open,      \* open sockets
    line,      \* ghost: the sockets put into the ring and not yet taken
    late,      \* ghost: sq_full was broadcast between a worker's test and its wait
    crashed    \* the program has died of undefined behaviour

ring       == <<queue, head, tail, line>>
master     == <<mpc, msock>>
worker     == <<wpc, wsock>>
stream     == <<spc, ssock, chan>>
serverVars == <<stop, threads, main, ring, master, worker, stream, open, late, crashed>>

ServerTypeOK ==
    /\ stop \in 0..2 /\ threads \in 0..Cardinality(WorkerIds) /\ main \in WorkerIds \cup {0}
    /\ queue \in [0..QSize - 1 -> Socks \cup {0}]
    /\ tail \in 0..QSize /\ head \in tail..tail + QSize
    /\ mpc \in {"top", "produce", "full", "join", "done"}
    /\ msock \in Socks \cup {0}
    /\ wpc \in [WorkerIds -> {"unborn", "consume", "idle", "waiting", "woken",
                               "serve", "close", "gone"}]
    /\ wsock \in [WorkerIds -> Socks \cup {0}]
    /\ spc \in [Streams -> {"none", "find", "erase"}]
    /\ ssock \in [Streams -> Socks \cup {0}] /\ chan \subseteq Socks
    /\ open \subseteq Socks /\ line \in Seq(Socks) /\ late \in BOOLEAN /\ crashed \in BOOLEAN

\* mg_start: the context, the listening sockets and the master thread
ServerInit ==
    /\ stop = 0 /\ threads = 0 /\ main = 0
    /\ queue = [i \in 0..QSize - 1 |-> 0] /\ head = 0 /\ tail = 0 /\ line = <<>>
    /\ mpc = "top" /\ msock = 0
    /\ wpc = [w \in WorkerIds |-> "unborn"] /\ wsock = [w \in WorkerIds |-> 0]
    /\ spc = [t \in Streams |-> "none"] /\ ssock = [t \in Streams |-> 0]
    /\ chan = {} /\ open = {} /\ late = FALSE
    /\ crashed = FALSE

\* mg_start: a worker is started, and counted in num_threads without the mutex
StartWorker(w) ==
    /\ main = 0 /\ wpc[w] = "unborn" /\ \A v \in WorkerIds : v < w => wpc[v] # "unborn"
    /\ wpc' = [wpc EXCEPT ![w] = "consume"] /\ main' = w
    /\ UNCHANGED <<stop, threads, ring, master, wsock, stream, open, late>>

CountWorker ==
    /\ main # 0 /\ threads' = threads + 1 /\ main' = 0
    /\ UNCHANGED <<stop, ring, master, worker, stream, open, late>>

\* mg_stop, by the thread that ran mg_start
Stop ==
    /\ stop = 0 /\ main = 0 /\ \A w \in WorkerIds : wpc[w] # "unborn"
    /\ stop' = 1
    /\ UNCHANGED <<threads, main, ring, master, worker, stream, open, late>>

-----------------------------------------------------------------------------
Locked  == \E w \in WorkerIds : wpc[w] = "idle"
Waiting == {w \in WorkerIds : wpc[w] = "waiting"}

\* A round of master_thread's loop accepts a connection; a round that accepts on
\* both listening sockets is two rounds here, and one that began before stop_flag
\* was set and accepts after it accepts before it
Accept ==
    /\ mpc = "top" /\ stop = 0 /\ mpc' = "produce"
    /\ \E s \in Socks \ open :
         /\ \A r \in Socks \ open : s <= r
         /\ open' = open \cup {s} /\ msock' = s
    /\ UNCHANGED <<stop, threads, main, ring, worker, stream, late>>

\* Mutant: nobody is woken
NoSignal == UNCHANGED wpc

\* pthread_cond_signal(&ctx->sq_full)
SignalFull ==
    \/ Waiting = {} /\ UNCHANGED wpc
    \/ \E w \in Waiting : wpc' = [wpc EXCEPT ![w] = "woken"]

\* produce_socket; a full ring is waited for without a look at stop_flag
Produce ==
    /\ mpc = "produce" /\ ~Locked
    /\ IF head - tail >= QSize
       THEN mpc' = "full" /\ UNCHANGED <<msock, ring, wpc>>
       ELSE /\ queue' = [queue EXCEPT ![head % QSize] = msock]
            /\ head' = head + 1 /\ tail' = tail /\ line' = Append(line, msock)
            /\ mpc' = "top" /\ msock' = 0
            /\ SignalFull
    /\ UNCHANGED <<stop, threads, main, wsock, stream, open, late>>

\* Mutant: the sleeping workers are not woken
BroadcastNone ==
    /\ mpc = "top" /\ stop # 0 /\ mpc' = "join" /\ late' = Locked
    /\ UNCHANGED <<stop, threads, main, ring, msock, worker, stream, open>>

\* The loop ends on stop_flag: the listening sockets are closed and sq_full is
\* broadcast, without the mutex
Broadcast ==
    /\ mpc = "top" /\ stop # 0 /\ mpc' = "join" /\ late' = Locked
    /\ wpc' = [w \in WorkerIds |-> IF w \in Waiting THEN "woken" ELSE wpc[w]]
    /\ UNCHANGED <<stop, threads, main, ring, msock, wsock, stream, open>>

\* Mutant: the master does not wait for its workers
NoJoin ==
    /\ mpc = "join" /\ mpc' = "done" /\ stop' = 2
    /\ UNCHANGED <<threads, main, ring, msock, worker, stream, open, late>>

\* The master has waited for num_threads to be zero; mg_stop frees the context
Join ==
    /\ mpc = "join" /\ ~Locked /\ threads = 0
    /\ mpc' = "done" /\ stop' = 2
    /\ UNCHANGED <<threads, main, ring, msock, worker, stream, open, late>>

-----------------------------------------------------------------------------

\* Mutant: the indices are wrapped while the ring is in use at its end
WrapEarly(n) == IF n >= QSize THEN n - QSize + 1 ELSE n

\* "Wrap pointers if needed", one step of which is enough
Wrap(n) == IF n > QSize THEN n - QSize ELSE n

\* consume_socket finds stop_flag set, and the worker counts itself off.  The test
\* of worker_thread's loop before it is the same test.
Leave(w) ==
    /\ wpc[w] \in {"consume", "woken"} /\ ~Locked /\ stop # 0
    /\ wpc' = [wpc EXCEPT ![w] = "gone"] /\ threads' = threads - 1
    /\ UNCHANGED <<stop, main, ring, master, wsock, stream, open, late>>

\* consume_socket: the test of its wait, or the socket at the tail.  What stays in
\* a slot that was taken is never read, and is 0 here.
Consume(w) ==
    /\ wpc[w] \in {"consume", "woken"} /\ ~Locked /\ stop = 0
    /\ \/ /\ head = tail /\ wpc' = [wpc EXCEPT ![w] = "idle"]
          /\ UNCHANGED <<ring, wsock, mpc>>
       \/ /\ head # tail
          /\ wsock' = [wsock EXCEPT ![w] = queue[tail % QSize]]
          /\ tail' = Wrap(tail + 1) /\ head' = head - (tail + 1 - Wrap(tail + 1))
          /\ line' = Tail(line) /\ queue' = [queue EXCEPT ![tail % QSize] = 0]
          /\ mpc' = IF mpc = "full" THEN "produce" ELSE mpc
          /\ wpc' = [wpc EXCEPT ![w] = "serve"]
    /\ UNCHANGED <<stop, threads, main, msock, stream, open, late>>

Sleep(w) ==
    /\ wpc[w] = "idle" /\ wpc' = [wpc EXCEPT ![w] = "waiting"]
    /\ UNCHANGED <<stop, threads, main, ring, master, wsock, stream, open, late>>

\* Mutant: mg_move_conn leaves the socket with the worker too
MoveKeeps(w) == wsock

\* mg_move_conn: conn->client.sock = INVALID_SOCKET
MoveConn(w) == [wsock EXCEPT ![w] = 0]

\* process_video, if there are not more than max_connect: an entry, unless its key
\* is there; the moved connection, and its thread
Video(w) ==
    /\ wpc[w] = "serve" /\ Cardinality(chan) <= MaxConnect
    /\ wpc' = [wpc EXCEPT ![w] = "close"] /\ wsock' = MoveConn(w)
    /\ \E t \in Streams :
         /\ spc[t] = "none" /\ \A u \in Streams : u < t => spc[u] # "none"
         /\ chan' = chan \cup {wsock[w]}
         /\ spc' = [spc EXCEPT ![t] = "find"] /\ ssock' = [ssock EXCEPT ![t] = wsock[w]]
    /\ UNCHANGED <<stop, threads, main, ring, master, open, late>>

\* close_connection of what the worker still has
CloseConnection(w) ==
    /\ open' = open \ {wsock[w]}
    /\ wpc' = [wpc EXCEPT ![w] = "consume"] /\ wsock' = [wsock EXCEPT ![w] = 0]
    /\ UNCHANGED <<stop, threads, main, ring, master, stream, late>>

\* The client has closed, or sends what is no request or too long a one
Unread(w) == wpc[w] = "serve" /\ CloseConnection(w)

\* Another request than for a stream is answered (keep-alive is off)
HandleRequest(w) == wpc[w] = "serve" /\ CloseConnection(w)

\* process_new_connection returns after the connection was moved
Close(w) == wpc[w] = "close" /\ CloseConnection(w)

Worker(w) ==
    Leave(w) \/ Consume(w) \/ Sleep(w) \/ Video(w)
    \/ Unread(w) \/ HandleRequest(w) \/ Close(w)

-----------------------------------------------------------------------------
\* send_stream_thread up to mg_close_conn, which comes before the entry is erased.
\* No entry of its socket is the end, with the socket open; a known device gets a
\* header; for id 0 mg_send_http_error follows the context of the moved connection,
\* which mg_move_conn leaves NULL.
Find(t) ==
    /\ spc[t] = "find"
    /\ \/ /\ ssock[t] \notin chan /\ UNCHANGED <<crashed, open>>
          /\ spc' = [spc EXCEPT ![t] = "none"] /\ ssock' = [ssock EXCEPT ![t] = 0]
       \/ /\ ssock[t] \in chan /\ UNCHANGED <<crashed, ssock>>
          /\ spc' = [spc EXCEPT ![t] = "erase"] /\ open' = open \ {ssock[t]}
       \/ ssock[t] \in chan /\ crashed' = TRUE /\ UNCHANGED <<spc, ssock, open>>
    /\ UNCHANGED <<stop, threads, main, ring, master, worker, chan, late>>

\* Its iterator is no longer valid if a thread of the same socket has erased it
Erase(t) ==
    /\ spc[t] = "erase"
    /\ spc' = [spc EXCEPT ![t] = "none"] /\ ssock' = [ssock EXCEPT ![t] = 0]
    /\ chan' = chan \ {ssock[t]}
    /\ crashed' = (ssock[t] \notin chan)
    /\ UNCHANGED <<stop, threads, main, ring, master, worker, open, late>>

Stream(t) == Find(t) \/ Erase(t)

Master == Accept \/ Produce \/ Broadcast \/ Join

ServerNext ==
    /\ ~crashed
    /\ \/ /\ \/ Stop \/ CountWorker \/ Master
             \/ \E w \in WorkerIds : StartWorker(w) \/ Worker(w)
          /\ UNCHANGED crashed
       \/ \E t \in Streams : Stream(t)

\* The threads run, and mg_start goes on; but a worker that serves waits for its
\* client (pull, read_request), which need not ever say anything.
Go(A) == ~crashed /\ A /\ UNCHANGED crashed
Fairness ==
    /\ WF_serverVars(Go(Master)) /\ WF_serverVars(Go(CountWorker))
    /\ \A w \in WorkerIds :
         WF_serverVars(Go(StartWorker(w))) /\ WF_serverVars(Go(wpc[w] # "serve" /\ Worker(w)))
    /\ \A t \in Streams : WF_serverVars(~crashed /\ Stream(t))

ServerSpec == ServerInit /\ [][ServerNext]_serverVars /\ Fairness

-----------------------------------------------------------------------------
\* The ring hands out every accepted socket once and in order, whatever the
\* indices do when they are wrapped (consume_socket).
QueueInOrder ==
    /\ Len(line) = head - tail
    /\ \A i \in 1..Len(line) : line[i] = queue[(tail + i - 1) % QSize]

\* Who will read, write or close a socket: a place of the ring, or a thread
Owners(s) ==
    {<<"ring", i>> : i \in {j \in 1..Len(line) : line[j] = s}}
      \cup (IF msock = s THEN {<<"master", 0>>} ELSE {})
      \cup {<<"worker", w>> : w \in {v \in WorkerIds : wsock[v] = s}}
      \cup {<<"stream", t>> : t \in {u \in Streams : ssock[u] = s /\ spc[u] # "erase"}}

\* No connection is closed or written by a thread that does not own it, although
\* workers, stream threads and the ring pass sockets around and numbers return:
\* an open number has at most one owner and a closed one has none.
OneOwner ==
    \A s \in Socks : /\ Cardinality(Owners(s)) <= 1
                     /\ s \notin open => Owners(s) = {}

\* When mg_stop frees the context no worker and no master is left to use it, and
\* every worker that was counted has been counted off.
ContextInUse ==
    stop = 2 => mpc = "done" /\ \A w \in WorkerIds : wpc[w] = "gone"

\* As long as accepted connections are in the ring, the server runs and not every
\* worker is at a client, the workers go on taking them: a signal that comes while
\* no worker waits is not lost, and no worker sleeps beside a ring that is not
\* empty, whatever the clients of the others do.  The ring being in order
\* (QueueInOrder), each connection has its turn.
IsServed ==
    \/ []<>(line = <<>> \/ stop # 0 \/ crashed \/ \A w \in WorkerIds : wpc[w] = "serve")
    \/ []<><<tail' # tail>>_tail

\* mg_stop comes to its end but for three cases: a worker waits for ever for a
\* client that says nothing (pull does not look at stop_flag), the master waits
\* for room in the ring when the workers have left (nor does produce_socket), or
\* the broadcast fell between a worker's test of stop_flag and its wait.
StopEnds ==
    (stop = 1) ~> \/ stop = 2 \/ crashed
                  \/ \E w \in WorkerIds : [](wpc[w] = "serve")
                  \/ mpc = "full" /\ head - tail >= QSize
                  \/ late /\ Waiting # {}
=============================================================================
