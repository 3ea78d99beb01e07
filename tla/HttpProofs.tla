------------------------------ MODULE HttpProofs ------------------------------
(***************************************************************************)
(* Proofs about HttpServer, for every number of sockets, workers and       *)
(* stream threads, every length of the ring and every limit of streams,    *)
(* and about Commands, for any SIP ids and workers, any lifetime of a      *)
(* session and any bounds of the clock and of the rows.                    *)
(*                                                                         *)
(* HttpServer.  Its invariants need each other: a worker takes the socket  *)
(* that was put in first only because the ring is in order, a closed       *)
(* number has no owner only because every hand-over moves the one owner    *)
(* there is, and the context outlives its workers only because num_threads *)
(* counts them (Counted), whenever mg_start gets to count.                 *)
(*                                                                         *)
(* Commands.  A SIP id and a device id stay tied to each other over a      *)
(* crash and over the steps of several workers because a number is given   *)
(* once (Numbered), a SIP id is in one row at a time (RowsDiffer), and a   *)
(* command that is between the row and the object of a camera owns it      *)
(* (MakersOwn).                                                            *)
(***************************************************************************)
EXTENDS HttpServer, Commands, SequenceTheorems, FiniteSetTheorems, TLAPS

-------------------------------------------------------------------------------
(* HttpServer: the inductive invariant.                                    *)

\* The workers that exist, and the one of them that is not counted yet.
Existing  == {w \in WorkerIds : wpc[w] \notin {"unborn", "gone"}}
Uncounted == IF main = 0 THEN 0 ELSE 1

\* num_threads is the number of workers, but for the one mg_start has just
\* started.
Counted == Cardinality(Existing) = threads + Uncounted

\* stop_flag is set when all workers are started and counted, and 2 when the
\* master has waited for all of them.
StopCoherent ==
    /\ stop # 0 => main = 0 /\ \A w \in WorkerIds : wpc[w] # "unborn"
    /\ stop = 0 => \A w \in WorkerIds : wpc[w] # "gone"
    /\ mpc \in {"join", "done"} => stop # 0
    /\ stop = 2 => mpc = "done" /\ \A w \in WorkerIds : wpc[w] = "gone"

\* The master has a socket to put into the ring, and a worker one to serve.
HandsFull ==
    /\ mpc \in {"produce", "full"} => msock # 0
    /\ \A w \in WorkerIds : wpc[w] = "serve" => wsock[w] # 0

\* The kinds of owners of a socket.
InRing(s, i)  == i \in 1..Len(line) /\ line[i] = s
WorkerHas(s, w) == wsock[w] = s
StreamHas(s, t) == ssock[t] = s /\ spc[t] # "erase"

\* There is one, and it is an open socket.
Owned(s) ==
    /\ \A i, j \in 1..Len(line) : InRing(s, i) /\ InRing(s, j) => i = j
    /\ \A v, w \in WorkerIds : WorkerHas(s, v) /\ WorkerHas(s, w) => v = w
    /\ \A t, u \in Streams : StreamHas(s, t) /\ StreamHas(s, u) => t = u
    /\ \A i \in 1..Len(line) : InRing(s, i) =>
          /\ s \in open /\ msock # s
          /\ \A w \in WorkerIds : ~WorkerHas(s, w)
          /\ \A t \in Streams : ~StreamHas(s, t)
    /\ msock = s =>
          /\ s \in open
          /\ \A w \in WorkerIds : ~WorkerHas(s, w)
          /\ \A t \in Streams : ~StreamHas(s, t)
    /\ \A w \in WorkerIds : WorkerHas(s, w) =>
          s \in open /\ \A t \in Streams : ~StreamHas(s, t)
    /\ \A t \in Streams : StreamHas(s, t) => s \in open

OwnedOnce == \A s \in Socks : Owned(s)

ServerInv == ServerTypeOK /\ QueueInOrder /\ OwnedOnce /\ HandsFull /\ Counted /\ StopCoherent

\* The steps of mg_start, mg_stop, the master and the workers.
ServerStep ==
    \/ Stop \/ CountWorker \/ Master
    \/ \E w \in WorkerIds : StartWorker(w) \/ Worker(w)
-----------------------------------------------------------------------------
(* The ring.                                                               *)

\* Which slot an index of the ring means, before and after it is wrapped.
LEMMA Slot ==
    ASSUME NEW n \in 0..2 * QSize - 1
    PROVE  n % QSize = IF n < QSize THEN n ELSE n - QSize
  BY HttpServerAssumption

\* Two indices less than the length of the ring apart mean different slots, and
\* two that are the length apart the same.
LEMMA SlotsDiffer ==
    ASSUME NEW n \in 0..2 * QSize - 1, NEW m \in 0..2 * QSize - 1, n < m, m < n + QSize
    PROVE  n % QSize # m % QSize
  <1>1. QSize \in Nat \ {0}
    BY HttpServerAssumption
  <1>2. n % QSize = IF n < QSize THEN n ELSE n - QSize
    BY Slot
  <1>3. m % QSize = IF m < QSize THEN m ELSE m - QSize
    BY Slot
  <1> DEFINE a == n % QSize
             b == m % QSize
  <1>4. a = (IF n < QSize THEN n ELSE n - QSize) /\ b = (IF m < QSize THEN m ELSE m - QSize)
    BY <1>2, <1>3
  <1> HIDE DEF a, b
  <1>5. a # b
    BY <1>1, <1>4
  <1>6. QED
    BY <1>5 DEF a, b

\* Two positions of the queue that are its size apart have the same slot.
LEMMA SlotsAgree ==
    ASSUME NEW n \in 0..2 * QSize - 1, NEW m \in 0..2 * QSize - 1, m = n - QSize
    PROVE  m % QSize = n % QSize
  <1>1. QSize \in Nat \ {0}
    BY HttpServerAssumption
  <1>2. n % QSize = IF n < QSize THEN n ELSE n - QSize
    BY Slot
  <1>3. m % QSize = IF m < QSize THEN m ELSE m - QSize
    BY Slot
  <1>4. m < QSize /\ ~(n < QSize)
    BY <1>1
  <1>5. QED
    BY <1>2, <1>3, <1>4

\* Producing a socket keeps the ring in order: the slot it gets is that of none
\* of the sockets in the ring, as long as the ring is not full.
LEMMA RingPut ==
    ASSUME ServerTypeOK, QueueInOrder, msock \in Socks, head - tail < QSize,
           queue' = [queue EXCEPT ![head % QSize] = msock],
           head' = head + 1, tail' = tail, line' = Append(line, msock)
    PROVE  /\ QueueInOrder' /\ line' \in Seq(Socks)
           /\ queue' \in [0..QSize - 1 -> Socks \cup {0}]
           /\ tail' \in 0..QSize /\ head' \in tail'..tail' + QSize
           /\ Len(line') = Len(line) + 1
           /\ \A i \in 1..Len(line) : line'[i] = line[i]
           /\ line'[Len(line) + 1] = msock
  <1> USE HttpServerAssumption
  <1>0. /\ line \in Seq(Socks) /\ Len(line) = head - tail /\ Len(line) \in Nat
        /\ tail \in 0..QSize /\ head \in tail..tail + QSize /\ QSize \in Nat \ {0}
        /\ queue \in [0..QSize - 1 -> Socks \cup {0}]
    BY LenProperties DEF ServerTypeOK, QueueInOrder
  <1>1. /\ line' \in Seq(Socks) /\ Len(line') = Len(line) + 1
        /\ \A i \in 1..Len(line) : line'[i] = line[i]
        /\ line'[Len(line) + 1] = msock
    BY <1>0, AppendProperties
  <1>2. head \in 0..2 * QSize - 1 /\ head % QSize \in 0..QSize - 1
    BY <1>0, Slot
  <1>3. ASSUME NEW i \in 1..Len(line')
        PROVE  line'[i] = queue'[(tail' + i - 1) % QSize]
    <2>1. CASE i = Len(line) + 1
      <3>1. tail' + i - 1 = head
        BY <1>0, <2>1
      <3>2. queue'[head % QSize] = msock
        BY <1>0, <1>2
      <3>3. QED
        BY <1>1, <2>1, <3>1, <3>2
    <2>2. CASE i \in 1..Len(line)
      <3> DEFINE n == tail + i - 1
      <3>1. n \in 0..2 * QSize - 1 /\ n < head /\ head - n < QSize + 1 /\ n \in tail..head
        BY <1>0, <2>2
      <3>2. n % QSize \in 0..QSize - 1 /\ n % QSize # head % QSize
        <4>1. n < head /\ head < n + QSize
          BY <1>0, <2>2
        <4>2. n % QSize \in 0..QSize - 1
          BY <1>0, <3>1
        <4> HIDE DEF n
        <4>3. QED
          BY <1>2, <3>1, <4>1, <4>2, SlotsDiffer
      <3>3. queue'[n % QSize] = queue[n % QSize]
        BY <1>0, <3>2
      <3>4. QED
        BY <1>1, <2>2, <3>3 DEF QueueInOrder
    <2>3. QED
      BY <1>0, <1>1, <2>1, <2>2
  <1>4. QueueInOrder'
    BY <1>0, <1>1, <1>3 DEF QueueInOrder
  <1>5. queue' \in [0..QSize - 1 -> Socks \cup {0}]
    BY <1>0, <1>2
  <1>6. tail' \in 0..QSize /\ head' \in tail'..tail' + QSize
    BY <1>0
  <1>7. QED
    BY <1>1, <1>4, <1>5, <1>6

\* So does consuming one, which is the first that was put in; the indices may
\* be wrapped because they are only used modulo the length.
LEMMA RingTake ==
    ASSUME ServerTypeOK, QueueInOrder, head # tail,
           tail' = Wrap(tail + 1), head' = head - (tail + 1 - Wrap(tail + 1)),
           line' = Tail(line), queue' = [queue EXCEPT ![tail % QSize] = 0]
    PROVE  /\ QueueInOrder' /\ line' \in Seq(Socks)
           /\ queue' \in [0..QSize - 1 -> Socks \cup {0}]
           /\ tail' \in 0..QSize /\ head' \in tail'..tail' + QSize
           /\ Len(line) \in Nat \ {0} /\ Len(line') = Len(line) - 1
           /\ \A i \in 1..Len(line') : line'[i] = line[i + 1]
           /\ line[1] \in Socks /\ queue[tail % QSize] = line[1]
  <1> USE HttpServerAssumption
  <1>0. /\ line \in Seq(Socks) /\ Len(line) = head - tail /\ Len(line) \in Nat \ {0}
        /\ tail \in 0..QSize /\ head \in tail..tail + QSize /\ QSize \in Nat \ {0}
        /\ queue \in [0..QSize - 1 -> Socks \cup {0}]
    BY LenProperties DEF ServerTypeOK, QueueInOrder
  <1>1. /\ line' \in Seq(Socks) /\ Len(line') = Len(line) - 1
        /\ \A i \in 1..Len(line') : line'[i] = line[i + 1]
        /\ line[1] \in Socks
    <2>1. line # << >>
      BY <1>0
    <2>2. QED
      BY <1>0, <2>1, HeadTailProperties, ElementOfSeq
  <1>2. tail % QSize \in 0..QSize - 1
    BY <1>0
  <1>3. line[1] = queue[tail % QSize]
    BY <1>0 DEF QueueInOrder
  <1>4. /\ tail' \in 0..QSize /\ head' \in tail'..tail' + QSize
        /\ head' - tail' = head - tail - 1
        /\ tail' = tail + 1 \/ tail' = tail + 1 - QSize
    BY <1>0 DEF Wrap
  <1>5. ASSUME NEW i \in 1..Len(line')
        PROVE  line'[i] = queue'[(tail' + i - 1) % QSize]
    <2> DEFINE n == tail + i
               m == tail' + i - 1
    <2>1. i \in 1..QSize - 1 /\ i + 1 \in 1..Len(line)
      BY <1>0, <1>1
    <2>2. n \in 0..2 * QSize - 1 /\ tail \in 0..2 * QSize - 1
      BY <1>0, <2>1
    <2>3. tail' \in 0..QSize /\ tail' \in Int /\ tail \in Int /\ i \in Int /\ QSize \in Int
      BY <1>0, <1>4, <2>1
    <2>10. m = n \/ m = n - QSize
      <3>1. CASE tail' = tail + 1
        <4>1. (tail + 1) + i - 1 = tail + i
          BY <2>3
        <4>2. QED
          BY <3>1, <4>1
      <3>2. CASE tail' = tail + 1 - QSize
        BY <2>3, <3>2, SMTT(20)
      <3>3. QED
        BY <1>4, <3>1, <3>2
    <2>11. m \in 0..2 * QSize - 1
      <3>1. i \in Int /\ 1 <= i /\ i <= QSize - 1 /\ 0 <= tail' /\ tail' <= QSize
        BY <2>1, <2>3
      <3>2. QED
        BY <2>3, <3>1
    <2>4. m % QSize = n % QSize
      <3> HIDE DEF n, m
      <3>1. QED
        BY <2>2, <2>10, <2>11, SlotsAgree
    <2>5. n % QSize # tail % QSize /\ n % QSize \in 0..QSize - 1
      <3>1. tail < n /\ n < tail + QSize
        BY <1>0, <2>1
      <3>2. n % QSize \in 0..QSize - 1
        BY <1>0, <2>2
      <3> HIDE DEF n
      <3>3. QED
        BY <2>2, <3>1, <3>2, SlotsDiffer
    <2>6. queue'[n % QSize] = queue[n % QSize]
      BY <1>0, <2>5
    <2>7. line[i + 1] = queue[(tail + (i + 1) - 1) % QSize]
      BY <2>1 DEF QueueInOrder
    <2>8. tail + (i + 1) - 1 = n
      BY <1>0, <2>1
    <2>9. QED
      BY <1>1, <2>4, <2>6, <2>7, <2>8
  <1>6. QueueInOrder'
    BY <1>0, <1>1, <1>4, <1>5 DEF QueueInOrder
  <1>7. queue' \in [0..QSize - 1 -> Socks \cup {0}]
    BY <1>0, <1>2
  <1>8. QED
    BY <1>0, <1>1, <1>3, <1>4, <1>6, <1>7
-----------------------------------------------------------------------------
(* Counting the workers.                                                   *)

\* The workers that exist are finitely many.
LEMMA ExistingFinite ==
    /\ IsFiniteSet(Existing) /\ Cardinality(Existing) \in Nat
    /\ Cardinality(WorkerIds) \in Nat /\ Cardinality(Existing) <= Cardinality(WorkerIds)
  BY HttpServerAssumption, FS_Subset, FS_CardinalityType DEF Existing

\* What a step does to the control points of the workers, which pass unborn and
\* gone once, and to num_threads.
LEMMA WorkersOf ==
    ASSUME ServerTypeOK, ServerStep \/ \E t \in Streams : Stream(t)
    PROVE  \/ \E w \in WorkerIds :
                 /\ main = 0 /\ wpc[w] = "unborn" /\ wpc' = [wpc EXCEPT ![w] = "consume"]
                 /\ main' = w /\ threads' = threads /\ stop' = stop /\ mpc' = mpc
           \/ \E w \in WorkerIds :
                 /\ stop # 0 /\ wpc[w] \in {"consume", "woken"}
                 /\ wpc' = [wpc EXCEPT ![w] = "gone"]
                 /\ main' = main /\ threads' = threads - 1 /\ stop' = stop /\ mpc' = mpc
           \/ /\ \/ threads' = threads /\ main' = main
                 \/ main # 0 /\ main' = 0 /\ threads' = threads + 1
              /\ \A w \in WorkerIds : w \in Existing' <=> w \in Existing
  <1> USE DEF ring, master, worker, stream
  <1>1. CASE Stop \/ CountWorker \/ Accept \/ Broadcast \/ Join
    BY <1>1 DEF Stop, CountWorker, Accept, Broadcast, Join, Waiting, Existing, ServerTypeOK
  <1>2. CASE Produce
    BY <1>2 DEF Produce, SignalFull, Waiting, Existing, ServerTypeOK
  <1>3. ASSUME NEW w \in WorkerIds, StartWorker(w)
        PROVE  /\ main = 0 /\ wpc[w] = "unborn" /\ wpc' = [wpc EXCEPT ![w] = "consume"]
               /\ main' = w /\ threads' = threads /\ stop' = stop /\ mpc' = mpc
    BY <1>3 DEF StartWorker
  <1>4. ASSUME NEW w \in WorkerIds, Leave(w)
        PROVE  /\ stop # 0 /\ wpc[w] \in {"consume", "woken"}
               /\ wpc' = [wpc EXCEPT ![w] = "gone"]
               /\ main' = main /\ threads' = threads - 1 /\ stop' = stop /\ mpc' = mpc
    BY <1>4 DEF Leave
  <1> DEFINE Same == /\ threads' = threads /\ main' = main
                     /\ \A w \in WorkerIds : w \in Existing' <=> w \in Existing
  <1>5. ASSUME NEW w \in WorkerIds, Consume(w) PROVE Same
    BY <1>5 DEF Consume, Existing, ServerTypeOK
  <1>6. ASSUME NEW w \in WorkerIds, Sleep(w) \/ Video(w) PROVE Same
    BY <1>6 DEF Sleep, Video, Existing, ServerTypeOK
  <1>7. ASSUME NEW w \in WorkerIds, Unread(w) \/ HandleRequest(w) \/ Close(w) PROVE Same
    BY <1>7 DEF Unread, HandleRequest, Close, CloseConnection, Existing, ServerTypeOK
  <1>8. ASSUME NEW t \in Streams, Stream(t) PROVE Same
    BY <1>8 DEF Stream, Find, Erase, Existing, ServerTypeOK
  <1>9. QED
    BY <1>1, <1>2, <1>3, <1>4, <1>5, <1>6, <1>7, <1>8 DEF ServerStep, Master, Worker

\* num_threads stays the number of the workers, and within its type.
LEMMA StepCount ==
    ASSUME ServerTypeOK, Counted, StopCoherent, ServerStep \/ \E t \in Streams : Stream(t)
    PROVE  Counted' /\ threads' \in 0..Cardinality(WorkerIds)
  <1>1. threads \in Nat /\ Cardinality(Existing) = threads + Uncounted
    BY ExistingFinite DEF ServerTypeOK, Counted
  <1>2. ASSUME NEW w \in WorkerIds,
               main = 0, wpc[w] = "unborn", wpc' = [wpc EXCEPT ![w] = "consume"],
               main' = w, threads' = threads
        PROVE  Cardinality(Existing') = threads' + Uncounted' /\ threads' \in Nat
    <2>1. Existing' = Existing \cup {w} /\ w \notin Existing
      BY <1>2 DEF Existing, ServerTypeOK
    <2>2. Cardinality(Existing') = Cardinality(Existing) + 1
      BY <2>1, ExistingFinite, FS_AddElement
    <2>3. Uncounted = 0 /\ Uncounted' = 1
      BY <1>2, HttpServerAssumption DEF Uncounted
    <2>4. QED
      BY <1>1, <1>2, <2>2, <2>3
  <1>3. ASSUME NEW w \in WorkerIds,
               stop # 0, wpc[w] \in {"consume", "woken"}, wpc' = [wpc EXCEPT ![w] = "gone"],
               main' = main, threads' = threads - 1
        PROVE  Cardinality(Existing') = threads' + Uncounted' /\ threads' \in Nat
    <2>1. Existing' = Existing \ {w} /\ w \in Existing
      BY <1>3 DEF Existing, ServerTypeOK
    <2>2. Cardinality(Existing') = Cardinality(Existing) - 1
      BY <2>1, ExistingFinite, FS_RemoveElement
    <2>3. Existing # {} /\ Cardinality(Existing) # 0
      BY <2>1, ExistingFinite, FS_EmptySet
    <2>4. Uncounted = 0 /\ Uncounted' = 0
      BY <1>3 DEF StopCoherent, Uncounted
    <2>5. QED
      BY <1>1, <1>3, <2>2, <2>3, <2>4
  <1>4. ASSUME \/ threads' = threads /\ main' = main
               \/ main # 0 /\ main' = 0 /\ threads' = threads + 1,
               \A w \in WorkerIds : w \in Existing' <=> w \in Existing
        PROVE  Cardinality(Existing') = threads' + Uncounted' /\ threads' \in Nat
    <2>1. Existing' = Existing
      <3>1. Existing \subseteq WorkerIds /\ Existing' \subseteq WorkerIds
        BY DEF Existing
      <3>2. QED
        BY <1>4, <3>1
    <2>2. threads' + Uncounted' = threads + Uncounted /\ threads' \in Nat
      BY <1>1, <1>4 DEF Uncounted
    <2>3. QED
      BY <1>1, <2>1, <2>2
  <1>5. Cardinality(Existing') = threads' + Uncounted' /\ threads' \in Nat
    BY <1>2, <1>3, <1>4, WorkersOf
  <1>6. Cardinality(Existing') <= Cardinality(WorkerIds) /\ Cardinality(WorkerIds) \in Nat
    <2>1. Existing' \subseteq WorkerIds
      BY DEF Existing
    <2>2. QED
      BY <2>1, HttpServerAssumption, FS_Subset, FS_CardinalityType
  <1>7. threads' <= Cardinality(WorkerIds)
    BY <1>5, <1>6 DEF Uncounted
  <1>8. QED
    BY <1>5, <1>6, <1>7 DEF Counted

\* stop_flag stays in step with the threads it stops.
LEMMA StepStop ==
    ASSUME ServerTypeOK, Counted, StopCoherent, ServerStep \/ \E t \in Streams : Stream(t)
    PROVE  StopCoherent'
  <1> USE DEF ring, master, worker, stream
  <1>1. CASE Join
    <2>1. main = 0 /\ Cardinality(Existing) = 0
      BY <1>1 DEF Join, StopCoherent, Counted, Uncounted
    <2>2. Existing = {}
      BY <2>1, ExistingFinite, FS_EmptySet
    <2>3. \A w \in WorkerIds : wpc[w] = "gone"
      BY <1>1, <2>2 DEF Join, StopCoherent, Existing
    <2>4. QED
      BY <1>1, <2>1, <2>3 DEF Join, StopCoherent
  <1>2. CASE Stop \/ CountWorker \/ Accept
    BY <1>2 DEF Stop, CountWorker, Accept, StopCoherent, ServerTypeOK
  <1>3. CASE Broadcast
    BY <1>3 DEF Broadcast, Waiting, StopCoherent, ServerTypeOK
  <1>4. CASE Produce
    BY <1>4 DEF Produce, SignalFull, Waiting, StopCoherent, ServerTypeOK
  <1>5. ASSUME NEW w \in WorkerIds, StartWorker(w) PROVE StopCoherent'
    BY <1>5 DEF StartWorker, StopCoherent, ServerTypeOK
  <1>6. ASSUME NEW w \in WorkerIds, Leave(w) PROVE StopCoherent'
    BY <1>6 DEF Leave, StopCoherent, ServerTypeOK
  <1>7. ASSUME NEW w \in WorkerIds, Consume(w) PROVE StopCoherent'
    BY <1>7 DEF Consume, StopCoherent, ServerTypeOK
  <1>8. ASSUME NEW w \in WorkerIds, Sleep(w) \/ Video(w) PROVE StopCoherent'
    BY <1>8 DEF Sleep, Video, StopCoherent, ServerTypeOK
  <1>9. ASSUME NEW w \in WorkerIds, Unread(w) \/ HandleRequest(w) \/ Close(w)
        PROVE  StopCoherent'
    BY <1>9 DEF Unread, HandleRequest, Close, CloseConnection, StopCoherent, ServerTypeOK
  <1>10. ASSUME NEW t \in Streams, Stream(t) PROVE StopCoherent'
    BY <1>10 DEF Stream, Find, Erase, StopCoherent
  <1>11. QED
    BY <1>1, <1>2, <1>3, <1>4, <1>5, <1>6, <1>7, <1>8, <1>9, <1>10
    DEF ServerStep, Master, Worker
-----------------------------------------------------------------------------
(* Types and the ring.                                                     *)

\* The first state is as the invariant says.
LEMMA InitServerInv == ServerInit => ServerInv
  <1> SUFFICES ASSUME ServerInit PROVE ServerInv
    OBVIOUS
  <1> USE HttpServerAssumption
  <1>1. Existing = {} /\ Counted
    <2>1. Existing = {}
      BY DEF ServerInit, Existing
    <2>2. Cardinality(Existing) = 0
      BY <2>1, FS_EmptySet
    <2>3. QED
      BY <2>1, <2>2 DEF ServerInit, Counted, Uncounted
  <1>2. ServerTypeOK
    <2>1. threads \in 0..Cardinality(WorkerIds) /\ line \in Seq(Socks)
      BY ExistingFinite, EmptySeq DEF ServerInit
    <2>2. QED
      BY <2>1 DEF ServerInit, ServerTypeOK
  <1>3. Len(line) = 0
    BY DEF ServerInit
  <1>4. QueueInOrder /\ OwnedOnce
    BY <1>3 DEF ServerInit, QueueInOrder, Owned, OwnedOnce, InRing, WorkerHas, StreamHas
  <1>5. HandsFull /\ StopCoherent
    BY DEF ServerInit, HandsFull, StopCoherent
  <1>6. QED
    BY <1>1, <1>2, <1>4, <1>5 DEF ServerInv

\* Every step keeps the types and the order of the ring.
LEMMA StepServerType ==
    ASSUME ServerTypeOK, QueueInOrder, HandsFull, (ServerStep /\ UNCHANGED crashed) \/ \E t \in Streams : Stream(t),
           threads' \in 0..Cardinality(WorkerIds)
    PROVE  ServerTypeOK' /\ QueueInOrder'
  <1> USE HttpServerAssumption DEF ring, master, worker, stream
  <1>1. CASE (Stop \/ CountWorker) /\ UNCHANGED crashed
    <2>1. /\ main' \in {main, 0} /\ stop' \in {stop, 1}
          /\ UNCHANGED <<ring, master, worker, stream, open, late, crashed>>
      BY <1>1 DEF Stop, CountWorker
    <2>2. QueueInOrder'
      BY <2>1 DEF QueueInOrder
    <2>3. ServerTypeOK'
      BY <2>1 DEF ServerTypeOK
    <2>4. QED
      BY <2>2, <2>3
  <1>2. CASE Accept /\ UNCHANGED crashed
    BY <1>2 DEF Accept, ServerTypeOK, QueueInOrder
  <1>3. CASE (Broadcast \/ Join) /\ UNCHANGED crashed
    <2>1. /\ mpc' \in {"join", "done"} /\ stop' \in {stop, 2} /\ late' \in BOOLEAN
          /\ wpc' \in [WorkerIds -> {"unborn", "consume", "idle", "waiting", "woken",
                                  "serve", "close", "gone"}]
          /\ UNCHANGED <<main, ring, msock, wsock, stream, open, crashed>>
      BY <1>3 DEF Broadcast, Join, Locked, Waiting, ServerTypeOK
    <2>2. QueueInOrder'
      BY <2>1 DEF QueueInOrder
    <2>3. ServerTypeOK'
      BY <2>1 DEF ServerTypeOK
    <2>4. QED
      BY <2>2, <2>3
  <1>4. CASE Produce /\ UNCHANGED crashed
    <2>1. CASE head - tail >= QSize
      BY <1>4, <2>1 DEF Produce, ServerTypeOK, QueueInOrder
    <2>2. CASE ~(head - tail >= QSize)
      <3>1. /\ queue' = [queue EXCEPT ![head % QSize] = msock]
            /\ head' = head + 1 /\ tail' = tail /\ line' = Append(line, msock)
            /\ mpc' = "top" /\ msock' = 0 /\ SignalFull
            /\ UNCHANGED <<stop, main, wsock, stream, open, late, crashed>>
        BY <1>4, <2>2 DEF Produce
      <3>2. msock \in Socks /\ head - tail < QSize
        BY <1>4, <2>2 DEF Produce, HandsFull, ServerTypeOK
      <3>3. /\ QueueInOrder' /\ line' \in Seq(Socks)
            /\ queue' \in [0..QSize - 1 -> Socks \cup {0}]
            /\ tail' \in 0..QSize /\ head' \in tail'..tail' + QSize
        BY <3>1, <3>2, RingPut
      <3>4. wpc' \in [WorkerIds -> {"unborn", "consume", "idle", "waiting", "woken",
                                 "serve", "close", "gone"}]
        BY <3>1 DEF SignalFull, Waiting, ServerTypeOK
      <3>5. QED
        BY <3>1, <3>3, <3>4 DEF ServerTypeOK
    <2>3. QED
      BY <2>1, <2>2
  <1>5. ASSUME NEW w \in WorkerIds, StartWorker(w) \/ Leave(w) \/ Sleep(w), UNCHANGED crashed
        PROVE  ServerTypeOK' /\ QueueInOrder'
    BY <1>5, ZenonT(40) DEF StartWorker, Leave, Sleep, ServerTypeOK, QueueInOrder
  <1>6. ASSUME NEW w \in WorkerIds, Consume(w), UNCHANGED crashed
        PROVE  ServerTypeOK' /\ QueueInOrder'
    <2>1. CASE head = tail
      BY <1>6, <2>1 DEF Consume, ServerTypeOK, QueueInOrder
    <2>2. CASE head # tail
      <3>1. /\ wsock' = [wsock EXCEPT ![w] = queue[tail % QSize]]
            /\ tail' = Wrap(tail + 1) /\ head' = head - (tail + 1 - Wrap(tail + 1))
            /\ line' = Tail(line) /\ queue' = [queue EXCEPT ![tail % QSize] = 0]
            /\ mpc' = IF mpc = "full" THEN "produce" ELSE mpc
            /\ wpc' = [wpc EXCEPT ![w] = "serve"]
            /\ UNCHANGED <<stop, main, msock, stream, open, late, crashed>>
        BY <1>6, <2>2 DEF Consume
      <3>2. /\ QueueInOrder' /\ line' \in Seq(Socks)
            /\ queue' \in [0..QSize - 1 -> Socks \cup {0}]
            /\ tail' \in 0..QSize /\ head' \in tail'..tail' + QSize
            /\ queue[tail % QSize] \in Socks
        BY <2>2, <3>1, RingTake
      <3>3. QED
        BY <3>1, <3>2 DEF ServerTypeOK
    <2>3. QED
      BY <2>1, <2>2
  <1>7. ASSUME NEW w \in WorkerIds, Video(w), UNCHANGED crashed
        PROVE  ServerTypeOK' /\ QueueInOrder'
    <2>1. wsock[w] \in Socks
      BY <1>7 DEF Video, HandsFull, ServerTypeOK
    <2>2. QED
      BY <1>7, <2>1, ZenonT(40) DEF Video, MoveConn, ServerTypeOK, QueueInOrder
  <1>8. ASSUME NEW w \in WorkerIds, Unread(w) \/ HandleRequest(w) \/ Close(w), UNCHANGED crashed
        PROVE  ServerTypeOK' /\ QueueInOrder'
    BY <1>8, ZenonT(40) DEF Unread, HandleRequest, Close, CloseConnection, ServerTypeOK, QueueInOrder
  <1>9. ASSUME NEW t \in Streams, Find(t) PROVE ServerTypeOK' /\ QueueInOrder'
    BY <1>9, ZenonT(40) DEF Find, ServerTypeOK, QueueInOrder
  <1>10. ASSUME NEW t \in Streams, Erase(t) PROVE ServerTypeOK' /\ QueueInOrder'
    BY <1>10 DEF Erase, ServerTypeOK, QueueInOrder
  <1>11. QED
    BY <1>1, <1>2, <1>3, <1>4, <1>5, <1>6, <1>7, <1>8, <1>9, <1>10
    DEF ServerStep, Master, Worker, Stream

\* Every step keeps the hands of the threads full.
LEMMA StepHands ==
    ASSUME ServerTypeOK, QueueInOrder, HandsFull, ServerStep \/ \E t \in Streams : Stream(t)
    PROVE  HandsFull'
  <1> USE HttpServerAssumption DEF ring, master, worker, stream
  <1>1. CASE Stop \/ CountWorker \/ Broadcast \/ Join
    BY <1>1 DEF Stop, CountWorker, Broadcast, Join, HandsFull, ServerTypeOK
  <1>2. CASE Accept
    BY <1>2 DEF Accept, HandsFull, ServerTypeOK
  <1>3. CASE Produce
    BY <1>3 DEF Produce, SignalFull, Waiting, HandsFull, ServerTypeOK
  <1>4. ASSUME NEW w \in WorkerIds, StartWorker(w) \/ Leave(w) \/ Sleep(w) PROVE HandsFull'
    BY <1>4 DEF StartWorker, Leave, Sleep, HandsFull, ServerTypeOK
  <1>5. ASSUME NEW w \in WorkerIds, Consume(w) PROVE HandsFull'
    <2>1. CASE head = tail
      BY <1>5, <2>1 DEF Consume, HandsFull, ServerTypeOK
    <2>2. CASE head # tail
      <3>1. queue[tail % QSize] \in Socks
        BY <1>5, <2>2, RingTake DEF Consume
      <3>2. QED
        BY <1>5, <2>2, <3>1 DEF Consume, HandsFull, ServerTypeOK
    <2>3. QED
      BY <2>1, <2>2
  <1>6. ASSUME NEW w \in WorkerIds, Video(w) PROVE HandsFull'
    BY <1>6 DEF Video, MoveConn, HandsFull, ServerTypeOK
  <1>7. ASSUME NEW w \in WorkerIds, Unread(w) \/ HandleRequest(w) \/ Close(w) PROVE HandsFull'
    BY <1>7 DEF Unread, HandleRequest, Close, CloseConnection, HandsFull, ServerTypeOK
  <1>8. ASSUME NEW t \in Streams, Stream(t) PROVE HandsFull'
    BY <1>8 DEF Stream, Find, Erase, HandsFull
  <1>9. QED
    BY <1>1, <1>2, <1>3, <1>4, <1>5, <1>6, <1>7, <1>8 DEF ServerStep, Master, Worker
-----------------------------------------------------------------------------
(* One owner per socket.                                                   *)

\* Every step of the server's threads hands a socket on, takes a closed number,
\* or closes a socket it owns.
LEMMA ServerOwned ==
    ASSUME ServerTypeOK, QueueInOrder, OwnedOnce, HandsFull, ServerStep
    PROVE  OwnedOnce'
  <1> USE HttpServerAssumption DEF ring, master, worker, stream, InRing, WorkerHas, StreamHas
  <1>1. CASE Stop \/ CountWorker \/ Broadcast \/ Join
    BY <1>1 DEF Stop, CountWorker, Broadcast, Join, Owned, OwnedOnce
  <1>2. CASE Accept
    <2>1. PICK s \in Socks \ open : open' = open \cup {s} /\ msock' = s
      BY <1>2 DEF Accept
    <2>2. UNCHANGED <<line, wsock, stream>>
      BY <1>2 DEF Accept
    <2>3. QED
      BY <2>1, <2>2 DEF Owned, OwnedOnce
  <1>3. CASE Produce
    <2>1. CASE head - tail >= QSize
      BY <1>3, <2>1 DEF Produce, Owned, OwnedOnce
    <2>2. CASE ~(head - tail >= QSize)
      <3>1. msock \in Socks /\ msock' = 0 /\ Len(line) \in Nat
        BY <1>3, <2>2, LenProperties DEF Produce, HandsFull, ServerTypeOK
      <3>2. /\ Len(line') = Len(line) + 1
            /\ \A i \in 1..Len(line) : line'[i] = line[i]
            /\ line'[Len(line) + 1] = msock
        BY <1>3, <2>2, <3>1, RingPut DEF Produce, ServerTypeOK
      <3>3. UNCHANGED <<wsock, stream, open>>
        BY <1>3, <2>2 DEF Produce
      <3>4. QED
        BY <3>1, <3>2, <3>3 DEF Owned, OwnedOnce
    <2>3. QED
      BY <2>1, <2>2
  <1>4. ASSUME NEW w \in WorkerIds, StartWorker(w) \/ Leave(w) \/ Sleep(w) PROVE OwnedOnce'
    BY <1>4 DEF StartWorker, Leave, Sleep, Owned, OwnedOnce
  <1>5. ASSUME NEW w \in WorkerIds, Consume(w) PROVE OwnedOnce'
    <2>1. CASE head = tail
      BY <1>5, <2>1 DEF Consume, Owned, OwnedOnce
    <2>2. CASE head # tail
      <3>1. /\ Len(line) \in Nat \ {0} /\ Len(line') = Len(line) - 1
            /\ \A i \in 1..Len(line') : line'[i] = line[i + 1]
            /\ line[1] \in Socks /\ wsock' = [wsock EXCEPT ![w] = line[1]]
        BY <1>5, <2>2, RingTake DEF Consume
      <3>2. UNCHANGED <<msock, stream, open>>
        BY <1>5, <2>2 DEF Consume
      <3>3. \A i \in 1..Len(line') : i + 1 \in 1..Len(line) /\ i + 1 # 1 /\ i \in Int
        BY <3>1
      <3>4. 1 \in 1..Len(line)
        BY <3>1
      <3>5. ASSUME NEW s \in Socks PROVE Owned(s)'
        <4>1. Owned(s)
          BY DEF OwnedOnce
        <4>2. \A v \in WorkerIds : WorkerHas(s, v)' <=> IF v = w THEN line[1] = s ELSE WorkerHas(s, v)
          BY <3>1 DEF ServerTypeOK
        <4>3. CASE s = line[1]
          <5>1. \A i \in 1..Len(line') : ~InRing(s, i)'
            BY <3>1, <3>3, <3>4, <4>1, <4>3 DEF Owned
          <5>2. /\ \A v \in WorkerIds : ~WorkerHas(s, v)
                /\ \A t \in Streams : ~StreamHas(s, t)
                /\ s \in open /\ msock # s
            BY <3>4, <4>1, <4>3 DEF Owned
          <5>3. QED
            BY <3>2, <4>1, <4>2, <5>1, <5>2 DEF Owned
        <4>4. CASE s # line[1]
          <5>1. \A i \in 1..Len(line') : InRing(s, i)' => InRing(s, i + 1)
            BY <3>1, <3>3
          <5>2. \A i \in 1..Len(line') : InRing(s, i)' =>
                   /\ s \in open /\ msock # s
                   /\ \A v \in WorkerIds : ~WorkerHas(s, v)
                   /\ \A t \in Streams : ~StreamHas(s, t)
            BY <3>3, <4>1, <5>1 DEF Owned
          <5>3. \A i, j \in 1..Len(line') : InRing(s, i)' /\ InRing(s, j)' => i = j
            BY <3>3, <4>1, <5>1 DEF Owned
          <5>4. QED
            BY <3>2, <4>1, <4>2, <4>4, <5>2, <5>3 DEF Owned
        <4>5. QED
          BY <4>3, <4>4
      <3>6. QED
        BY <3>5 DEF OwnedOnce
    <2>3. QED
      BY <2>1, <2>2
  <1>6. ASSUME NEW w \in WorkerIds, Video(w) PROVE OwnedOnce'
    <2>1. PICK t \in Streams : ssock' = [ssock EXCEPT ![t] = wsock[w]]
                              /\ spc' = [spc EXCEPT ![t] = "find"]
      BY <1>6 DEF Video
    <2>2. /\ wsock' = [wsock EXCEPT ![w] = 0]
          /\ UNCHANGED <<line, msock, open>>
      BY <1>6 DEF Video, MoveConn
    <2>3. QED
      BY <2>1, <2>2 DEF Owned, OwnedOnce, ServerTypeOK
  <1>7. ASSUME NEW w \in WorkerIds, Unread(w) \/ HandleRequest(w) \/ Close(w) PROVE OwnedOnce'
    <2>1. /\ open' = open \ {wsock[w]} /\ wsock' = [wsock EXCEPT ![w] = 0]
          /\ UNCHANGED <<line, msock, stream>>
      BY <1>7 DEF Unread, HandleRequest, Close, CloseConnection
    <2>2. ASSUME NEW s \in Socks PROVE Owned(s)'
      <3>1. /\ Owned(s) /\ s # 0
            /\ \A v \in WorkerIds : WorkerHas(s, v)' <=> v # w /\ WorkerHas(s, v)
        BY <2>1 DEF OwnedOnce, ServerTypeOK
      <3>2. QED
        BY <2>1, <3>1 DEF Owned
    <2>3. QED
      BY <2>2 DEF OwnedOnce
  <1>8. QED
    BY <1>1, <1>2, <1>3, <1>4, <1>5, <1>6, <1>7 DEF ServerStep, Master, Worker

\* So does every step of a stream thread.
LEMMA StreamOwned ==
    ASSUME ServerTypeOK, OwnedOnce, NEW t \in Streams, Stream(t)
    PROVE  OwnedOnce'
  <1> USE HttpServerAssumption DEF ring, master, worker, stream, InRing, WorkerHas, StreamHas
  <1>1. CASE Find(t)
    <2>1. UNCHANGED <<line, msock, wsock>>
      BY <1>1 DEF Find
    <2>2. ASSUME NEW s \in Socks PROVE Owned(s)'
      <3>1. Owned(s) /\ s # 0
        BY DEF OwnedOnce
      <3>2. CASE ssock' = ssock /\ spc' = spc /\ open' = open
        BY <2>1, <3>1, <3>2 DEF Owned
      <3>3. CASE \/ ssock' = [ssock EXCEPT ![t] = 0] /\ open' = open /\ spc' = [spc EXCEPT ![t] = "none"]
                 \/ /\ ssock' = ssock /\ spc' = [spc EXCEPT ![t] = "erase"]
                    /\ open' = open \ {ssock[t]}
        <4>1. \A u \in Streams : StreamHas(s, u)' <=> u # t /\ StreamHas(s, u)
          BY <3>1, <3>3 DEF ServerTypeOK
        <4>2. s \in open /\ s \notin open' => StreamHas(s, t)
          BY <1>1, <3>3 DEF Find
        <4>3. QED
          BY <2>1, <3>1, <4>1, <4>2 DEF Owned
      <3>4. QED
        BY <1>1, <3>2, <3>3 DEF Find
    <2>3. QED
      BY <2>2 DEF OwnedOnce
  <1>2. CASE Erase(t)
    BY <1>2 DEF Erase, Owned, OwnedOnce, ServerTypeOK
  <1>3. QED
    BY <1>1, <1>2 DEF Stream

\* Every step keeps the invariant.
LEMMA StepServerInv == ServerInv /\ [ServerNext]_serverVars => ServerInv'
  <1> SUFFICES ASSUME ServerInv, [ServerNext]_serverVars PROVE ServerInv'
    OBVIOUS
  <1>1. CASE (ServerStep /\ UNCHANGED crashed) \/ \E t \in Streams : Stream(t)
    <2>1. Counted' /\ StopCoherent' /\ threads' \in 0..Cardinality(WorkerIds)
      BY <1>1, StepCount, StepStop DEF ServerInv
    <2>2. ServerTypeOK' /\ QueueInOrder' /\ HandsFull'
      BY <1>1, <2>1, StepServerType, StepHands DEF ServerInv
    <2>3. OwnedOnce'
      BY <1>1, ServerOwned, StreamOwned DEF ServerInv
    <2>4. QED
      BY <2>1, <2>2, <2>3 DEF ServerInv
  <1>2. CASE UNCHANGED serverVars
    BY <1>2
    DEF serverVars, ring, master, worker, stream, ServerInv, ServerTypeOK, QueueInOrder, Owned, OwnedOnce, HandsFull,
        Counted, StopCoherent, InRing, WorkerHas, StreamHas, Existing, Uncounted
  <1>3. QED
    BY <1>1, <1>2 DEF ServerNext, ServerStep

\* The inductive invariant holds of every server.
THEOREM ServerInvariantAlways == ServerSpec => []ServerInv
  BY InitServerInv, StepServerInv, PTL DEF ServerSpec
-----------------------------------------------------------------------------
(* What follows from it.                                                   *)

\* The ring hands out every accepted socket once and in order, for every length
\* of the ring and although the indices are wrapped at QSize + 1 only.
THEOREM QueueInOrderAlways == ServerSpec => []QueueInOrder
  <1>1. ServerInv => QueueInOrder
    BY DEF ServerInv
  <1>2. QED
    BY <1>1, ServerInvariantAlways, PTL

\* No connection is closed or written by a thread that does not own it.
THEOREM OneOwnerAlways == ServerSpec => []OneOwner
  <1>1. ServerInv => OneOwner
    <2> SUFFICES ASSUME ServerInv, NEW s \in Socks
                 PROVE  Cardinality(Owners(s)) <= 1 /\ (s \notin open => Owners(s) = {})
      BY DEF OneOwner
    <2> USE DEF InRing, WorkerHas, StreamHas
    <2>1. ASSUME NEW x \in Owners(s)
          PROVE  \/ x[1] = "ring" /\ x = <<"ring", x[2]>> /\ x[2] \in 1..Len(line) /\ InRing(s, x[2])
                 \/ x = <<"master", 0>> /\ msock = s
                 \/ x[1] = "worker" /\ x = <<"worker", x[2]>> /\ x[2] \in WorkerIds /\ WorkerHas(s, x[2])
                 \/ x[1] = "stream" /\ x = <<"stream", x[2]>> /\ x[2] \in Streams /\ StreamHas(s, x[2])
      BY DEF Owners
    <2>2. ASSUME NEW x \in Owners(s), NEW y \in Owners(s) PROVE x = y /\ s \in open
      BY <2>1 DEF ServerInv, Owned, OwnedOnce
    <2>3. CASE Owners(s) = {}
      BY <2>3, FS_EmptySet
    <2>4. CASE Owners(s) # {}
      <3>1. PICK x : x \in Owners(s)
        BY <2>4
      <3>2. Owners(s) = {x} /\ s \in open
        BY <2>2, <3>1
      <3>3. Cardinality({x}) = 1
        BY FS_Singleton
      <3>4. QED
        BY <3>2, <3>3
    <2>5. QED
      BY <2>3, <2>4
  <1>2. QED
    BY <1>1, ServerInvariantAlways, PTL

\* mg_stop frees the context when nobody is left to use it.
THEOREM ContextInUseAlways == ServerSpec => []ContextInUse
  <1>1. ServerInv => ContextInUse
    BY DEF ServerInv, StopCoherent, ContextInUse
  <1>2. QED
    BY <1>1, ServerInvariantAlways, PTL
-------------------------------------------------------------------------------
(* Commands: the inductive invariant.                                      *)

\* A worker between the row and the object of a new camera, and one that has
\* looked up the camera it is about to delete or to plan.
Makes(w) == op[w].do \in {"row", "object"}
Holds(w) == op[w].do \in {"delete", "plan"}

\* Numbers that were not given yet are in no place.
Numbered ==
    /\ \A i \in Ids : rows[i] # "none" => i <= adds
    /\ \A i \in objects : i <= adds
    /\ \A s \in SipIds : sipmap[s] <= adds
    /\ \A w \in Workers : op[w].id <= adds

\* add_device_sql makes no second row of a SIP id.
RowsDiffer ==
    \A i, j \in Ids : rows[i] # "none" /\ rows[i] = rows[j] => i = j

\* The row of a camera that is being made is there, it has no object yet, and
\* one worker makes it.
MakersOwn ==
    \A w \in Workers : Makes(w) =>
        /\ op[w].id \in Ids /\ op[w].sip \in SipIds
        /\ rows[op[w].id] = op[w].sip
        /\ op[w].id \notin objects
        /\ \A v \in Workers : Makes(v) /\ op[v].id = op[w].id => v = w

\* What was looked up still names the camera it named then.
HoldersKnow ==
    \A w \in Workers : Holds(w) =>
        op[w].id \in Ids /\ op[w].born = born[op[w].id]

\* The commands end with the process.
DownIsIdle == ~up => \A w \in Workers : op[w] = Idle

Safe ==
    /\ Numbered /\ RowsDiffer /\ MakersOwn /\ HoldersKnow /\ DownIsIdle
    /\ SipIdFindsCamera

CommandsInv == TypeOK /\ Safe

\* The records of what a worker is about.
OpRecords ==
    [do : {"idle", "command", "row", "object", "delete", "plan", "list"},
     id : Ids \cup {0}, sip : SipIds \cup {"none"}, born : 0..MaxAdds]

\* The requests that leave cameras alone, whatever they are answered.
QuietStep(w) ==
    \/ Request(w) \/ StartDev(w) \/ StopDev(w) \/ UpdateDev(w) \/ OtherCommand(w)
    \/ Search(w) \/ Get(w) \/ List(w) \/ ListDeleted(w) \/ GetDev(w)
    \/ GetTracks(w) \/ GetSip(w) \/ SetConf(w) \/ SetNone(w) \/ SetTime(w)

\* What they leave: the worker is no longer, or not yet, about a camera.
LEMMA Quiet ==
    ASSUME TypeOK, NEW w \in Workers, QuietStep(w)
    PROVE  /\ UNCHANGED <<up, table, dblock, objects, sipmap>> /\ up
           /\ now' \in 0..MaxNow /\ idens' \subseteq 0..MaxNow
           /\ ~Makes(w)
           /\ \/ op' = op
              \/ \E o \in OpRecords :
                    /\ op' = [op EXCEPT ![w] = o]
                    /\ o.do \in {"idle", "command", "list"}
                    /\ o.id = 0 \/ o.id \in objects
  <1> USE CommandsAssumption DEF table
  <1>0. /\ Idle \in OpRecords /\ [Idle EXCEPT !.do = "command"] \in OpRecords
        /\ Idle.do = "idle" /\ Idle.id = 0
        /\ [Idle EXCEPT !.do = "command"].do = "command"
        /\ [Idle EXCEPT !.do = "command"].id = 0
    BY DEF Idle, OpRecords
  <1>1. CASE Answered(w)
    BY <1>0, <1>1 DEF Answered, Set, Makes, TypeOK
  <1>2. CASE Login(w)
    BY <1>2 DEF Login, Makes, TypeOK
  <1>3. CASE Identity(w)
    <2>1. PICK k \in idens :
             IF now < k + Life
             THEN idens' = EraseExpired /\ Set(w, [Idle EXCEPT !.do = "command"])
             ELSE idens' = idens \ {k} /\ UNCHANGED op
      BY <1>3 DEF Identity
    <2>2. EraseExpired \subseteq idens
      BY DEF EraseExpired, Expired
    <2>3. QED
      BY <1>0, <1>3, <2>1, <2>2 DEF Identity, Set, Makes, TypeOK
  <1>4. CASE SetTime(w)
    BY <1>0, <1>4 DEF SetTime, Set, Makes, TypeOK
  <1>5. CASE List(w)
    <2>1. CASE Set(w, Idle)
      BY <1>0, <1>5, <2>1 DEF List, Set, Makes, TypeOK
    <2>2. ASSUME NEW i \in objects, Set(w, [do |-> "list", id |-> i, sip |-> "none", born |-> 0])
          PROVE  \E o \in OpRecords :
                    /\ op' = [op EXCEPT ![w] = o]
                    /\ o.do \in {"idle", "command", "list"}
                    /\ o.id = 0 \/ o.id \in objects
      <3> DEFINE o == [do |-> "list", id |-> i, sip |-> "none", born |-> 0]
      <3>1. o \in OpRecords /\ o.do = "list" /\ o.id = i
        <4>1. i \in Ids /\ 0 \in 0..MaxAdds
          BY DEF TypeOK
        <4>2. QED
          BY <4>1 DEF OpRecords
      <3>2. QED
        BY <2>2, <3>1 DEF Set
    <2>3. QED
      BY <1>5, <2>1, <2>2 DEF List, Makes, TypeOK
  <1>6. CASE ListDeleted(w)
    <2>1. CASE Set(w, Idle)
      BY <1>0, <1>6, <2>1 DEF ListDeleted, Set, Makes, TypeOK
    <2>2. ASSUME NEW i \in objects, Set(w, [op[w] EXCEPT !.id = i])
          PROVE  \E o \in OpRecords :
                    /\ op' = [op EXCEPT ![w] = o]
                    /\ o.do \in {"idle", "command", "list"}
                    /\ o.id = 0 \/ o.id \in objects
      <3> DEFINE o == [op[w] EXCEPT !.id = i]
      <3>1. o \in OpRecords /\ o.do = "list" /\ o.id = i
        BY <1>6 DEF ListDeleted, OpRecords, TypeOK
      <3>2. QED
        BY <2>2, <3>1 DEF Set
    <2>3. QED
      BY <1>6, <2>1, <2>2 DEF ListDeleted, Makes, TypeOK
  <1>7. QED
    BY <1>1, <1>2, <1>3, <1>4, <1>5, <1>6
    DEF QuietStep, Request, StartDev, StopDev, UpdateDev, OtherCommand, Search, Get, GetDev,
        GetTracks, GetSip, SetConf, SetNone

\* What a worker that adds a camera does to the table.
LEMMA Added ==
    ASSUME TypeOK, NEW w \in Workers, AddDev(w)
    PROVE  /\ up /\ op[w].do = "command" /\ UNCHANGED <<up, now, idens, objects, sipmap, planned>>
           /\ \/ op' = [op EXCEPT ![w] = Idle] /\ UNCHANGED <<table, dblock>>
              \/ \E s \in SipIds :
                    /\ \A i \in Ids : rows[i] # s
                    /\ adds + 1 \in Ids /\ adds' = adds + 1
                    /\ rows' = [rows EXCEPT ![adds + 1] = s]
                    /\ born' = [born EXCEPT ![adds + 1] = adds + 1]
                    /\ dblock' = w
                    /\ op' = [op EXCEPT ![w] = [do |-> "row", id |-> adds + 1, sip |-> s,
                                               born |-> adds + 1]]
  <1>1. PICK s \in SipIds : AddRow(w, s)
    BY DEF AddDev
  <1>2. adds < MaxAdds => adds + 1 \in Ids
    BY CommandsAssumption DEF TypeOK, Ids
  <1>3. CASE \E i \in Ids : rows[i] = s
    <2>1. Set(w, Idle) /\ UNCHANGED <<table, dblock>>
      BY <1>1, <1>3 DEF AddRow
    <2>2. QED
      BY <2>1 DEF AddDev, Set, table
  <1>4. CASE ~\E i \in Ids : rows[i] = s
    <2>1. /\ adds < MaxAdds /\ adds' = adds + 1
          /\ rows' = [rows EXCEPT ![NextId] = s]
          /\ born' = [born EXCEPT ![NextId] = adds + 1]
          /\ dblock' = w /\ UNCHANGED planned
          /\ Set(w, [do |-> "row", id |-> NextId, sip |-> s, born |-> adds + 1])
      BY <1>1, <1>4 DEF AddRow
    <2>2. QED
      BY <1>2, <1>4, <2>1 DEF AddDev, NextId, Set
  <1>5. QED
    BY <1>3, <1>4

\* What a worker that looks a camera up is about.
LEMMA LookedUp ==
    ASSUME TypeOK, NEW w \in Workers, Lookup(w)
    PROVE  /\ up /\ op[w].do = "command"
           /\ \/ op' = [op EXCEPT ![w] = Idle]
              \/ \E s \in SipIds, k \in {"delete", "plan"} :
                    /\ sipmap[s] \in Ids
                    /\ op' = [op EXCEPT ![w] = [do |-> k, id |-> sipmap[s], sip |-> s,
                                               born |-> born[sipmap[s]]]]
  BY DEF Lookup, Set, get_id_from_sip_id, TypeOK
-------------------------------------------------------------------------------
(* Type correctness.                                                       *)

\* The first state is typed.
LEMMA InitTypeOK == Init => TypeOK
  BY CommandsAssumption DEF Init, TypeOK, Idle, Ids

\* Every step keeps the types.
LEMMA StepType == TypeOK /\ MakersOwn /\ [Next]_vars => TypeOK'
  <1> SUFFICES ASSUME TypeOK, MakersOwn, [Next]_vars PROVE TypeOK'
    OBVIOUS
  <1> USE CommandsAssumption
  <1>0. op \in [Workers -> OpRecords] /\ Idle \in OpRecords
    BY DEF TypeOK, OpRecords, Idle
  <1>1. ASSUME NEW w \in Workers, QuietStep(w) PROVE TypeOK'
    <2>1. op' \in [Workers -> OpRecords]
      BY <1>0, <1>1, Quiet
    <2>2. QED
      BY <1>1, <2>1, Quiet DEF TypeOK, OpRecords, table
  <1>2. ASSUME NEW w \in Workers, AddDev(w) PROVE TypeOK'
    <2>1. CASE op' = [op EXCEPT ![w] = Idle] /\ UNCHANGED <<table, dblock>>
      <3>1. op' \in [Workers -> OpRecords]
        BY <1>0, <2>1
      <3>2. QED
        BY <1>2, <2>1, <3>1, Added DEF TypeOK, OpRecords, table
    <2>2. ASSUME NEW s \in SipIds, adds + 1 \in Ids, adds' = adds + 1,
                 rows' = [rows EXCEPT ![adds + 1] = s],
                 born' = [born EXCEPT ![adds + 1] = adds + 1], dblock' = w,
                 op' = [op EXCEPT ![w] = [do |-> "row", id |-> adds + 1, sip |-> s,
                                        born |-> adds + 1]]
          PROVE  TypeOK'
      <3>1. adds' \in 0..MaxAdds
        BY <2>2 DEF Ids
      <3>2. born' \in [Ids -> 0..MaxAdds] /\ rows' \in [Ids -> SipIds \cup {"none"}]
        BY <2>2, <3>1 DEF TypeOK
      <3>3. op' \in [Workers -> OpRecords]
        BY <1>0, <2>2, <3>1 DEF OpRecords
      <3>4. UNCHANGED <<up, now, idens, objects, sipmap, planned>>
        BY <1>2, Added
      <3>5. QED
        BY <2>2, <3>1, <3>2, <3>3, <3>4 DEF TypeOK, OpRecords
    <2>3. QED
      BY <1>2, <2>1, <2>2, Added
  <1>3. ASSUME NEW w \in Workers, AddedRow(w) PROVE TypeOK'
    <2>1. [op[w] EXCEPT !.do = "object"] \in OpRecords
      BY <1>0 DEF OpRecords
    <2>2. op' \in [Workers -> OpRecords]
      BY <1>0, <1>3, <2>1 DEF AddedRow, Set
    <2>3. QED
      BY <1>3, <2>2 DEF AddedRow, TypeOK, OpRecords, table
  <1>4. ASSUME NEW w \in Workers, AddObject(w) PROVE TypeOK'
    <2>1. op' \in [Workers -> OpRecords]
      BY <1>0, <1>4 DEF AddObject, Set
    <2>2. op[w].id \in Ids
      BY <1>4 DEF AddObject, Makes, MakersOwn
    <2>3. objects' \subseteq Ids /\ sipmap' \in [SipIds -> Ids \cup {0}]
      BY <1>4, <2>2 DEF AddObject, TypeOK
    <2>4. QED
      BY <1>4, <2>1, <2>3 DEF AddObject, TypeOK, OpRecords, table
  <1>5. ASSUME NEW w \in Workers, Lookup(w) PROVE TypeOK'
    <2>1. op' \in [Workers -> OpRecords]
      BY <1>0, <1>5, LookedUp DEF OpRecords, TypeOK
    <2>2. QED
      BY <1>5, <2>1 DEF Lookup, TypeOK, OpRecords, table
  <1>6. ASSUME NEW w \in Workers, UpdatePlan(w) PROVE TypeOK'
    <2>1. op' \in [Workers -> OpRecords]
      BY <1>0, <1>6 DEF UpdatePlan, Set
    <2>2. QED
      BY <1>6, <2>1 DEF UpdatePlan, TypeOK, OpRecords, table, get_device_list_sql
  <1>7. ASSUME NEW w \in Workers, Delete(w) PROVE TypeOK'
    <2>1. op' \in [Workers -> OpRecords]
      BY <1>0, <1>7 DEF Delete, Set
    <2>2. /\ rows' \in [Ids -> SipIds \cup {"none"}] /\ planned' \subseteq Ids
          /\ objects' \subseteq Ids /\ sipmap' \in [SipIds -> Ids \cup {0}]
          /\ UNCHANGED <<up, now, idens, adds, born, dblock>>
      BY <1>7 DEF Delete, TypeOK, delete_device_sql, EraseSip
    <2>3. QED
      BY <2>1, <2>2 DEF TypeOK, OpRecords
  <1>8. CASE Tick
    BY <1>8 DEF Tick, TypeOK, table
  <1>9. CASE Down
    <2>1. op' \in [Workers -> OpRecords]
      BY <1>0, <1>9 DEF Down
    <2>2. QED
      BY <1>9, <2>1 DEF Down, TypeOK, OpRecords, table
  <1>10. CASE Load
    <2>1. sipmap' \in [SipIds -> Ids \cup {0}]
      BY <1>10 DEF Load
    <2>2. QED
      BY <1>10, <2>1 DEF Load, TypeOK, table, get_device_list_sql
  <1>11. CASE UNCHANGED vars
    BY <1>11 DEF vars, table, TypeOK
  <1>12. QED
    BY <1>1, <1>2, <1>3, <1>4, <1>5, <1>6, <1>7, <1>8, <1>9, <1>10, <1>11 DEF Next, QuietStep
-------------------------------------------------------------------------------
(* SIP ids and device ids.                                                 *)

\* At the first start there is no camera.
LEMMA InitSafe == Init => Safe
  BY CommandsAssumption
  DEF Init, Safe, Numbered, RowsDiffer, MakersOwn, HoldersKnow, DownIsIdle, SipIdFindsCamera,
      Makes, Holds, Idle, Ids

\* A worker that is about to make no camera, before a step and after it, and
\* has none in its hands after it, leaves all of them as they are.
LEMMA ReleaseSafe ==
    ASSUME TypeOK, Safe, NEW w \in Workers, NEW o \in OpRecords,
           UNCHANGED <<up, rows, adds, born, objects, sipmap>>, up, ~Makes(w),
           op' = [op EXCEPT ![w] = o], o.do \in {"idle", "command", "list"},
           o.id = 0 \/ o.id \in objects
    PROVE  Safe'
  <1>1. \A v \in Workers : op'[v] = IF v = w THEN o ELSE op[v]
    BY DEF TypeOK
  <1>2. /\ ~Makes(w)' /\ ~Holds(w)' /\ op'[w] = o
        /\ \A v \in Workers \ {w} :
              op'[v] = op[v] /\ (Makes(v)' <=> Makes(v)) /\ (Holds(v)' <=> Holds(v))
    BY <1>1 DEF Makes, Holds
  <1>3. Numbered'
    BY <1>2, CommandsAssumption DEF Safe, Numbered, TypeOK
  <1>4. RowsDiffer'
    BY DEF Safe, RowsDiffer
  <1>5. MakersOwn'
    BY <1>2 DEF Safe, MakersOwn
  <1>6. HoldersKnow' /\ DownIsIdle'
    BY <1>2 DEF Safe, HoldersKnow, DownIsIdle
  <1>7. SipIdFindsCamera'
    <2>1. ASSUME NEW i \in Ids, rows[i] # "none"
          PROVE  \/ \E v \in Workers : Makes(v)' /\ op'[v].id = i
                 \/ i \in objects /\ sipmap[rows[i]] = i
      <3>1. \/ \E v \in Workers : Makes(v) /\ op[v].id = i
            \/ i \in objects /\ sipmap[rows[i]] = i
        BY <2>1 DEF Safe, SipIdFindsCamera, Makes
      <3>2. QED
        BY <1>2, <3>1
    <2>2. QED
      BY <2>1 DEF Safe, SipIdFindsCamera, Makes
  <1>8. QED
    BY <1>3, <1>4, <1>5, <1>6, <1>7 DEF Safe

\* A step that leaves the table and the objects alone keeps what they promise.
LEMMA QuietSafe ==
    ASSUME TypeOK, Safe, NEW w \in Workers, QuietStep(w)
    PROVE  Safe'
  <1>1. UNCHANGED <<up, table, objects, sipmap>> /\ up /\ ~Makes(w)
    BY Quiet
  <1>2. CASE op' = op
    BY <1>1, <1>2 DEF table, Safe, Numbered, RowsDiffer, MakersOwn, HoldersKnow, DownIsIdle,
                      SipIdFindsCamera, Makes, Holds
  <1>3. QED
    BY <1>1, <1>2, Quiet, ReleaseSafe DEF table

\* A new row gets a number that is in no place yet, and a worker that makes its
\* object.
LEMMA AddDevSafe ==
    ASSUME TypeOK, Safe, NEW w \in Workers, AddDev(w)
    PROVE  Safe'
  <1> USE CommandsAssumption DEF table
  <1>1. up /\ op[w].do = "command" /\ UNCHANGED <<up, objects, sipmap>>
    BY Added
  <1>2. CASE op' = [op EXCEPT ![w] = Idle] /\ UNCHANGED table
    <2>1. Idle \in OpRecords /\ Idle.do = "idle" /\ Idle.id = 0 /\ ~Makes(w)
      BY <1>1 DEF Idle, OpRecords, Makes
    <2>2. QED
      BY <1>1, <1>2, <2>1, ReleaseSafe
  <1>3. ASSUME NEW s \in SipIds, \A i \in Ids : rows[i] # s,
               adds + 1 \in Ids, adds' = adds + 1,
               rows' = [rows EXCEPT ![adds + 1] = s],
               born' = [born EXCEPT ![adds + 1] = adds + 1],
               op' = [op EXCEPT ![w] = [do |-> "row", id |-> adds + 1, sip |-> s,
                                      born |-> adds + 1]]
        PROVE  Safe'
    <2> DEFINE n == adds + 1
    <2>0. adds \in Nat /\ n \in Nat /\ n > adds
      BY DEF TypeOK
    <2>1. \A v \in Workers : op'[v] = IF v = w THEN [do |-> "row", id |-> n, sip |-> s, born |-> n]
                                     ELSE op[v]
      BY <1>3 DEF TypeOK
    <2>2. /\ ~Makes(w) /\ Makes(w)' /\ ~Holds(w)' /\ op'[w].id = n /\ op'[w].sip = s
          /\ \A v \in Workers \ {w} :
                op'[v] = op[v] /\ (Makes(v)' <=> Makes(v)) /\ (Holds(v)' <=> Holds(v))
      BY <1>1, <2>1 DEF Makes, Holds
    <2>3. /\ \A i \in Ids : rows'[i] = IF i = n THEN s ELSE rows[i]
          /\ \A i \in Ids : born'[i] = IF i = n THEN n ELSE born[i]
      BY <1>3 DEF TypeOK
    <2>4. /\ rows[n] = "none" /\ n \notin objects
          /\ \A t \in SipIds : sipmap[t] # n
          /\ \A v \in Workers : op[v].id # n
      <3>1. ~(n <= adds)
        BY <2>0
      <3>2. QED
        BY <1>3, <3>1 DEF Safe, Numbered
    <2> HIDE DEF n
    <2>5. Numbered'
      <3>1. \A v \in Workers : op[v].id \in Int
        BY DEF TypeOK, Ids
      <3>2. \A i \in Ids : i \in Int
        BY DEF Ids
      <3>3. \A t \in SipIds : sipmap[t] \in Int
        BY <3>2 DEF TypeOK
      <3>4. adds' = n
        BY <1>3 DEF n
      <3>5. QED
        BY <1>1, <2>0, <2>2, <2>3, <3>1, <3>2, <3>3, <3>4 DEF Safe, Numbered, TypeOK
    <2>6. RowsDiffer'
      BY <1>3, <2>3 DEF Safe, RowsDiffer
    <2>7. MakersOwn'
      BY <1>1, <1>3, <2>2, <2>3, <2>4 DEF Safe, MakersOwn, n
    <2>8. HoldersKnow' /\ DownIsIdle'
      BY <1>1, <2>2, <2>3, <2>4 DEF Safe, HoldersKnow, DownIsIdle
    <2>9. SipIdFindsCamera'
      <3>1. \A i \in Ids : rows'[i] # "none" =>
               \/ \E v \in Workers : Makes(v)' /\ op'[v].id = i
               \/ i \in objects /\ sipmap[rows'[i]] = i
        BY <1>1, <2>2, <2>3 DEF Safe, SipIdFindsCamera, Makes
      <3>2. \A t \in SipIds : sipmap[t] # 0 => rows'[sipmap[t]] = t
        BY <1>1, <2>3, <2>4 DEF Safe, SipIdFindsCamera, TypeOK
      <3>3. QED
        BY <1>1, <3>1, <3>2 DEF SipIdFindsCamera, Makes
    <2>10. QED
      BY <2>5, <2>6, <2>7, <2>8, <2>9 DEF Safe
  <1>4. QED
    BY <1>2, <1>3, Added

\* The object and the SIP id of a camera are put where the row says.
LEMMA AddObjectSafe ==
    ASSUME TypeOK, Safe, NEW w \in Workers, AddObject(w)
    PROVE  Safe'
  <1> DEFINE n == op[w].id
             s == op[w].sip
  <1>1. /\ up /\ Makes(w) /\ n \in Ids /\ s \in SipIds /\ rows[n] = s /\ s # "none"
        /\ \A v \in Workers : Makes(v) /\ op[v].id = n => v = w
    BY CommandsAssumption DEF AddObject, Makes, Safe, MakersOwn
  <1>2. /\ objects' = objects \cup {n} /\ UNCHANGED <<up, rows, adds, born>>
        /\ op' = [op EXCEPT ![w] = Idle]
        /\ sipmap' = [sipmap EXCEPT ![s] = IF @ = 0 THEN n ELSE @]
    BY DEF AddObject, Set, table
  <1>3. sipmap[s] \in {0, n}
    <2>1. sipmap[s] # 0 => sipmap[s] \in Ids /\ rows[sipmap[s]] = s
      BY <1>1 DEF Safe, SipIdFindsCamera, TypeOK
    <2>2. QED
      BY <1>1, <2>1 DEF Safe, RowsDiffer
  <1>4. \A t \in SipIds : sipmap'[t] = IF t = s THEN n ELSE sipmap[t]
    BY <1>1, <1>2, <1>3 DEF TypeOK
  <1>5. /\ ~Makes(w)' /\ ~Holds(w)' /\ op'[w].id = 0 /\ op'[w] = Idle
        /\ \A v \in Workers \ {w} :
              op'[v] = op[v] /\ (Makes(v)' <=> Makes(v)) /\ (Holds(v)' <=> Holds(v))
    BY <1>2 DEF Makes, Holds, Idle, TypeOK
  <1> HIDE DEF n, s
  <1>6. Numbered'
    <2>1. n <= adds
      BY <1>1 DEF Safe, Numbered, n
    <2>2. 0 <= adds
      BY DEF TypeOK
    <2>3. QED
      BY <1>2, <1>4, <1>5, <2>1, <2>2 DEF Safe, Numbered
  <1>7. RowsDiffer' /\ HoldersKnow' /\ DownIsIdle'
    BY <1>1, <1>2, <1>5 DEF Safe, RowsDiffer, HoldersKnow, DownIsIdle
  <1>8. MakersOwn'
    BY <1>1, <1>2, <1>5 DEF Safe, MakersOwn
  <1>9. SipIdFindsCamera'
    <2>1. ASSUME NEW i \in Ids, rows[i] # "none"
          PROVE  \/ \E v \in Workers : Makes(v)' /\ op'[v].id = i
                 \/ i \in objects' /\ sipmap'[rows[i]] = i
      <3>1. CASE i = n
        BY <1>1, <1>2, <1>4, <3>1
      <3>2. CASE i # n
        <4>1. \/ \E v \in Workers : Makes(v) /\ op[v].id = i
              \/ i \in objects /\ sipmap[rows[i]] = i
          BY <1>1, <2>1 DEF Safe, SipIdFindsCamera, Makes
        <4>2. rows[i] \in SipIds /\ rows[i] # s
          BY <1>1, <2>1, <3>2 DEF Safe, RowsDiffer, TypeOK
        <4>3. op[w].id # i
          BY <3>2 DEF n
        <4>4. QED
          BY <1>2, <1>4, <1>5, <4>1, <4>2, <4>3
      <3>3. QED
        BY <3>1, <3>2
    <2>2. \A t \in SipIds : sipmap'[t] # 0 => rows[sipmap'[t]] = t
      BY <1>1, <1>4 DEF Safe, SipIdFindsCamera
    <2>3. QED
      BY <1>2, <2>1, <2>2 DEF SipIdFindsCamera, Makes
  <1>10. QED
    BY <1>6, <1>7, <1>8, <1>9 DEF Safe

\* A camera is deleted from every place.
LEMMA DeleteSafe ==
    ASSUME TypeOK, Safe, NEW w \in Workers, Delete(w)
    PROVE  Safe'
  <1> DEFINE n == op[w].id
  <1>0. Idle \in OpRecords /\ Idle.do = "idle" /\ Idle.id = 0
    BY CommandsAssumption DEF Idle, OpRecords
  <1>1. /\ up /\ Holds(w) /\ ~Makes(w) /\ op' = [op EXCEPT ![w] = Idle]
        /\ UNCHANGED <<up, adds, born>>
    BY DEF Delete, Set, Holds, Makes
  <1>2. CASE UNCHANGED <<rows, planned, objects, sipmap>>
    BY <1>0, <1>1, <1>2, ReleaseSafe
  <1>3. CASE /\ n \in objects /\ delete_device_sql(n)
             /\ objects' = objects \ {n} /\ sipmap' = EraseSip(n)
    <2>1. n \in Ids
      BY <1>3 DEF TypeOK
    <2>2. \A i \in Ids : rows'[i] = IF i = n THEN "none" ELSE rows[i]
      BY <1>3, <2>1 DEF delete_device_sql, TypeOK
    <2>3. \A t \in SipIds : sipmap'[t] = IF sipmap[t] = n THEN 0 ELSE sipmap[t]
      BY <1>3 DEF EraseSip
    <2>4. objects' = objects \ {n} /\ n \in objects
      BY <1>3
    <2>5. /\ ~Makes(w)' /\ ~Holds(w)' /\ op'[w].id = 0 /\ op'[w] = Idle
          /\ \A v \in Workers \ {w} :
                op'[v] = op[v] /\ (Makes(v)' <=> Makes(v)) /\ (Holds(v)' <=> Holds(v))
      BY <1>1 DEF Makes, Holds, Idle, TypeOK
    <2> HIDE DEF n
    <2>6. Numbered'
      <3>1. 0 <= adds
        BY DEF TypeOK
      <3>2. QED
        BY <1>1, <2>2, <2>3, <2>4, <2>5, <3>1 DEF Safe, Numbered
    <2>7. RowsDiffer' /\ HoldersKnow' /\ DownIsIdle'
      BY <1>1, <2>2, <2>5 DEF Safe, RowsDiffer, HoldersKnow, DownIsIdle
    <2>8. MakersOwn'
      BY <1>1, <2>2, <2>4, <2>5 DEF Safe, MakersOwn
    <2>9. SipIdFindsCamera'
      <3>1. ASSUME NEW i \in Ids, rows'[i] # "none"
            PROVE  \/ \E v \in Workers : Makes(v)' /\ op'[v].id = i
                   \/ i \in objects' /\ sipmap'[rows'[i]] = i
        <4>1. i # n /\ rows[i] # "none" /\ rows'[i] = rows[i] /\ rows[i] \in SipIds
          BY <2>2, <3>1 DEF TypeOK
        <4>2. \/ \E v \in Workers : Makes(v) /\ op[v].id = i
              \/ i \in objects /\ sipmap[rows[i]] = i
          BY <1>1, <4>1 DEF Safe, SipIdFindsCamera, Makes
        <4>3. QED
          BY <1>1, <2>3, <2>4, <2>5, <4>1, <4>2
      <3>2. \A t \in SipIds : sipmap'[t] # 0 => rows'[sipmap'[t]] = t
        BY <1>1, <2>2, <2>3 DEF Safe, SipIdFindsCamera, TypeOK
      <3>3. QED
        BY <3>1, <3>2 DEF SipIdFindsCamera, Makes
    <2>10. QED
      BY <2>6, <2>7, <2>8, <2>9 DEF Safe
  <1>4. QED
    BY <1>2, <1>3 DEF Delete

\* The row is read again, and the camera's maker goes on.
LEMMA AddedRowSafe ==
    ASSUME TypeOK, Safe, NEW w \in Workers, AddedRow(w)
    PROVE  Safe'
  <1>1. /\ UNCHANGED <<up, rows, adds, born, objects, sipmap>> /\ up
        /\ Makes(w) /\ Makes(w)' /\ ~Holds(w) /\ ~Holds(w)'
        /\ \A v \in Workers : op'[v].id = op[v].id /\ op'[v].sip = op[v].sip
        /\ \A v \in Workers \ {w} : op'[v] = op[v]
    BY DEF AddedRow, Set, table, Makes, Holds, TypeOK
  <1>2. \A v \in Workers : Makes(v)' <=> Makes(v)
    BY <1>1 DEF Makes
  <1>8. \A v \in Workers : Holds(v)' => Holds(v) /\ op'[v] = op[v]
    BY <1>1 DEF Holds
  <1>3. Numbered' /\ RowsDiffer'
    BY <1>1 DEF Safe, Numbered, RowsDiffer
  <1>4. MakersOwn'
    BY <1>1, <1>2 DEF Safe, MakersOwn
  <1>5. HoldersKnow' /\ DownIsIdle'
    BY <1>1, <1>8 DEF Safe, HoldersKnow, DownIsIdle
  <1>6. SipIdFindsCamera'
    BY <1>1, <1>2 DEF Safe, SipIdFindsCamera, Makes
  <1>7. QED
    BY <1>3, <1>4, <1>5, <1>6 DEF Safe

\* A camera that is looked up is known by its number.
LEMMA LookupSafe ==
    ASSUME TypeOK, Safe, NEW w \in Workers, Lookup(w)
    PROVE  Safe'
  <1>1. up /\ op[w].do = "command" /\ UNCHANGED <<up, rows, adds, born, objects, sipmap>>
    BY LookedUp DEF Lookup, table
  <1>2. CASE op' = [op EXCEPT ![w] = Idle]
    <2>1. Idle \in OpRecords /\ Idle.do = "idle" /\ Idle.id = 0 /\ ~Makes(w)
      BY <1>1, CommandsAssumption DEF Idle, OpRecords, Makes
    <2>2. QED
      BY <1>1, <1>2, <2>1, ReleaseSafe
  <1>3. ASSUME NEW s \in SipIds, NEW k \in {"delete", "plan"}, sipmap[s] \in Ids,
               op' = [op EXCEPT ![w] = [do |-> k, id |-> sipmap[s], sip |-> s,
                                      born |-> born[sipmap[s]]]]
        PROVE  Safe'
    <2>1. /\ ~Makes(w) /\ ~Makes(w)' /\ op'[w].id = sipmap[s] /\ op'[w].born = born[sipmap[s]]
          /\ \A v \in Workers \ {w} :
                op'[v] = op[v] /\ (Makes(v)' <=> Makes(v)) /\ (Holds(v)' <=> Holds(v))
      BY <1>1, <1>3 DEF Makes, Holds, TypeOK
    <2>2. Numbered' /\ RowsDiffer'
      BY <1>1, <2>1 DEF Safe, Numbered, RowsDiffer
    <2>3. MakersOwn'
      BY <1>1, <2>1 DEF Safe, MakersOwn
    <2>4. HoldersKnow' /\ DownIsIdle'
      BY <1>1, <1>3, <2>1 DEF Safe, HoldersKnow, DownIsIdle
    <2>5. SipIdFindsCamera'
      <3>1. ASSUME NEW i \in Ids, rows[i] # "none"
            PROVE  \/ \E v \in Workers : Makes(v)' /\ op'[v].id = i
                   \/ i \in objects /\ sipmap[rows[i]] = i
        <4>1. \/ \E v \in Workers : Makes(v) /\ op[v].id = i
              \/ i \in objects /\ sipmap[rows[i]] = i
          BY <1>1, <3>1 DEF Safe, SipIdFindsCamera, Makes
        <4>2. QED
          BY <2>1, <4>1
      <3>2. QED
        BY <1>1, <3>1 DEF Safe, SipIdFindsCamera, Makes
    <2>6. QED
      BY <2>2, <2>3, <2>4, <2>5 DEF Safe
  <1>4. QED
    BY <1>2, <1>3, LookedUp

\* A crash leaves the table, and load_video_stream makes the rest from it.
LEMMA ProcessSafe ==
    ASSUME TypeOK, Safe, Down \/ Load
    PROVE  Safe'
  <1>1. CASE Down
    <2>1. UNCHANGED <<rows, adds, born>> /\ 0 <= adds
      BY <1>1 DEF Down, table, TypeOK
    <2>2. QED
      BY <1>1, <2>1
      DEF Down, Safe, Numbered, RowsDiffer, MakersOwn, HoldersKnow, DownIsIdle,
          SipIdFindsCamera, Makes, Holds, Idle
  <1>2. CASE Load
    <2>1. /\ UNCHANGED <<rows, adds, born, op>> /\ 0 <= adds /\ up'
          /\ \A i \in Ids : i \in objects' <=> rows[i] # "none"
          /\ objects' \subseteq Ids
      BY <1>2 DEF Load, table, TypeOK, get_device_list_sql
    <2>2. \A v \in Workers : ~Makes(v) /\ ~Holds(v) /\ op[v].id = 0
      BY <1>2 DEF Load, Safe, DownIsIdle, Idle, Makes, Holds
    <2>3. ASSUME NEW t \in SipIds
          PROVE  /\ sipmap'[t] # 0 => sipmap'[t] \in Ids /\ rows[sipmap'[t]] = t
                 /\ \A i \in Ids : rows[i] = t => sipmap'[t] # 0
      <3>1. sipmap'[t] = IF \E i \in Ids : rows[i] = t THEN CHOOSE i \in Ids : rows[i] = t ELSE 0
        BY <1>2 DEF Load
      <3>2. 0 \notin Ids
        BY DEF Ids
      <3>3. CASE \E i \in Ids : rows[i] = t
        <4>1. /\ (CHOOSE i \in Ids : rows[i] = t) \in Ids
              /\ rows[CHOOSE i \in Ids : rows[i] = t] = t
          BY <3>3
        <4>2. QED
          BY <3>1, <3>2, <3>3, <4>1
      <3>4. QED
        BY <3>1, <3>3
    <2>4. Numbered'
      BY <2>1, <2>2, <2>3, CommandsAssumption DEF Safe, Numbered
    <2>5. RowsDiffer' /\ MakersOwn' /\ HoldersKnow' /\ DownIsIdle'
      BY <2>1, <2>2 DEF Safe, RowsDiffer, MakersOwn, HoldersKnow, DownIsIdle, Makes, Holds
    <2>6. SipIdFindsCamera'
      <3>1. ASSUME NEW i \in Ids, rows[i] # "none" PROVE i \in objects' /\ sipmap'[rows[i]] = i
        <4>1. rows[i] \in SipIds
          BY <3>1 DEF TypeOK
        <4>2. sipmap'[rows[i]] \in Ids /\ rows[sipmap'[rows[i]]] = rows[i]
          BY <2>3, <4>1
        <4>3. QED
          BY <2>1, <3>1, <4>2 DEF Safe, RowsDiffer
      <3>2. QED
        BY <2>1, <2>3, <3>1 DEF SipIdFindsCamera
    <2>7. QED
      BY <2>4, <2>5, <2>6 DEF Safe
  <1>3. QED
    BY <1>1, <1>2

\* Every step keeps the invariant.
LEMMA StepSafe == TypeOK /\ Safe /\ [Next]_vars => Safe'
  <1> SUFFICES ASSUME TypeOK, Safe, [Next]_vars PROVE Safe'
    OBVIOUS
  <1>1. ASSUME NEW w \in Workers, QuietStep(w) PROVE Safe'
    BY <1>1, QuietSafe
  <1>2. ASSUME NEW w \in Workers, AddDev(w) \/ AddedRow(w) \/ AddObject(w) PROVE Safe'
    BY <1>2, AddDevSafe, AddedRowSafe, AddObjectSafe
  <1>3. ASSUME NEW w \in Workers, Lookup(w) \/ Delete(w) PROVE Safe'
    BY <1>3, LookupSafe, DeleteSafe
  <1>4. ASSUME NEW w \in Workers, UpdatePlan(w) PROVE Safe'
    <2>1. Idle \in OpRecords /\ Idle.do = "idle" /\ Idle.id = 0 /\ ~Makes(w)
      BY <1>4, CommandsAssumption DEF UpdatePlan, Idle, OpRecords, Makes
    <2>2. QED
      BY <1>4, <2>1, ReleaseSafe DEF UpdatePlan, Set
  <1>5. CASE Tick \/ UNCHANGED vars
    BY <1>5 DEF Tick, vars, table, Safe, Numbered, RowsDiffer, MakersOwn, HoldersKnow,
                DownIsIdle, SipIdFindsCamera, Makes, Holds
  <1>6. CASE Down \/ Load
    BY <1>6, ProcessSafe
  <1>7. QED
    BY <1>1, <1>2, <1>3, <1>4, <1>5, <1>6 DEF Next, QuietStep

\* The inductive invariant holds of any number of cameras and workers.
THEOREM CommandsInvariantAlways == Spec => []CommandsInv
  <1>1. Init => TypeOK /\ Safe
    BY InitTypeOK, InitSafe
  <1>2. TypeOK /\ Safe /\ [Next]_vars => TypeOK' /\ Safe'
    BY StepType, StepSafe DEF Safe
  <1>3. QED
    BY <1>1, <1>2, PTL DEF Spec, CommandsInv

\* Every command of a client finds the camera it names, and no other.
THEOREM SipIdFindsCameraAlways == Spec => []SipIdFindsCamera
  <1>1. CommandsInv => SipIdFindsCamera
    BY DEF CommandsInv, Safe
  <1>2. QED
    BY <1>1, CommandsInvariantAlways, PTL
-------------------------------------------------------------------------------
(* What a step may not do.                                                 *)

\* What ActsOnItsOwn says of one step.
ActsOnIts ==
    \A i \in Ids :
        /\ rows[i] # "none" /\ rows'[i] = "none" =>
             \E w \in Workers : op[w].do = "delete" /\ op[w].born = born[i]
        /\ i \in planned' \ planned =>
             \E w \in Workers : op[w].do = "plan" /\ op[w].born = born[i]

\* Only the worker that looked a camera up deletes or plans it.
LEMMA ActsStep == CommandsInv /\ [Next]_vars => ActsOnIts
  <1> SUFFICES ASSUME CommandsInv, [Next]_vars PROVE ActsOnIts
    OBVIOUS
  <1>0. TypeOK /\ HoldersKnow
    BY DEF CommandsInv, Safe
  <1>1. CASE UNCHANGED <<rows, planned>>
    BY <1>1 DEF ActsOnIts
  <1>2. ASSUME NEW w \in Workers, QuietStep(w) PROVE ActsOnIts
    BY <1>0, <1>1, <1>2, Quiet DEF table
  <1>3. ASSUME NEW w \in Workers, AddDev(w) PROVE ActsOnIts
    <2>1. UNCHANGED planned /\ \A i \in Ids : rows'[i] = rows[i] \/ rows'[i] \in SipIds
      BY <1>0, <1>3, Added DEF table, TypeOK
    <2>2. QED
      BY <2>1, CommandsAssumption DEF ActsOnIts
  <1>4. ASSUME NEW w \in Workers, AddedRow(w) \/ AddObject(w) \/ Lookup(w) PROVE ActsOnIts
    BY <1>1, <1>4 DEF AddedRow, AddObject, Lookup, table
  <1>5. ASSUME NEW w \in Workers, UpdatePlan(w) PROVE ActsOnIts
    BY <1>0, <1>5 DEF UpdatePlan, ActsOnIts, HoldersKnow, Holds
  <1>6. ASSUME NEW w \in Workers, Delete(w) PROVE ActsOnIts
    BY <1>0, <1>6 DEF Delete, delete_device_sql, ActsOnIts, HoldersKnow, Holds, TypeOK
  <1>7. CASE Tick \/ Down \/ Load \/ UNCHANGED vars
    BY <1>1, <1>7 DEF Tick, Down, Load, vars, table
  <1>8. QED
    BY <1>2, <1>3, <1>4, <1>5, <1>6, <1>7 DEF Next, QuietStep

\* A command never deletes or plans a camera but the one it looked up.
THEOREM ActsOnItsOwnAlways == Spec => ActsOnItsOwn
  <1>1. CommandsInv /\ [Next]_vars => [ActsOnIts]_table
    BY ActsStep
  <1>2. QED
    BY <1>1, CommandsInvariantAlways, PTL DEF Spec, ActsOnItsOwn, ActsOnIts

\* The loop of process_identity keeps the sessions that are not over, and at
\* most one of those that are: it skips the second and no other.
LEMMA EraseLeavesOne ==
    ASSUME TypeOK
    PROVE  /\ \A k \in idens : now < k + Life => k \in EraseExpired
           /\ EraseExpired \subseteq idens
           /\ Cardinality({k \in EraseExpired : now > k + Life}) <= 1
  <1> DEFINE Below(k) == {e \in Expired : e < k}
             left == {k \in EraseExpired : now > k + Life}
  <1>0. Life \in Nat /\ now \in Int /\ idens \subseteq 0..MaxNow /\ MaxNow \in Nat
    BY CommandsAssumption DEF TypeOK
  <1>1. \A k \in left : k \in Expired /\ Cardinality(Below(k)) = 1
    BY DEF EraseExpired, Expired
  <1>2. IsFiniteSet(Expired)
    <2>1. IsFiniteSet(0..MaxNow)
      <3>1. 0 \in Int /\ MaxNow \in Int
        BY <1>0
      <3>2. QED
        BY <3>1, FS_Interval
    <2>2. Expired \subseteq 0..MaxNow
      BY <1>0 DEF Expired
    <2>3. QED
      BY <2>1, <2>2, FS_Subset
  <1>3. ASSUME NEW j \in left, NEW k \in left, j < k PROVE FALSE
    <2>1. j \in Expired /\ Cardinality(Below(j)) = 1 /\ Cardinality(Below(k)) = 1
      BY <1>1
    <2>2. Below(j) \cup {j} \subseteq Below(k) /\ j \notin Below(j)
      <3>1. \A e \in Expired : e \in Int
        BY <1>0 DEF Expired
      <3>2. j \in Int /\ k \in Int
        BY <1>1, <3>1
      <3>3. j \in Below(k)
        BY <1>3, <2>1
      <3>4. ~(j < j)
        BY <3>2
      <3>5. \A e \in Expired : e < j => e < k
        BY <1>3, <3>1, <3>2
      <3>6. QED
        BY <3>3, <3>4, <3>5
    <2>3. IsFiniteSet(Below(j)) /\ IsFiniteSet(Below(k))
      <3>1. Below(j) \subseteq Expired /\ Below(k) \subseteq Expired
        OBVIOUS
      <3>2. QED
        BY <1>2, <3>1, FS_Subset
    <2> HIDE DEF Below
    <2>4. Cardinality(Below(j) \cup {j}) = 2
      BY <2>1, <2>2, <2>3, FS_AddElement
    <2>5. Cardinality(Below(j) \cup {j}) <= Cardinality(Below(k))
      BY <2>2, <2>3, FS_Subset
    <2>6. QED
      BY <2>1, <2>4, <2>5
  <1>4. \A j, k \in left : j = k
    <2>1. \A k \in left : k \in Int
      BY <1>0 DEF EraseExpired, Expired
    <2>2. \A j, k \in left : ~(j < k)
      BY <1>3
    <2> HIDE DEF left
    <2>3. QED
      BY <2>1, <2>2
  <1>5. Cardinality(left) <= 1
    <2> HIDE DEF left
    <2>1. CASE left = {}
      BY <2>1, FS_EmptySet
    <2>2. CASE left # {}
      <3>1. PICK k : k \in left
        BY <2>2
      <3>2. left = {k}
        BY <1>4, <3>1
      <3>3. QED
        BY <3>2, FS_Singleton
    <2>3. QED
      BY <2>1, <2>2
  <1>6. \A k \in idens : now < k + Life => k \in EraseExpired
    BY <1>0 DEF EraseExpired, Expired
  <1>7. QED
    BY <1>5, <1>6 DEF EraseExpired, Expired

\* What SessionsKept says of one step.
KeepsSessions ==
    up' => /\ \A k \in idens : now < k + Life => k \in idens'
           /\ (\E w \in Workers : op[w].do = "idle" /\ op'[w].do = "command") =>
                 Cardinality({k \in idens' : now > k + Life}) <= 1

\* Only process_identity ends sessions or lets a command in.
LEMMA SessionsStep == TypeOK /\ [Next]_vars => KeepsSessions
  <1> SUFFICES ASSUME TypeOK, [Next]_vars PROVE KeepsSessions
    OBVIOUS
  <1> DEFINE Lets == \E w \in Workers : op[w].do = "idle" /\ op'[w].do = "command"
  <1>1. CASE idens \subseteq idens' /\ ~Lets
    BY <1>1 DEF KeepsSessions
  <1>2. ASSUME NEW w \in Workers, NEW o, op' = [op EXCEPT ![w] = o],
               op[w].do # "idle" \/ o.do # "command"
        PROVE  ~Lets
    BY <1>2 DEF TypeOK
  <1>3. Idle.do = "idle"
    BY DEF Idle
  <1>4. ASSUME NEW w \in Workers, Identity(w) PROVE KeepsSessions
    <2>1. PICK k \in idens :
             IF now < k + Life
             THEN idens' = EraseExpired /\ Set(w, [Idle EXCEPT !.do = "command"])
             ELSE idens' = idens \ {k} /\ UNCHANGED op
      BY <1>4 DEF Identity
    <2>2. CASE now < k + Life
      BY <2>1, <2>2, EraseLeavesOne DEF KeepsSessions
    <2>3. CASE ~(now < k + Life)
      BY <2>1, <2>3 DEF KeepsSessions
    <2>4. QED
      BY <2>2, <2>3
  <1>5. ASSUME NEW w \in Workers, Login(w) PROVE KeepsSessions
    BY <1>1, <1>5 DEF Login
  <1>6. ASSUME NEW w \in Workers, Answered(w) \/ SetTime(w) PROVE KeepsSessions
    BY <1>1, <1>2, <1>3, <1>6 DEF Answered, SetTime, Set
  <1>7. ASSUME NEW w \in Workers, List(w) \/ ListDeleted(w) PROVE KeepsSessions
    <2>1. op[w].do # "idle" /\ idens' = idens
      BY <1>7 DEF List, ListDeleted
    <2>2. ~Lets
      BY <1>2, <1>7, <2>1 DEF List, ListDeleted, Set
    <2>3. QED
      BY <1>1, <2>1, <2>2
  <1>8. ASSUME NEW w \in Workers,
               AddDev(w) \/ AddedRow(w) \/ AddObject(w) \/ Lookup(w) \/ UpdatePlan(w) \/ Delete(w)
        PROVE  KeepsSessions
    <2>1. op[w].do # "idle" /\ idens' = idens
      BY <1>8 DEF AddDev, AddedRow, AddObject, Lookup, UpdatePlan, Delete
    <2>2. \E o : op' = [op EXCEPT ![w] = o]
      BY <1>8, Added, LookedUp DEF AddedRow, AddObject, UpdatePlan, Delete, Set
    <2>3. QED
      BY <1>1, <1>2, <2>1, <2>2
  <1>9. CASE Tick \/ UNCHANGED vars
    BY <1>1, <1>9 DEF Tick, vars
  <1>10. CASE Down
    BY <1>10 DEF Down, KeepsSessions
  <1>11. CASE Load
    BY <1>1, <1>11 DEF Load
  <1>12. QED
    BY <1>4, <1>5, <1>6, <1>7, <1>8, <1>9, <1>10, <1>11
    DEF Next, Request, StartDev, StopDev, UpdateDev, OtherCommand, Search, Get, GetDev,
        GetTracks, GetSip, SetConf, SetNone

\* No request ends a session of another client that is not over, and one that is
\* let in leaves at most one behind that is.
THEOREM SessionsKeptAlways == Spec => SessionsKept
  <1>1. CommandsInv /\ [Next]_vars => [KeepsSessions]_<<idens, op>>
    BY SessionsStep DEF CommandsInv
  <1>2. QED
    BY <1>1, CommandsInvariantAlways, PTL DEF Spec, SessionsKept, KeepsSessions
===============================================================================
