------------------------------ MODULE TransferProofs ----------------------------
(***************************************************************************)
(* Proofs about Transfer, for any clients, objects and threads.  What is   *)
(* said of a thread is said of one that is alone in its object (Alone).    *)
(*                                                                         *)
(* A thread finds its object and its subscriber because an object is in    *)
(* one place (OnePlace), because whoever stops it holds the lock with the  *)
(* object still in m_transfer_map (LockCoherent), and because m_brun is    *)
(* cleared under a running thread only by a stop that waits for it         *)
(* (StopWaits).                                                            *)
(***************************************************************************)
EXTENDS Transfer, TLAPS

\* A thread that runs has an object and a client; one that waits for the lock to
\* stop its client knows the client.
ThreadKnows ==
    \A t \in Threads :
        /\ pc[t] \in Live => own[t] \in Objects
        /\ pc[t] # "none" => key[t] \in Dests

\* An object is under one key of one of the maps.
OnePlace ==
    /\ \A d, e \in Dests : used[d] # 0 /\ used[d] = used[e] => d = e
    /\ \A d, e \in Dests : unused[d] # 0 /\ unused[d] = unused[e] => d = e
    /\ \A d, e \in Dests : used[d] # 0 => used[d] # unused[e]

\* The lock is held for an object in m_transfer_map, or with none to stop; when
\* the camera's context is destroyed the map is empty.
Stops == lock.op \in {"del", "stop", "delete"}
LockCoherent ==
    /\ Stops => lock.key \in Dests /\ used[lock.key] # 0
    /\ ~Stops => lock.key = 0 /\ ~lock.wait
    /\ lock.op = "uninit" => \A d \in Dests : used[d] = 0

\* A thread runs with m_brun set, or its object is being stopped by one who waits
\* for it; its subscriber is open, and the camera publishes.
StopWaits ==
    \A t \in Threads : pc[t] \in Live /\ Alone(t) =>
        IF Stops /\ used[lock.key] = own[t] THEN lock.wait ELSE brun[own[t]]
SubIsOpen == \A t \in Threads : pc[t] \in Live /\ Alone(t) => sub[own[t]] /\ Publishes

Safe ==
    /\ ThreadKnows /\ OnePlace /\ LockCoherent /\ StopWaits /\ SubIsOpen
    /\ SenderIsListed /\ (wsub => Publishes)

IInv == TypeOK /\ Safe

\* A thread that runs has an object and a client.
LEMMA Known ==
    ASSUME Safe, NEW t \in Threads, pc[t] \in Live
    PROVE  own[t] \in Objects /\ key[t] \in Dests
  BY DEF Safe, ThreadKnows, Live

\* The object a thread is alone in is in m_transfer_map.
LEMMA Running ==
    ASSUME TypeOK, Safe, NEW t \in Threads, pc[t] \in Live, Alone(t)
    PROVE  /\ own[t] \in Objects /\ key[t] \in Dests /\ used[key[t]] = own[t]
           /\ own[t] # 0 /\ own[t] \in alive /\ handle[own[t]] = t /\ t # 0
           /\ sub[own[t]] /\ Publishes
           /\ \A u \in Threads : pc[u] \in Live /\ own[u] = own[t] => u = t
  <1>1. own[t] \in Objects /\ key[t] \in Dests /\ used[key[t]] = own[t]
    BY Known DEF Safe, SenderIsListed
  <1>2. own[t] # 0 /\ t # 0
    BY <1>1, TransferAssumption
  <1>3. own[t] \in alive
    BY <1>1, <1>2 DEF TypeOK
  <1>4. QED
    BY <1>1, <1>2, <1>3 DEF Safe, SenderIsListed, SubIsOpen, Alone

\* What the lock is held for.
LockRecords ==
    [op : {"free", "del", "stop", "delete", "uninit", "login"},
     key : Dests \cup {0}, wait : BOOLEAN]

\* The lock is Free when it says so.
LEMMA FreeLock ==
    /\ Free \in LockRecords /\ Free.op = "free" /\ Free.key = 0 /\ ~Free.wait
    /\ \A o \in {"uninit", "login"} :
          LET l == [Free EXCEPT !.op = o] IN
              l \in LockRecords /\ l.op = o /\ l.key = 0 /\ ~l.wait
  BY DEF Free, LockRecords

\* The call that stops one object and goes on with those that are left, if any.
LEMMA NextStop ==
    ASSUME TypeOK, NEW op \in {"stop", "delete"}, NEW left \in SUBSET Dests,
           \A d \in left : used[d] # 0, StopNext(op, left)
    PROVE  /\ lock' \in LockRecords
           /\ \/ /\ left = {} /\ lock'.op \in {"free", "uninit"} /\ lock'.key = 0 /\ ~lock'.wait
              \/ \E d \in left : lock'.op = op /\ lock'.key = d /\ lock'.wait = brun[used[d]]
  <1>1. CASE left = {} /\ lock' = Free
    BY <1>1, FreeLock
  <1>2. CASE left = {} /\ lock' = [Free EXCEPT !.op = "uninit"]
    BY <1>2, FreeLock
  <1>3. ASSUME NEW d \in left, lock' = [op |-> op, key |-> d, wait |-> brun[used[d]]]
        PROVE  /\ lock' \in LockRecords
               /\ lock'.op = op /\ lock'.key = d /\ lock'.wait = brun[used[d]]
    <2>1. used[d] \in Objects
      BY DEF TypeOK
    <2>2. brun[used[d]] \in BOOLEAN
      BY <2>1 DEF TypeOK
    <2>3. QED
      BY <1>3, <2>2 DEF LockRecords
  <1>4. QED
    BY <1>1, <1>2, <1>3 DEF StopNext, delete_stream_mem

\* start_transfer begins a thread, or none.
LEMMA Started ==
    ASSUME TypeOK, NEW o \in Objects, NEW d \in Dests, Start(o, d)
    PROVE  /\ brun' = [brun EXCEPT ![o] = TRUE]
           /\ handle' \in [Objects -> Threads \cup {0}] /\ sub' \in [Objects -> BOOLEAN]
           /\ leaked' \in BOOLEAN /\ doubled' \subseteq Objects
           /\ pc' \in [Threads -> Live \cup {"none", "waits"}]
           /\ own' \in [Threads -> Objects \cup {0}] /\ key' \in [Threads -> Dests \cup {0}]
           /\ \/ UNCHANGED <<handle, sub, thread>>
              \/ \E t \in Threads :
                    /\ pc' = [pc EXCEPT ![t] = "born"] /\ own' = [own EXCEPT ![t] = o]
                    /\ key' = [key EXCEPT ![t] = d] /\ sub' = [sub EXCEPT ![o] = TRUE]
                    /\ handle' = [handle EXCEPT ![o] = t]
  <1>1. CASE UNCHANGED <<handle, sub, leaked, thread>>
    BY <1>1 DEF Start, TypeOK, thread
  <1>2. ASSUME NEW t \in Threads, pc[t] = "none", pc' = [pc EXCEPT ![t] = "born"],
               Aim(t, o, d), Subscribe(o), handle' = [handle EXCEPT ![o] = t]
        PROVE  /\ handle' \in [Objects -> Threads \cup {0}] /\ sub' \in [Objects -> BOOLEAN]
               /\ leaked' \in BOOLEAN
               /\ pc' \in [Threads -> Live \cup {"none", "waits"}]
               /\ own' \in [Threads -> Objects \cup {0}] /\ key' \in [Threads -> Dests \cup {0}]
               /\ own' = [own EXCEPT ![t] = o]
               /\ key' = [key EXCEPT ![t] = d] /\ sub' = [sub EXCEPT ![o] = TRUE]
    BY <1>2 DEF Aim, Subscribe, TypeOK, Live
  <1>3. doubled' \subseteq Objects
    BY DEF Start, TypeOK
  <1>4. QED
    BY <1>1, <1>2, <1>3 DEF Start

\* A thread that is alone after start_transfer was alone before, and in another object.
LEMMA AloneElsewhere ==
    ASSUME NEW o \in Objects, NEW d \in Dests, Start(o, d)
    PROVE  /\ \A t \in Threads :
                 pc[t] \in Live /\ own[t] \notin doubled' => Alone(t) /\ own[t] # o
           /\ o \notin doubled' => LiveThreads(o) = {}
  <1>1. doubled' = IF LiveThreads(o) = {} THEN doubled \ {o} ELSE doubled \cup {o}
    BY DEF Start
  <1>2. ASSUME NEW t \in Threads, pc[t] \in Live, own[t] \notin doubled'
        PROVE  Alone(t) /\ own[t] # o
    BY <1>1, <1>2 DEF LiveThreads, Alone
  <1>3. QED
    BY <1>1, <1>2
-------------------------------------------------------------------------------
(* add_dest.                                                               *)

\* The object a client is served by is in no other place.
LEMMA AddedObject ==
    ASSUME TypeOK, Safe, NEW d \in Dests, AddDest(d)
    PROVE  \E o \in Objects :
              /\ Start(o, d)
              /\ used[d] \in {0, o} /\ used' = [used EXCEPT ![d] = o]
              /\ \A e \in Dests \ {d} : used[e] # o
              /\ \A e \in Dests : unused'[e] \in {0, unused[e]} /\ unused'[e] # o
              /\ unused' \in [Dests -> Objects \cup {0}]
              /\ alive \subseteq alive' /\ alive' \subseteq Objects /\ o \in alive'
  <1> USE TransferAssumption
  <1>1. CASE NewObject(d)
    <2>1. PICK o \in Objects \ alive :
             alive' = alive \cup {o} /\ used' = [used EXCEPT ![d] = o] /\ Start(o, d)
      BY <1>1 DEF NewObject
    <2>2. used[d] = 0 /\ unused' = unused
      BY <1>1 DEF NewObject
    <2>3. \A e \in Dests : used[e] # o /\ unused[e] # o
      BY <2>1 DEF TypeOK
    <2>4. QED
      BY <2>1, <2>2, <2>3 DEF TypeOK
  <1>2. CASE UseAgain(d)
    <2>1. PICK f \in Dests :
             /\ unused[f] # 0 /\ used' = [used EXCEPT ![d] = unused[f]]
             /\ unused' = [unused EXCEPT ![f] = 0] /\ Start(unused[f], d)
      BY <1>2 DEF UseAgain
    <2> DEFINE o == unused[f]
    <2>2. o \in Objects /\ o \in alive /\ o # 0
      BY <2>1 DEF TypeOK
    <2>3. \A e \in Dests : used[e] # o /\ unused'[e] \in {0, unused[e]} /\ unused'[e] # o
      BY <2>1, <2>2 DEF Safe, OnePlace, TypeOK
    <2>4. unused' \in [Dests -> Objects \cup {0}] /\ alive' = alive /\ used[d] = 0
      BY <1>2, <2>1 DEF UseAgain, TypeOK
    <2>5. QED
      BY <2>1, <2>2, <2>3, <2>4 DEF TypeOK
  <1>3. CASE StartAgain(d)
    <2> DEFINE o == used[d]
    <2>1. o # 0 /\ Start(o, d) /\ UNCHANGED maps
      BY <1>3 DEF StartAgain
    <2>2. o \in Objects /\ o \in alive
      BY <2>1 DEF TypeOK
    <2>3. \A e \in Dests : unused[e] # o /\ (e # d => used[e] # o)
      BY <2>1 DEF Safe, OnePlace
    <2>4. used' = [used EXCEPT ![d] = o]
      BY <2>1 DEF maps, TypeOK
    <2>5. QED
      BY <2>1, <2>2, <2>3, <2>4 DEF maps, TypeOK
  <1>4. QED
    BY <1>1, <1>2, <1>3 DEF AddDest

\* A destination that is added gets an object no thread that is alone has.
LEMMA AddDestKeeps ==
    ASSUME TypeOK, Safe, NEW d \in Dests, AddDest(d)
    PROVE  TypeOK' /\ Safe'
  <1> USE TransferAssumption
  <1>1. PICK o \in Objects :
              /\ Start(o, d)
              /\ used[d] \in {0, o} /\ used' = [used EXCEPT ![d] = o]
              /\ \A e \in Dests \ {d} : used[e] # o
              /\ \A e \in Dests : unused'[e] \in {0, unused[e]} /\ unused'[e] # o
              /\ unused' \in [Dests -> Objects \cup {0}]
              /\ alive \subseteq alive' /\ alive' \subseteq Objects /\ o \in alive'
    BY AddedObject
  <1>2. lock = Free /\ cam = "running" /\ UNCHANGED <<cam, wsub, lock>>
    BY DEF AddDest
  <1>3. /\ brun'[o] /\ brun' \in [Objects -> BOOLEAN]
        /\ \A e \in Objects \ {o} : brun'[e] = brun[e]
    <2>1. brun' = [brun EXCEPT ![o] = TRUE]
      BY <1>1, Started
    <2>2. QED
      BY <2>1 DEF TypeOK
  <1>4. /\ used'[d] = o /\ \A e \in Dests \ {d} : used'[e] = used[e]
        /\ used' \in [Dests -> Objects \cup {0}]
    BY <1>1 DEF TypeOK
  <1>5. \A e \in Dests : {used'[e], unused'[e]} \subseteq alive' \cup {0}
    BY <1>1, <1>4 DEF TypeOK
  <1>6. TypeOK'
    <2>1. /\ handle' \in [Objects -> Threads \cup {0}] /\ sub' \in [Objects -> BOOLEAN]
          /\ leaked' \in BOOLEAN /\ doubled' \subseteq Objects
          /\ pc' \in [Threads -> Live \cup {"none", "waits"}]
          /\ own' \in [Threads -> Objects \cup {0}] /\ key' \in [Threads -> Dests \cup {0}]
      BY <1>1, Started
    <2>2. QED
      BY <1>1, <1>2, <1>3, <1>4, <1>5, <2>1 DEF TypeOK
  <1>7. OnePlace'
    BY <1>1, <1>4 DEF Safe, OnePlace
  <1>8. LockCoherent' /\ ~Stops /\ ~Stops'
    BY <1>2, FreeLock DEF LockCoherent, Stops
  <1>9. \A t \in Threads : pc[t] \in Live /\ own[t] \notin doubled' =>
            /\ own[t] # o /\ used'[key[t]] = own[t] /\ handle[own[t]] = t
            /\ own[t] \in Objects /\ brun'[own[t]] /\ sub[own[t]] /\ Publishes
    <2>1. ASSUME NEW t \in Threads, pc[t] \in Live, own[t] \notin doubled'
          PROVE  /\ own[t] # o /\ used'[key[t]] = own[t] /\ handle[own[t]] = t
                 /\ own[t] \in Objects /\ brun'[own[t]] /\ sub[own[t]] /\ Publishes
      <3>1. own[t] # o /\ Alone(t)
        BY <1>1, <2>1, AloneElsewhere
      <3>2. key[t] # d
        BY <1>1, <2>1, <3>1, Running
      <3>3. brun[own[t]]
        BY <1>8, <2>1, <3>1 DEF Safe, StopWaits
      <3>4. QED
        BY <1>3, <1>4, <2>1, <3>1, <3>2, <3>3, Running
    <2>2. QED
      BY <2>1
  <1>10. CASE UNCHANGED <<handle, sub, thread>>
    <2>1. StopWaits' /\ SubIsOpen' /\ SenderIsListed'
      BY <1>2, <1>8, <1>9, <1>10
      DEF thread, StopWaits, SubIsOpen, SenderIsListed, Publishes, Alone
    <2>2. ThreadKnows' /\ (wsub' => Publishes')
      BY <1>2, <1>10 DEF thread, Safe, ThreadKnows, Publishes
    <2>3. QED
      BY <1>6, <1>7, <1>8, <2>1, <2>2 DEF Safe
  <1>11. ASSUME NEW t \in Threads, pc' = [pc EXCEPT ![t] = "born"], own' = [own EXCEPT ![t] = o],
                key' = [key EXCEPT ![t] = d], sub' = [sub EXCEPT ![o] = TRUE],
                handle' = [handle EXCEPT ![o] = t]
         PROVE  TypeOK' /\ Safe'
    <2>1. /\ pc'[t] = "born" /\ own'[t] = o /\ key'[t] = d
          /\ \A u \in Threads \ {t} : pc'[u] = pc[u] /\ own'[u] = own[u] /\ key'[u] = key[u]
          /\ sub'[o] /\ \A e \in Objects \ {o} : sub'[e] = sub[e]
          /\ handle'[o] = t /\ \A e \in Objects \ {o} : handle'[e] = handle[e]
      BY <1>11 DEF TypeOK
    <2>2. ThreadKnows'
      BY <2>1 DEF Safe, ThreadKnows
    <2>3. SenderIsListed'
      BY <1>4, <1>9, <2>1 DEF SenderIsListed, Alone
    <2>4. StopWaits'
      BY <1>3, <1>8, <1>9, <2>1 DEF StopWaits, Alone
    <2>5. SubIsOpen' /\ (wsub' => Publishes')
      BY <1>2, <1>9, <2>1 DEF Safe, SubIsOpen, Publishes, Alone
    <2>6. QED
      BY <1>6, <1>7, <1>8, <2>2, <2>3, <2>4, <2>5 DEF Safe
  <1>12. QED
    BY <1>1, <1>10, <1>11, Started
-------------------------------------------------------------------------------
(* The calls that stop: del_dest, stop_stream and their ends.              *)

\* del_dest of a client that is served, by a command or by a thread that gave up:
\* m_brun is cleared, and whoever runs with the object is waited for.
LEMMA BeginStopKeeps ==
    ASSUME TypeOK, Safe, NEW d \in Dests, lock = Free, used[d] # 0, BeginStop("del", d),
           UNCHANGED <<cam, wsub, maps, handle, sub, doubled>>,
           \A t \in Threads :
               \/ pc'[t] = pc[t] /\ own'[t] = own[t] /\ key'[t] = key[t]
               \/ pc'[t] = "none"
    PROVE  /\ lock' \in LockRecords /\ brun' \in [Objects -> BOOLEAN]
           /\ Safe'
  <1> USE TransferAssumption
  <1> DEFINE o == used[d]
  <1>1. o \in Objects
    BY DEF TypeOK
  <1>2. /\ lock' = [op |-> "del", key |-> d, wait |-> brun[o]]
        /\ brun' = [brun EXCEPT ![o] = FALSE]
    BY DEF BeginStop
  <1>3. brun[o] \in BOOLEAN
    BY <1>1 DEF TypeOK
  <1>4. /\ lock' \in LockRecords /\ lock'.op = "del" /\ lock'.key = d /\ lock'.wait = brun[o]
        /\ used' = used
    BY <1>2, <1>3 DEF LockRecords, maps
  <1>5. brun' \in [Objects -> BOOLEAN] /\ \A e \in Objects \ {o} : brun'[e] = brun[e]
    BY <1>1, <1>2 DEF TypeOK
  <1> HIDE DEF o
  <1>6. ~Stops /\ Stops'
    BY <1>4, FreeLock DEF Stops
  <1>7. LockCoherent'
    BY <1>4, <1>6 DEF LockCoherent, o
  <1>8. \A t \in Threads : pc'[t] \in Live =>
           pc[t] \in Live /\ own'[t] = own[t] /\ key'[t] = key[t]
    BY DEF Live
  <1>9. StopWaits'
    <2>1. ASSUME NEW t \in Threads, pc'[t] \in Live, own'[t] \notin doubled
          PROVE  IF Stops' /\ used'[lock'.key] = own'[t] THEN lock'.wait ELSE brun'[own'[t]]
      <3>1. own[t] \in Objects /\ brun[own[t]]
        BY <1>6, <1>8, <2>1, Running DEF Safe, StopWaits, Alone
      <3>2. CASE own[t] = o
        BY <1>4, <1>6, <1>8, <2>1, <3>1, <3>2 DEF o
      <3>3. CASE own[t] # o
        BY <1>4, <1>5, <1>8, <2>1, <3>1, <3>3 DEF o
      <3>4. QED
        BY <3>2, <3>3
    <2>2. QED
      BY <2>1 DEF StopWaits, Alone
  <1>10. ThreadKnows' /\ OnePlace' /\ SubIsOpen' /\ SenderIsListed' /\ (wsub' => Publishes')
    BY <1>8 DEF Safe, ThreadKnows, OnePlace, SubIsOpen, SenderIsListed, Publishes, Alone, maps
  <1>11. QED
    BY <1>4, <1>5, <1>7, <1>9, <1>10 DEF Safe

\* The call that removes a destination keeps the invariant while it waits.
LEMMA DelDestKeeps ==
    ASSUME TypeOK, Safe, NEW d \in Dests, DelDest(d)
    PROVE  TypeOK' /\ Safe'
  <1>1. lock' \in LockRecords /\ brun' \in [Objects -> BOOLEAN] /\ Safe'
    BY BeginStopKeeps DEF DelDest, thread
  <1>2. QED
    BY <1>1 DEF DelDest, maps, thread, TypeOK, LockRecords

\* A thread that gives up takes its destination out of the map.
LEMMA GiveUpKeeps ==
    ASSUME TypeOK, Safe, NEW t \in Threads, GiveUp(t)
    PROVE  TypeOK' /\ Safe'
  <1> USE TransferAssumption
  <1>1. /\ pc[t] = "waits" /\ lock = Free /\ Gone(t) /\ key[t] \in Dests
        /\ UNCHANGED <<cam, wsub, maps, handle, sub, leaked, doubled>>
    BY DEF GiveUp, Safe, ThreadKnows
  <1>2. /\ pc'[t] = "none"
        /\ \A u \in Threads \ {t} : pc'[u] = pc[u] /\ own'[u] = own[u] /\ key'[u] = key[u]
        /\ pc' \in [Threads -> Live \cup {"none", "waits"}]
        /\ own' \in [Threads -> Objects \cup {0}] /\ key' \in [Threads -> Dests \cup {0}]
    BY <1>1 DEF Gone, TypeOK
  <1>3. CASE used[key[t]] # 0 /\ BeginStop("del", key[t])
    <2>1. lock' \in LockRecords /\ brun' \in [Objects -> BOOLEAN] /\ Safe'
      BY <1>1, <1>2, <1>3, BeginStopKeeps
    <2>2. QED
      BY <1>1, <1>2, <2>1 DEF maps, TypeOK, LockRecords
  <1>4. CASE UNCHANGED <<lock, brun>>
    <2>1. TypeOK'
      BY <1>1, <1>2, <1>4 DEF maps, TypeOK
    <2>2. \A u \in Threads : pc'[u] \in Live =>
             pc[u] \in Live /\ own'[u] = own[u] /\ key'[u] = key[u]
      BY <1>2 DEF Live
    <2>3. Safe'
      BY <1>1, <1>2, <1>4, <2>2
      DEF Safe, ThreadKnows, OnePlace, LockCoherent, StopWaits, SubIsOpen, SenderIsListed,
          Publishes, Stops, Alone, maps
    <2>4. QED
      BY <2>1, <2>3
  <1>5. QED
    BY <1>3, <1>4 DEF GiveUp

\* Stopping or deleting the stream begins with one destination of the map.
LEMMA StopStreamKeeps ==
    ASSUME TypeOK, Safe, NEW op \in {"stop", "delete"}, StopStream(op)
    PROVE  TypeOK' /\ Safe'
  <1> USE TransferAssumption
  <1> DEFINE left == {d \in Dests : used[d] # 0}
  <1>1. /\ lock = Free /\ cam # "gone" /\ StopNext(op, left)
        /\ brun' = [o \in Objects |-> brun[o] /\ ~(lock'.key # 0 /\ used[lock'.key] = o)]
        /\ UNCHANGED <<maps, handle, sub, leaked, doubled, thread>>
    BY DEF StopStream
  <1>2. /\ cam' \in {"running", "silent", "lost", "gone"} /\ wsub' \in BOOLEAN
        /\ cam' # "gone"
    BY <1>1 DEF StopStream, StopReceiving, TypeOK
  <1>3. /\ lock' \in LockRecords
        /\ \/ /\ left = {} /\ lock'.op \in {"free", "uninit"} /\ lock'.key = 0 /\ ~lock'.wait
           \/ \E d \in left : lock'.op = op /\ lock'.key = d /\ lock'.wait = brun[used[d]]
    BY <1>1, NextStop
  <1>4. brun' \in [Objects -> BOOLEAN]
    BY <1>1 DEF TypeOK
  <1>5. TypeOK'
    BY <1>1, <1>2, <1>3, <1>4 DEF TypeOK, LockRecords, maps, thread
  <1>6. /\ LockCoherent' /\ (Stops' => lock'.key # 0)
        /\ lock'.key = 0 \/ (Stops' /\ lock'.wait = brun[used[lock'.key]])
    BY <1>1, <1>3 DEF LockCoherent, Stops, maps
  <1>7. StopWaits'
    <2>1. ASSUME NEW t \in Threads, pc[t] \in Live, Alone(t)
          PROVE  IF Stops' /\ used[lock'.key] = own[t] THEN lock'.wait ELSE brun'[own[t]]
      <3>1. own[t] \in Objects /\ brun[own[t]]
        BY <1>1, <2>1, Running, FreeLock DEF Safe, StopWaits, Stops
      <3>2. brun'[own[t]] \/ (lock'.key # 0 /\ used[lock'.key] = own[t])
        BY <1>1, <3>1
      <3>3. QED
        BY <1>6, <3>1, <3>2
    <2>2. QED
      BY <1>1, <2>1 DEF StopWaits, Alone, maps, thread
  <1>8. ThreadKnows' /\ OnePlace' /\ SubIsOpen' /\ SenderIsListed' /\ (wsub' => Publishes')
    BY <1>1, <1>2 DEF Safe, ThreadKnows, OnePlace, SubIsOpen, SenderIsListed, Publishes, Alone, maps, thread
  <1>9. QED
    BY <1>5, <1>6, <1>7, <1>8 DEF Safe

\* When stop_transfer is done with its wait no thread runs with the object, unless the
\* object was started again.
LEMMA NoneRuns ==
    ASSUME TypeOK, Safe, Stops, EndStop(used[lock.key]), used[lock.key] \notin doubled
    PROVE  LiveThreads(used[lock.key]) = {}
  <1>1. SUFFICES ASSUME NEW t \in Threads, pc[t] \in Live, own[t] = used[lock.key],
                        LiveThreads(used[lock.key]) # {}
                 PROVE  FALSE
    BY DEF LiveThreads
  <1>2. handle[own[t]] # 0
    BY <1>1, Running DEF Alone
  <1>3. lock.wait
    BY <1>1 DEF Safe, StopWaits, Alone
  <1>4. QED
    BY <1>1, <1>2, <1>3 DEF EndStop, CannotClear

\* The object that was stopped leaves m_transfer_map: no thread is alone in it, and
\* it is in no other place.
LEMMA StoppedLeaves ==
    ASSUME TypeOK, Safe, Stops, NEW o \in Objects, o = used[lock.key], EndStop(o),
           used' = [used EXCEPT ![lock.key] = 0], UNCHANGED <<cam, wsub, leaked, doubled, thread>>,
           \A e \in Objects \ {o} : handle'[e] = handle[e]
    PROVE  /\ sub' \in [Objects -> BOOLEAN] /\ used' \in [Dests -> Objects \cup {0}]
           /\ \A d \in Dests : used'[d] # o /\ (used'[d] # 0 => used'[d] = used[d])
           /\ \A d \in Dests : unused[d] # o
           /\ \A t \in Threads : pc[t] \in Live /\ Alone(t) => own[t] # o
           /\ ThreadKnows' /\ SubIsOpen' /\ SenderIsListed' /\ (wsub' => Publishes')
  <1> USE TransferAssumption
  <1>1. lock.key \in Dests /\ o # 0
    BY DEF Safe, LockCoherent
  <1>2. used'[lock.key] = 0 /\ \A d \in Dests \ {lock.key} : used'[d] = used[d]
    BY <1>1 DEF TypeOK
  <1>3. \A d \in Dests : /\ unused[d] # o
                         /\ used'[d] # o /\ (used'[d] # 0 => used'[d] = used[d])
    BY <1>1, <1>2 DEF Safe, OnePlace
  <1>4. /\ sub' \in [Objects -> BOOLEAN] /\ used' \in [Dests -> Objects \cup {0}]
        /\ \A e \in Objects \ {o} : sub'[e] = sub[e]
    BY DEF EndStop, Unsubscribe, TypeOK
  <1>5. \A t \in Threads : pc[t] \in Live /\ Alone(t) => own[t] # o /\ key[t] # lock.key
    BY <1>1, NoneRuns, Running DEF LiveThreads, Alone
  <1>6. ThreadKnows' /\ SubIsOpen' /\ SenderIsListed' /\ (wsub' => Publishes')
    BY <1>2, <1>4, <1>5, Running
    DEF Safe, ThreadKnows, SubIsOpen, SenderIsListed, Publishes, Alone, thread
  <1>7. QED
    BY <1>3, <1>4, <1>5, <1>6

\* The end of del_dest: the object waits to be used again, or is in no map at all.
LEMMA FinishDelKeeps ==
    ASSUME TypeOK, Safe, FinishStop, lock.op = "del", lock' = Free
    PROVE  TypeOK' /\ Safe'
  <1> USE TransferAssumption
  <1> DEFINE o == used[lock.key]
  <1>1. Stops /\ lock.key \in Dests /\ o # 0 /\ o \in Objects /\ o \in alive
    BY DEF Stops, Safe, LockCoherent, TypeOK
  <1>2. /\ EndStop(o) /\ used' = [used EXCEPT ![lock.key] = 0]
        /\ unused' = [unused EXCEPT ![lock.key] = IF @ = 0 THEN o ELSE @]
        /\ brun' = [brun EXCEPT ![o] = FALSE]
        /\ UNCHANGED <<alive, handle, cam, wsub, leaked, doubled, thread>>
    BY DEF FinishStop
  <1> HIDE DEF o
  <1>3. /\ sub' \in [Objects -> BOOLEAN] /\ used' \in [Dests -> Objects \cup {0}]
        /\ \A d \in Dests : used'[d] # o /\ (used'[d] # 0 => used'[d] = used[d])
        /\ \A d \in Dests : unused[d] # o
        /\ \A t \in Threads : pc[t] \in Live /\ Alone(t) => own[t] # o
        /\ ThreadKnows' /\ SubIsOpen' /\ SenderIsListed' /\ (wsub' => Publishes')
    BY <1>1, <1>2, StoppedLeaves DEF o
  <1>4. /\ \A d \in Dests \ {lock.key} : unused'[d] = unused[d]
        /\ unused'[lock.key] = o \/ unused' = unused
        /\ unused' \in [Dests -> Objects \cup {0}]
        /\ \A e \in Objects \ {o} : brun'[e] = brun[e]
        /\ brun' \in [Objects -> BOOLEAN]
    BY <1>1, <1>2 DEF TypeOK
  <1>5. \A d \in Dests : {used'[d], unused'[d]} \subseteq alive' \cup {0}
    BY <1>1, <1>2, <1>3, <1>4 DEF TypeOK
  <1>6. TypeOK'
    BY <1>2, <1>3, <1>4, <1>5, FreeLock DEF TypeOK, LockRecords, thread
  <1>7. OnePlace'
    <2>1. \A d, e \in Dests : used'[d] # 0 /\ used'[d] = used'[e] => d = e
      BY <1>3 DEF Safe, OnePlace
    <2>2. \A d, e \in Dests : unused'[d] # 0 /\ unused'[d] = unused'[e] => d = e
      BY <1>3, <1>4 DEF Safe, OnePlace
    <2>3. \A d, e \in Dests : used'[d] # 0 => used'[d] # unused'[e]
      BY <1>3, <1>4 DEF Safe, OnePlace
    <2>4. QED
      BY <2>1, <2>2, <2>3 DEF OnePlace
  <1>8. ~Stops' /\ LockCoherent'
    BY FreeLock DEF Stops, LockCoherent
  <1>9. StopWaits'
    <2>1. ASSUME NEW t \in Threads, pc[t] \in Live, Alone(t) PROVE brun'[own[t]]
      <3>1. own[t] \in Objects \ {o}
        BY <1>3, <2>1, Running
      <3>2. brun[own[t]]
        BY <2>1, <3>1 DEF Safe, StopWaits, o
      <3>3. QED
        BY <1>4, <3>1, <3>2
    <2>2. QED
      BY <1>2, <1>8, <2>1 DEF StopWaits, Alone, thread
  <1>10. QED
    BY <1>3, <1>6, <1>7, <1>8, <1>9 DEF Safe

\* The end of one stop of stop_stream: the object is deleted and the next one asked.
LEMMA FinishNextKeeps ==
    ASSUME TypeOK, Safe, FinishStop, lock.op # "del",
           StopNext(lock.op, {d \in Dests \ {lock.key} : used[d] # 0}),
           Deleted({used[lock.key]}), unused' = unused,
           brun' = [e \in Objects |-> brun[e] /\ e # used[lock.key] /\
                                ~(lock'.key # 0 /\ used[lock'.key] = e)]
    PROVE  TypeOK' /\ Safe'
  <1> USE TransferAssumption
  <1> DEFINE o == used[lock.key]
             left == {d \in Dests \ {lock.key} : used[d] # 0}
  <1>1. /\ Stops /\ lock.key \in Dests /\ o # 0 /\ o \in Objects /\ o \in alive
        /\ lock.op \in {"stop", "delete"}
    BY DEF FinishStop, Stops, Safe, LockCoherent, TypeOK
  <1>2. /\ EndStop(o) /\ used' = [used EXCEPT ![lock.key] = 0]
        /\ UNCHANGED <<cam, wsub, leaked, doubled, thread>>
    BY DEF FinishStop
  <1>3. /\ lock' \in LockRecords
        /\ \/ /\ left = {} /\ lock'.op \in {"free", "uninit"} /\ lock'.key = 0 /\ ~lock'.wait
           \/ \E d \in left : lock'.op = lock.op /\ lock'.key = d /\ lock'.wait = brun[used[d]]
    BY <1>1, NextStop
  <1>4. /\ handle' = [e \in Objects |-> IF e \in {o} THEN 0 ELSE handle[e]]
        /\ alive' = alive \ {o}
        /\ brun' = [e \in Objects |-> brun[e] /\ e # o /\
                                ~(lock'.key # 0 /\ used[lock'.key] = e)]
    BY DEF Deleted
  <1> HIDE DEF o
  <1>5. /\ sub' \in [Objects -> BOOLEAN] /\ used' \in [Dests -> Objects \cup {0}]
        /\ \A d \in Dests : used'[d] # o /\ (used'[d] # 0 => used'[d] = used[d])
        /\ \A d \in Dests : unused[d] # o
        /\ \A t \in Threads : pc[t] \in Live /\ Alone(t) => own[t] # o
        /\ ThreadKnows' /\ SubIsOpen' /\ SenderIsListed' /\ (wsub' => Publishes')
    BY <1>1, <1>2, <1>4, StoppedLeaves DEF o
  <1>6. brun' \in [Objects -> BOOLEAN] /\ handle' \in [Objects -> Threads \cup {0}]
    BY <1>4 DEF TypeOK
  <1>7. \A d \in Dests : {used'[d], unused'[d]} \subseteq alive' \cup {0}
    BY <1>4, <1>5 DEF TypeOK
  <1>8. TypeOK'
    BY <1>2, <1>3, <1>4, <1>5, <1>6, <1>7 DEF TypeOK, LockRecords, thread
  <1>9. OnePlace'
    BY <1>5 DEF Safe, OnePlace
  <1>10. \A d \in left : used'[d] = used[d] /\ used'[d] # 0 /\ d \in Dests
    BY <1>1, <1>2 DEF TypeOK
  <1>11. left = {} => \A d \in Dests : used'[d] = 0
    BY <1>1, <1>2 DEF TypeOK
  <1> HIDE DEF left
  <1>12. /\ LockCoherent' /\ (Stops' => lock'.key # 0)
         /\ lock'.key = 0 \/ (Stops' /\ used'[lock'.key] = used[lock'.key]
                                    /\ lock'.wait = brun[used[lock'.key]])
    BY <1>1, <1>3, <1>10, <1>11 DEF LockCoherent, Stops
  <1>13. StopWaits'
    <2>1. ASSUME NEW t \in Threads, pc[t] \in Live, Alone(t)
          PROVE  IF Stops' /\ used'[lock'.key] = own[t] THEN lock'.wait ELSE brun'[own[t]]
      <3>1. own[t] \in Objects \ {o}
        BY <1>5, <2>1, Running
      <3>2. brun[own[t]]
        BY <2>1, <3>1 DEF Safe, StopWaits, o
      <3>3. brun'[own[t]] \/ (lock'.key # 0 /\ used[lock'.key] = own[t])
        BY <1>4, <3>1, <3>2
      <3>4. QED
        BY <1>12, <3>2, <3>3
    <2>2. QED
      BY <1>2, <2>1 DEF StopWaits, Alone, thread
  <1>14. QED
    BY <1>5, <1>8, <1>9, <1>12, <1>13 DEF Safe

\* The end of a wait for a thread, whether more are to be waited for or not.
LEMMA FinishStopKeeps == TypeOK /\ Safe /\ FinishStop => TypeOK' /\ Safe'
  <1> SUFFICES ASSUME TypeOK, Safe, FinishStop PROVE TypeOK' /\ Safe'
    OBVIOUS
  <1>1. CASE lock.op = "del" /\ lock' = Free
    BY <1>1, FinishDelKeeps
  <1>2. CASE ~(lock.op = "del" /\ lock' = Free)
    BY <1>2, FinishNextKeeps DEF FinishStop
  <1>3. QED
    BY <1>1, <1>2

\* A round of the wait clears m_brun of the object that is stopped.
LEMMA AskAgainKeeps == TypeOK /\ Safe /\ AskAgain => TypeOK' /\ Safe'
  <1> SUFFICES ASSUME TypeOK, Safe, AskAgain PROVE TypeOK' /\ Safe'
    OBVIOUS
  <1> DEFINE o == used[lock.key]
  <1>1. Stops /\ lock.wait /\ o \in Objects
    BY DEF AskAgain, Safe, LockCoherent, TypeOK
  <1>2. /\ brun' = [brun EXCEPT ![o] = FALSE]
        /\ UNCHANGED <<cam, wsub, lock, maps, handle, sub, leaked, doubled, thread>>
    BY DEF AskAgain
  <1>3. brun' \in [Objects -> BOOLEAN] /\ \A e \in Objects \ {o} : brun'[e] = brun[e]
    BY <1>1, <1>2 DEF TypeOK
  <1>4. TypeOK'
    BY <1>2, <1>3 DEF TypeOK, maps, thread
  <1>5. StopWaits'
    BY <1>1, <1>2, <1>3, Running, Known DEF Safe, StopWaits, Stops, Alone, maps, thread
  <1>6. ThreadKnows' /\ OnePlace' /\ LockCoherent' /\ SubIsOpen' /\ SenderIsListed' /\ (wsub' => Publishes')
    BY <1>2 DEF Safe, ThreadKnows, OnePlace, LockCoherent, Stops, SubIsOpen, SenderIsListed,
                Publishes, Alone, maps, thread
  <1>7. QED
    BY <1>4, <1>5, <1>6 DEF Safe

\* The context is destroyed when no thread can run.
LEMMA UninitKeeps == TypeOK /\ Safe /\ Uninit => TypeOK' /\ Safe'
  <1> SUFFICES ASSUME TypeOK, Safe, Uninit PROVE TypeOK' /\ Safe'
    OBVIOUS
  <1>1. \A d \in Dests : used[d] = 0
    BY DEF Uninit, Safe, LockCoherent
  <1>2. \A t \in Threads : ~(pc[t] \in Live /\ Alone(t))
    BY Running DEF Uninit
  <1>3. /\ ~wsub /\ lock' = Free /\ cam' = "gone" /\ wsub' = wsub
        /\ unused' = [d \in Dests |-> 0] /\ alive' = {}
        /\ handle' = [o \in Objects |-> 0]
        /\ UNCHANGED <<used, brun, sub, leaked, doubled, thread>>
    BY DEF Uninit
  <1>4. TypeOK'
    <2>1. \A d \in Dests : {used'[d], unused'[d]} \subseteq alive' \cup {0}
      BY <1>1, <1>3
    <2>2. QED
      BY <1>3, <2>1, FreeLock DEF TypeOK, LockRecords, thread
  <1>5. Safe'
    BY <1>1, <1>2, <1>3, FreeLock
    DEF Safe, ThreadKnows, OnePlace, LockCoherent, StopWaits, SubIsOpen, SenderIsListed, Publishes,
        Stops, Alone, thread
  <1>6. QED
    BY <1>4, <1>5
-------------------------------------------------------------------------------
(* The send threads.                                                       *)

\* A thread changes its own place, m_brun and the handle of its own object.
LEMMA OwnStep ==
    ASSUME TypeOK, Safe, NEW t \in Threads, pc[t] \in Live,
           UNCHANGED <<cam, wsub, lock, maps, sub, leaked, doubled>>,
           pc' \in [Threads -> Live \cup {"none", "waits"}],
           own' \in [Threads -> Objects \cup {0}], key' \in [Threads -> Dests \cup {0}],
           brun' \in [Objects -> BOOLEAN], handle' \in [Objects -> Threads \cup {0}],
           \A u \in Threads \ {t} : pc'[u] = pc[u] /\ own'[u] = own[u] /\ key'[u] = key[u],
           \A o \in Objects \ {own[t]} : brun'[o] = brun[o] /\ handle'[o] = handle[o],
           pc'[t] # "none" => own'[t] = own[t] /\ key'[t] = key[t],
           pc'[t] \in Live => handle' = handle /\ (brun[own[t]] => brun'[own[t]])
    PROVE  TypeOK' /\ Safe'
  <1>1. TypeOK'
    BY DEF TypeOK, maps
  <1>2. \A u \in Threads : pc'[u] \in Live /\ own'[u] \notin doubled =>
            /\ Alone(u) /\ pc[u] \in Live /\ own'[u] = own[u] /\ key'[u] = key[u]
            /\ handle'[own[u]] = handle[own[u]] /\ (brun[own[u]] => brun'[own[u]])
    BY Running DEF Live, Alone
  <1>3. ThreadKnows'
    <2>1. own[t] \in Objects /\ key[t] \in Dests
      BY Known
    <2>2. pc'[t] # "none" => own'[t] \in Objects /\ key'[t] \in Dests
      BY <2>1
    <2>3. "none" \notin Live
      BY DEF Live
    <2>4. QED
      BY <2>2, <2>3 DEF Safe, ThreadKnows
  <1>4. OnePlace' /\ LockCoherent' /\ (wsub' => Publishes')
    BY DEF Safe, OnePlace, LockCoherent, Stops, Publishes, maps
  <1>5. StopWaits'
    BY <1>2 DEF Safe, StopWaits, Stops, Alone, maps
  <1>6. SubIsOpen' /\ SenderIsListed'
    BY <1>2 DEF Safe, SubIsOpen, SenderIsListed, Publishes, Alone, maps
  <1>7. QED
    BY <1>1, <1>3, <1>4, <1>5, <1>6 DEF Safe

\* The steps of a sending thread leave the maps alone.
LEMMA SendThreadKeeps ==
    ASSUME TypeOK, Safe, NEW t \in Threads, SendThread(t)
    PROVE  TypeOK' /\ Safe'
  <1>1. UNCHANGED <<cam, wsub, lock, maps, sub, leaked, doubled>>
    BY DEF SendThread
  <1>2. CASE Born(t)
    <2>1. pc[t] \in Live
      BY <1>2 DEF Born, Live
    <2>2. own[t] \in Objects
      BY <2>1, Known
    <2>3. /\ pc' \in [Threads -> Live \cup {"none", "waits"}] /\ brun' \in [Objects -> BOOLEAN]
          /\ \A u \in Threads \ {t} : pc'[u] = pc[u]
          /\ \A o \in Objects \ {own[t]} : brun'[o] = brun[o]
          /\ brun'[own[t]]
      BY <1>2, <2>2 DEF Born, TypeOK, Live
    <2>4. UNCHANGED <<handle, own, key>>
      BY <1>2 DEF Born
    <2>5. QED
      BY <1>1, <2>1, <2>3, <2>4, OwnStep DEF TypeOK
  <1>3. CASE Top(t)
    <2>1. pc[t] \in Live
      BY <1>3 DEF Top, Live
    <2>2. own[t] \in Objects
      BY <2>1, Known
    <2>3. /\ UNCHANGED <<handle, own, key>>
          /\ \/ pc' = [pc EXCEPT ![t] = "exit"] /\ brun' = brun
             \/ pc' = [pc EXCEPT ![t] = "waits"] /\ brun' = [brun EXCEPT ![own[t]] = FALSE]
             \/ pc' = [pc EXCEPT ![t] = "get"] /\ brun' = brun
      BY <1>3 DEF Top
    <2>4. /\ pc' \in [Threads -> Live \cup {"none", "waits"}] /\ brun' \in [Objects -> BOOLEAN]
          /\ \A u \in Threads \ {t} : pc'[u] = pc[u]
          /\ \A o \in Objects \ {own[t]} : brun'[o] = brun[o]
          /\ pc'[t] \in Live => brun' = brun
      BY <2>2, <2>3 DEF TypeOK, Live
    <2>5. QED
      BY <1>1, <2>1, <2>3, <2>4, OwnStep DEF TypeOK
  <1>4. CASE GetAndSend(t)
    <2>1. pc[t] \in Live
      BY <1>4 DEF GetAndSend, Reads, Live
    <2>2. /\ pc' \in [Threads -> Live \cup {"none", "waits"}]
          /\ \A u \in Threads \ {t} : pc'[u] = pc[u]
      BY <1>4 DEF GetAndSend, TypeOK, Live
    <2>3. UNCHANGED <<brun, handle, own, key>>
      BY <1>4 DEF GetAndSend
    <2>4. QED
      BY <1>1, <2>1, <2>2, <2>3, OwnStep DEF TypeOK
  <1>5. CASE Leave(t)
    <2>1. pc[t] \in Live
      BY <1>5 DEF Leave, Live
    <2>2. own[t] \in Objects
      BY <2>1, Known
    <2>3. /\ pc' \in [Threads -> Live \cup {"none", "waits"}]
          /\ own' \in [Threads -> Objects \cup {0}] /\ key' \in [Threads -> Dests \cup {0}]
          /\ pc'[t] = "none"
          /\ \A u \in Threads \ {t} : pc'[u] = pc[u] /\ own'[u] = own[u] /\ key'[u] = key[u]
      BY <1>5 DEF Leave, Gone, TypeOK
    <2>4. /\ brun' \in [Objects -> BOOLEAN] /\ handle' \in [Objects -> Threads \cup {0}]
          /\ \A o \in Objects \ {own[t]} : brun'[o] = brun[o] /\ handle'[o] = handle[o]
      BY <1>5, <2>2 DEF Leave, TypeOK
    <2>5. pc'[t] \notin Live
      BY <2>3 DEF Live
    <2>6. QED
      BY <1>1, <2>1, <2>3, <2>4, <2>5, OwnStep
  <1>6. QED
    BY <1>2, <1>3, <1>4, <1>5 DEF SendThread
-------------------------------------------------------------------------------
(* The camera and the objects for later use.                               *)

\* The camera runs or does not; it is not deleted.
LEMMA CameraKeeps ==
    ASSUME TypeOK, Safe, EndsItself \/ Lost \/ Plan \/ BeginLogin \/ EndLogin
    PROVE  TypeOK' /\ Safe'
  <1>1. /\ UNCHANGED <<maps, object, thread>>
        /\ cam' \in {"running", "silent", "lost", "gone"} /\ wsub' \in BOOLEAN
        /\ cam # "gone" => cam' # "gone"
        /\ wsub' => wsub \/ cam' # "gone"
        /\ \/ lock' = lock
           \/ lock = Free /\ lock' = [Free EXCEPT !.op = "login"]
           \/ lock.op = "login" /\ lock' = Free
    <2>1. CASE EndsItself
      BY <2>1 DEF EndsItself, TypeOK
    <2>2. CASE Lost
      BY <2>2 DEF Lost, TypeOK
    <2>3. CASE Plan
      <3>1. CASE cam = "running" /\ wsub' = TRUE
        BY <2>3, <3>1 DEF Plan, TypeOK
      <3>2. CASE wsub' = FALSE
        BY <2>3, <3>2 DEF Plan, TypeOK
      <3>3. QED
        BY <2>3, <3>1, <3>2 DEF Plan
    <2>4. CASE BeginLogin
      BY <2>4 DEF BeginLogin, TypeOK
    <2>5. CASE EndLogin
      <3>1. CASE UNCHANGED <<cam, wsub>>
        BY <2>5, <3>1 DEF EndLogin, TypeOK
      <3>2. CASE cam' = "running" /\ wsub' = wsub
        BY <2>5, <3>2 DEF EndLogin, TypeOK
      <3>3. CASE cam' = "running" /\ wsub' = TRUE
        BY <2>5, <3>3 DEF EndLogin, TypeOK
      <3>4. QED
        BY <2>5, <3>1, <3>2, <3>3 DEF EndLogin
    <2>6. QED
      BY <2>1, <2>2, <2>3, <2>4, <2>5
  <1>2. \/ lock' = lock
        \/ /\ lock' \in LockRecords /\ lock'.op \in {"free", "login"}
           /\ lock'.key = 0 /\ ~lock'.wait /\ lock.op \in {"free", "login"}
    BY <1>1, FreeLock
  <1>3. TypeOK'
    BY <1>1, <1>2 DEF TypeOK, LockRecords, maps, object, thread
  <1>4. LockCoherent' /\ Stops' = Stops
    BY <1>1, <1>2 DEF Safe, LockCoherent, Stops, maps
  <1>5. StopWaits'
    BY <1>1, <1>2, <1>4 DEF Safe, StopWaits, Stops, Alone, maps, object, thread
  <1>6. ThreadKnows' /\ OnePlace' /\ SubIsOpen' /\ SenderIsListed' /\ (wsub' => Publishes')
    BY <1>1 DEF Safe, ThreadKnows, OnePlace, SubIsOpen, SenderIsListed, Publishes, Alone, maps, object, thread
  <1>7. QED
    BY <1>3, <1>4, <1>5, <1>6 DEF Safe

\* What is deleted was for later use: no thread runs with it.
LEMMA UpdateMapKeeps == TypeOK /\ Safe /\ update_transfer_map => TypeOK' /\ Safe'
  <1> SUFFICES ASSUME TypeOK, Safe, update_transfer_map PROVE TypeOK' /\ Safe'
    OBVIOUS
  <1>1. PICK gone \in SUBSET Unused :
        /\ Deleted(gone)
        /\ unused' = [d \in Dests |-> IF unused[d] \in gone THEN 0 ELSE unused[d]]
        /\ UNCHANGED <<cam, wsub, lock, used, brun, sub, leaked, doubled, thread>>
    BY DEF update_transfer_map
  <1>2. \A d \in Dests : used[d] # 0 => used[d] \notin gone
    BY DEF Safe, OnePlace, Unused
  <1>3. 0 \notin gone
    BY DEF Unused
  <1>4. /\ handle' \in [Objects -> Threads \cup {0}]
        /\ \A o \in Objects \ gone : handle'[o] = handle[o]
        /\ alive' = alive \ gone
    BY <1>1 DEF Deleted, TypeOK
  <1>5. /\ unused' \in [Dests -> Objects \cup {0}]
        /\ \A d \in Dests : unused'[d] \in {0, unused[d]} /\ unused'[d] \notin gone
    BY <1>1, <1>3 DEF TypeOK
  <1>6. \A d \in Dests : {used'[d], unused'[d]} \subseteq alive' \cup {0}
    BY <1>1, <1>2, <1>4, <1>5 DEF TypeOK
  <1>7. TypeOK'
    BY <1>1, <1>4, <1>5, <1>6 DEF TypeOK, thread
  <1>8. SenderIsListed'
    BY <1>1, <1>2, <1>4, Running DEF SenderIsListed, Alone, thread
  <1>9. OnePlace'
    BY <1>1, <1>5 DEF Safe, OnePlace
  <1>10. ThreadKnows' /\ LockCoherent' /\ StopWaits' /\ SubIsOpen' /\ (wsub' => Publishes')
    BY <1>1 DEF Safe, ThreadKnows, LockCoherent, Stops, StopWaits, SubIsOpen, Publishes, Alone, thread
  <1>11. QED
    BY <1>7, <1>8, <1>9, <1>10 DEF Safe
-------------------------------------------------------------------------------
(* The theorems.                                                           *)

\* At the start there is no object and no thread.
LEMMA InitInv == Init => IInv
  <1> SUFFICES ASSUME Init PROVE IInv
    OBVIOUS
  <1>1. TypeOK
    BY FreeLock DEF Init, TypeOK, LockRecords
  <1>2. Safe
    BY FreeLock DEF Init, Safe, ThreadKnows, OnePlace, LockCoherent, Stops, StopWaits, SubIsOpen,
                    SenderIsListed, Live
  <1>3. QED
    BY <1>1, <1>2 DEF IInv

\* Every step keeps the invariant.
LEMMA StepInv == IInv /\ [Next]_vars => IInv'
  <1> SUFFICES ASSUME TypeOK, Safe, [Next]_vars PROVE TypeOK' /\ Safe'
    BY DEF IInv
  <1>1. CASE UNCHANGED vars
    <2>1. TypeOK'
      BY <1>1 DEF vars, maps, object, thread, TypeOK
    <2>2. Safe'
      BY <1>1 DEF vars, maps, object, thread, Safe, ThreadKnows, OnePlace, LockCoherent, Stops,
                  StopWaits, SubIsOpen, SenderIsListed, Publishes, Alone
    <2>3. QED
      BY <2>1, <2>2
  <1>2. CASE KeepAlive
    BY <1>2, UpdateMapKeeps DEF KeepAlive
  <1>3. CASE EndsItself \/ Lost \/ Plan \/ BeginLogin \/ EndLogin
    BY <1>3, CameraKeeps
  <1>4. QED
    BY <1>1, <1>2, <1>3, AddDestKeeps, DelDestKeeps, StopStreamKeeps, AskAgainKeeps,
       FinishStopKeeps, UninitKeeps, SendThreadKeeps, GiveUpKeeps
    DEF Next

\* The maps, the lock and the threads that are alone in their objects agree in every
\* behaviour.
THEOREM InvariantAlways == Spec => []IInv
  <1>1. Init => IInv
    BY InitInv
  <1>2. IInv /\ [Next]_vars => IInv'
    BY StepInv
  <1>3. QED
    BY <1>1, <1>2, PTL DEF Spec

\* No thread that is alone in its object reads a subscriber that was closed, or one of
\* an object or a context that is gone, however stops, retries, deletions and senders
\* that give up follow one another.
THEOREM SubInUseAlways == Spec => []SubInUse
  <1>1. IInv => SubInUse
    <2> SUFFICES ASSUME IInv PROVE SubInUse
      OBVIOUS
    <2>1. \A t \in Threads :
              Reads(t) /\ Alone(t) => own[t] \in alive /\ sub[own[t]] /\ Publishes
      BY Running DEF IInv, Reads, Live
    <2>2. QED
      BY <2>1 DEF IInv, Safe, SubInUse
  <1>2. QED
    BY <1>1, InvariantAlways, PTL

\* A running thread that is alone in its object is in m_transfer_map under the client
\* it was started for, and is the thread stop_transfer waits for.
THEOREM SenderIsListedAlways == Spec => []SenderIsListed
  <1>1. IInv => SenderIsListed
    BY DEF IInv, Safe
  <1>2. QED
    BY <1>1, InvariantAlways, PTL
===============================================================================
