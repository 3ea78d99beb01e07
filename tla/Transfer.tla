-------------------------------- MODULE Transfer --------------------------------
(***************************************************************************)
(* The live fan-out of one camera: the data_transfer objects that send its *)
(* stream to clients, their send threads, and the two maps that hold the   *)
(* objects in use and the objects to be used again.                        *)
(*                                                                         *)
(* lock is video_manger::m_stream_lock.  A call that holds it is one step, *)
(* except stop_transfer, which waits for the send thread, and the login of *)
(* another camera, which may last longer than a sender's patience.         *)
(* The map lock of the camera is held by the same calls, and only by the   *)
(* receive thread without m_stream_lock (Received).                        *)
(*                                                                         *)
(* The camera publishes its stream in a ZeroMQ context of its own, which   *)
(* the objects and the data_writer subscribe to; deleting the camera waits *)
(* for all of them, with the lock.                                         *)
(*                                                                         *)
(* A client may be added again while it is being served.  Its object then  *)
(* has two threads and one handle (doubled), and what its threads do to    *)
(* each other after a stop is undefined behaviour in the code; here they   *)
(* go on.  A subscriber that is overwritten is open for ever (leaked).     *)
(*                                                                         *)
(* Packets, addresses, ports and sockets are left out.  The eleven rounds  *)
(* of 120 ms in stop_transfer are taken to be longer than a send thread    *)
(* needs from any point to its loop test: the wait fails only when no      *)
(* thread is left that could clear the handle (CannotClear).               *)
(***************************************************************************)
EXTENDS Integers, FiniteSets

CONSTANTS
    Dests,    \* clients: the keys "ip_port" of the maps
    Objects,  \* bound: data_transfer objects that exist at a time
    Threads   \* bound: send threads that exist at a time

ASSUME TransferAssumption == 0 \notin Dests \cup Objects \cup Threads

VARIABLES
    cam,      \* running; silent: it does not run; lost: it is to be called
              \* again (m_manger_reconnect_map); gone: deleted, or just added
    wsub,     \* m_sub_block of its data_writer is open
    lock,     \* who holds m_stream_lock over several steps, or Free
    used,     \* m_transfer_map
    unused,   \* m_transfer_unuse_map
    alive,    \* the objects that are allocated
    brun,     \* m_brun
    handle,   \* m_send_thread: 0 or the thread last created
    sub,      \* m_sub_block is open
    leaked,   \* a subscriber is open that no object knows of
    pc,       \* control point of each send thread
    own,      \* its object
    key,      \* the client whose del_dest it calls when it gives up
    doubled   \* the objects started again while a thread ran (history)

maps   == <<used, unused, alive>>
object == <<brun, handle, sub, leaked, doubled>>
thread == <<pc, own, key>>
vars   == <<cam, wsub, lock, maps, object, thread>>

Free == [op |-> "free", key |-> 0, wait |-> FALSE]
Live == {"born", "top", "get", "exit"}

TypeOK ==
    /\ cam \in {"running", "silent", "lost", "gone"} /\ wsub \in BOOLEAN
    /\ lock \in [op : {"free", "del", "stop", "delete", "uninit", "login"},
                 key : Dests \cup {0}, wait : BOOLEAN]
    /\ used \in [Dests -> Objects \cup {0}] /\ unused \in [Dests -> Objects \cup {0}]
    /\ alive \subseteq Objects
    /\ brun \in [Objects -> BOOLEAN] /\ sub \in [Objects -> BOOLEAN]
    /\ handle \in [Objects -> Threads \cup {0}]
    /\ leaked \in BOOLEAN /\ doubled \subseteq Objects
    /\ pc \in [Threads -> Live \cup {"none", "waits"}]
    /\ own \in [Threads -> Objects \cup {0}] /\ key \in [Threads -> Dests \cup {0}]
    /\ \A d \in Dests : {used[d], unused[d]} \subseteq alive \cup {0}

Init ==
    /\ cam = "gone" /\ wsub = FALSE /\ lock = Free
    /\ used = [d \in Dests |-> 0] /\ unused = [d \in Dests |-> 0]
    /\ alive = {}
    /\ brun = [o \in Objects |-> FALSE] /\ sub = [o \in Objects |-> FALSE]
    /\ handle = [o \in Objects |-> 0] /\ leaked = FALSE /\ doubled = {}
    /\ pc = [t \in Threads |-> "none"]
    /\ own = [t \in Threads |-> 0] /\ key = [t \in Threads |-> 0]

Used   == {used[d] : d \in Dests} \ {0}
Unused == {unused[d] : d \in Dests} \ {0}
LiveThreads(o) == {t \in Threads : own[t] = o /\ pc[t] \in Live}

-----------------------------------------------------------------------------
\* zmq_block_sub, for which the camera must publish.  start_transfer writes over the
\* pointer to one that is open
Subscribe(o) ==
    /\ sub' = [sub EXCEPT ![o] = TRUE]
    /\ leaked' = (leaked \/ sub[o])

\* Its end
Unsubscribe(o) == sub' = [sub EXCEPT ![o] = FALSE]

\* init_zmq_block_pub of the camera's first login
Publishes == cam # "gone"

\* add_dest_addr_for_realvideo: an object has one client at a time
Aim(t, o, d) ==
    /\ own' = [own EXCEPT ![t] = o]
    /\ key' = [key EXCEPT ![t] = d]

\* start_transfer: a port and a socket, or nothing but m_brun.  It does not ask
\* whether the object is started already
Start(o, d) ==
    /\ brun' = [brun EXCEPT ![o] = TRUE]
    /\ doubled' = IF LiveThreads(o) = {} THEN doubled \ {o} ELSE doubled \cup {o}
    /\ \/ UNCHANGED <<handle, sub, leaked, thread>>
       \/ \E t \in Threads :
            /\ pc[t] = "none" /\ pc' = [pc EXCEPT ![t] = "born"]
            /\ Aim(t, o, d) /\ Subscribe(o)
            /\ handle' = [handle EXCEPT ![o] = t]

\* A new object
NewObject(d) ==
    /\ used[d] = 0 /\ Unused = {}
    /\ \E o \in Objects \ alive :
         /\ alive' = alive \cup {o} /\ used' = [used EXCEPT ![d] = o]
         /\ Start(o, d)
    /\ UNCHANGED unused

\* One that waits to be used again; the iterator read after its erase (394) still
\* gives the object
UseAgain(d) ==
    /\ used[d] = 0
    /\ \E e \in Dests :
         /\ unused[e] # 0
         /\ used' = [used EXCEPT ![d] = unused[e]]
         /\ unused' = [unused EXCEPT ![e] = 0]
         /\ Start(unused[e], d)
    /\ UNCHANGED alive

\* The one that is there, whether a thread serves the client or gave up
StartAgain(d) ==
    /\ used[d] # 0 /\ Start(used[d], d) /\ UNCHANGED maps

AddDest(d) ==
    /\ lock = Free /\ cam = "running"
    /\ NewObject(d) \/ UseAgain(d) \/ StartAgain(d)
    /\ UNCHANGED <<cam, wsub, lock>>

-----------------------------------------------------------------------------
\* stop_transfer up to its wait: m_brun FALSE, and no wait if it was already
BeginStop(op, d) ==
    /\ lock' = [op |-> op, key |-> d, wait |-> brun[used[d]]]
    /\ brun' = [brun EXCEPT ![used[d]] = FALSE]

\* video_manger::del_dest looks in m_manger_map only
DelDest(d) ==
    /\ lock = Free /\ cam # "lost" /\ used[d] # 0
    /\ BeginStop("del", d)
    /\ UNCHANGED <<cam, wsub, maps, handle, sub, leaked, doubled, thread>>

\* stop_recv_stream, of a camera that runs, ends the data_writer too
StopReceiving ==
    /\ wsub' = IF cam = "running" THEN FALSE ELSE wsub
    /\ cam' = IF cam = "running" THEN "silent" ELSE cam

\* The publisher's socket is closed and its context is about to be destroyed
delete_stream_mem == lock' = [Free EXCEPT !.op = "uninit"]

\* What is left to do after the last transfer is stopped, if there is any
StopNext(op, left) ==
    \/ left = {} /\ IF op = "delete" THEN delete_stream_mem ELSE lock' = Free
    \/ \E d \in left : lock' = [op |-> op, key |-> d, wait |-> brun[used[d]]]

\* stop_stream: a command stops or deletes the camera, and with it every object
\* in use
StopStream(op) ==
    /\ lock = Free
    /\ \/ op = "stop" /\ cam \in {"running", "silent"}
       \/ op = "delete" /\ cam # "gone"
    /\ StopReceiving
    /\ StopNext(op, {d \in Dests : used[d] # 0})
    /\ brun' = [o \in Objects |-> brun[o] /\ ~(lock'.key # 0 /\ used[lock'.key] = o)]
    /\ UNCHANGED <<maps, handle, sub, leaked, doubled, thread>>

\* uninit_zmq_block of delete_stream_mem: zmq_ctx_destroy waits until no socket of
\* the context is open.  The objects for later use are never deleted
Uninit ==
    /\ lock.op = "uninit" /\ ~wsub /\ ~leaked /\ \A o \in alive : ~sub[o]
    /\ lock' = Free /\ cam' = "gone" /\ wsub' = wsub
    /\ unused' = [d \in Dests |-> 0] /\ alive' = {}
    /\ handle' = [o \in Objects |-> 0]
    /\ UNCHANGED <<used, brun, sub, leaked, doubled, thread>>

\* Mutant: the subscriber is deleted while the thread is waited for
AskAndClose ==
    /\ lock.wait /\ handle[used[lock.key]] # 0 /\ sub[used[lock.key]]
    /\ sub' = [sub EXCEPT ![used[lock.key]] = FALSE]
    /\ UNCHANGED <<cam, wsub, lock, maps, brun, handle, leaked, doubled, thread>>

\* Mutant: m_brun is cleared once, before the wait
AskOnce == FALSE /\ UNCHANGED vars

\* A round of the wait: m_brun FALSE again, for a thread that has just begun
AskAgain ==
    /\ lock.wait /\ handle[used[lock.key]] # 0 /\ brun[used[lock.key]]
    /\ brun' = [brun EXCEPT ![used[lock.key]] = FALSE]
    /\ UNCHANGED <<cam, wsub, lock, maps, handle, sub, leaked, doubled, thread>>

\* Mutant: stop_transfer does not wait
NoWait(o) == TRUE

\* The handle stays: its thread left without clearing it, or waits for the lock
CannotClear(o) == LiveThreads(o) = {}

\* stop_transfer from its wait to its end
EndStop(o) ==
    /\ ~lock.wait \/ handle[o] = 0 \/ CannotClear(o)
    /\ Unsubscribe(o)

\* The objects that are deleted
Deleted(os) ==
    /\ alive' = alive \ os
    /\ handle' = [o \in Objects |-> IF o \in os THEN 0 ELSE handle[o]]

\* The end of stop_transfer; del_dest_ex keeps the object for later use, unless
\* its key has one already, and stop_stream deletes it and goes on
FinishStop ==
    /\ lock.op \in {"del", "stop", "delete"} /\ lock.key # 0
    /\ LET o == used[lock.key] IN
          /\ EndStop(o)
          /\ used' = [used EXCEPT ![lock.key] = 0]
          /\ \/ /\ lock.op = "del" /\ lock' = Free
                /\ unused' = [unused EXCEPT ![lock.key] = IF @ = 0 THEN o ELSE @]
                /\ brun' = [brun EXCEPT ![o] = FALSE]
                /\ UNCHANGED <<alive, handle>>
             \/ /\ lock.op # "del"
                /\ unused' = unused /\ Deleted({o})
                /\ StopNext(lock.op, {d \in Dests \ {lock.key} : used[d] # 0})
                /\ brun' = [e \in Objects |-> brun[e] /\ e # o /\
                                ~(lock'.key # 0 /\ used[lock'.key] = e)]
    /\ UNCHANGED <<cam, wsub, leaked, doubled, thread>>

-----------------------------------------------------------------------------
Gone(t) ==
    /\ pc' = [pc EXCEPT ![t] = "none"]
    /\ own' = [own EXCEPT ![t] = 0] /\ key' = [key EXCEPT ![t] = 0]

\* real_send_thread2
Born(t) ==
    /\ pc[t] = "born" /\ pc' = [pc EXCEPT ![t] = "top"]
    /\ brun' = [brun EXCEPT ![own[t]] = TRUE]
    /\ UNCHANGED <<handle, own, key>>

\* The loop test, the patience of 45 s, which may be over at any test, and the
\* subscriber
Top(t) ==
    /\ pc[t] = "top"
    /\ LET o == own[t] IN
       \/ /\ ~brun[o] \/ ~sub[o]
          /\ pc' = [pc EXCEPT ![t] = "exit"] /\ UNCHANGED brun
       \/ /\ brun[o]
          /\ brun' = [brun EXCEPT ![o] = FALSE] /\ pc' = [pc EXCEPT ![t] = "waits"]
       \/ /\ brun[o] /\ sub[o]
          /\ pc' = [pc EXCEPT ![t] = "get"] /\ UNCHANGED brun
    /\ UNCHANGED <<handle, own, key>>

\* A thread in get_buf polls the socket of its object
Reads(t) == pc[t] = "get"

\* get_buf gives a packet or nothing for 30 ms.  The end of the thread in sendto
\* (375) needs a closed socket, and none closes it while the thread is here.
GetAndSend(t) ==
    /\ Reads(t) /\ pc' = [pc EXCEPT ![t] = "top"]
    /\ UNCHANGED <<brun, handle, own, key>>

Leave(t) ==
    /\ pc[t] = "exit" /\ Gone(t)
    /\ brun' = [brun EXCEPT ![own[t]] = FALSE]
    /\ handle' = [handle EXCEPT ![own[t]] = 0]

SendThread(t) ==
    /\ Born(t) \/ Top(t) \/ GetAndSend(t) \/ Leave(t)
    /\ UNCHANGED <<cam, wsub, lock, maps, sub, leaked, doubled>>

\* A thread that gave up has the lock at last: del_dest of its own client
GiveUp(t) ==
    /\ pc[t] = "waits" /\ lock = Free
    /\ Gone(t)
    /\ \/ cam # "lost" /\ used[key[t]] # 0 /\ BeginStop("del", key[t])
       \/ (cam = "lost" \/ used[key[t]] = 0) /\ UNCHANGED <<lock, brun>>
    /\ UNCHANGED <<cam, wsub, maps, handle, sub, leaked, doubled>>

-----------------------------------------------------------------------------
\* The receive thread ends by itself, and leaves the data_writer as it is
EndsItself ==
    /\ cam = "running" /\ cam' = "silent"
    /\ UNCHANGED <<wsub, lock, maps, object, thread>>

\* thread_check_device_online: a camera that does not send is stopped and moved to
\* the other map
Lost ==
    /\ lock = Free /\ cam \in {"running", "silent"} /\ cam' = "lost"
    /\ wsub' = IF cam = "running" THEN FALSE ELSE wsub
    /\ UNCHANGED <<lock, maps, object, thread>>

\* The plan starts the data_writer of a camera that runs (start_thread2 makes a new
\* subscriber), or stops it
Plan ==
    /\ lock = Free
    /\ \/ cam = "running" /\ wsub' = TRUE
       \/ cam \in {"running", "silent"} /\ wsub' = FALSE
    /\ UNCHANGED <<cam, lock, maps, object, thread>>

\* A login under m_stream_lock, of this camera or of another
BeginLogin ==
    /\ lock = Free /\ lock' = [Free EXCEPT !.op = "login"]
    /\ UNCHANGED <<cam, wsub, maps, object, thread>>

EndLogin ==
    /\ lock.op = "login" /\ lock' = Free
    /\ \/ UNCHANGED <<cam, wsub>>
       \/ cam' = "running" /\ wsub' \in {wsub, TRUE}
    /\ UNCHANGED <<maps, object, thread>>

\* What was not used for 360 s is deleted; that may be any of them
update_transfer_map ==
    /\ \E gone \in SUBSET Unused \ {{}} :
         /\ Deleted(gone)
         /\ unused' = [d \in Dests |-> IF unused[d] \in gone THEN 0 ELSE unused[d]]
    /\ UNCHANGED <<cam, wsub, lock, used, brun, sub, leaked, doubled, thread>>

\* A round of thread_keep_device_alive, over m_manger_map only; of a camera in the
\* other map it renews the time of the objects
KeepAlive == lock = Free /\ cam # "lost" /\ update_transfer_map

Next ==
    \/ \E d \in Dests : AddDest(d) \/ DelDest(d)
    \/ \E op \in {"stop", "delete"} : StopStream(op)
    \/ AskAgain \/ FinishStop \/ Uninit
    \/ \E t \in Threads : SendThread(t) \/ GiveUp(t)
    \/ EndsItself \/ Lost \/ Plan \/ BeginLogin \/ EndLogin \/ KeepAlive

\* The threads run, and the holder of the lock goes on with its call
Fairness ==
    /\ \A t \in Threads : WF_vars(SendThread(t))
    /\ WF_vars(AskAgain) /\ WF_vars(FinishStop) /\ WF_vars(Uninit)

Spec == Init /\ [][Next]_vars /\ Fairness

-----------------------------------------------------------------------------
\* A thread alone in its object
Alone(t) == own[t] \notin doubled

\* No thread reads a subscriber that stop_transfer has deleted, one of an object
\* that is deleted, or one of a context that is destroyed (data_transfer.cpp:358),
\* and the data_writer has none of the last kind; except a thread of an object that
\* was started again under a running thread.
SubInUse ==
    /\ \A t \in Threads :
          Reads(t) /\ Alone(t) => own[t] \in alive /\ sub[own[t]] /\ Publishes
    /\ wsub => Publishes

\* Once del_dest has returned nothing is sent to the client any more, and a
\* client is sent every packet once: the object of a running thread is in
\* m_transfer_map under the client the thread was started for, also when it was
\* used for another before, and the thread is the one stop_transfer waits for;
\* with the same exception.
SenderIsListed ==
    \A t \in Threads :
        pc[t] \in Live /\ Alone(t) => used[key[t]] = own[t] /\ handle[own[t]] = t

\* Whoever stops a transfer or deletes the camera gets to the end of it, with
\* m_stream_lock held all the time, although a thread may begin, set m_brun and
\* wait for that lock, and zmq_ctx_destroy waits for every subscriber; except for
\* two subscribers nobody closes: that of the data_writer of a camera whose receive
\* thread ended by itself, and one written over when an object was started with
\* its subscriber open.
StopEnds ==
    (lock.op \in {"del", "stop", "delete", "uninit"}) ~>
        (lock = Free \/ (lock.op = "uninit" /\ (wsub \/ leaked)))

\* "if(pdt->m_sub_block==NULL) break;" before get_buf (data_transfer.cpp:354): whoever
\* reads a subscriber reads an open one.
ReadsAnOpenOne == \A t \in Threads : Reads(t) => own[t] \in alive /\ sub[own[t]]
=============================================================================
