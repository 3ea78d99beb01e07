-------------------------------- MODULE Devices --------------------------------
(***************************************************************************)
(* The life of a camera in video_manger: the two maps that hold its        *)
(* video_stream_manger, the commands that start, stop and delete it, the   *)
(* threads that find it lost and call it again, and its receive threads.   *)
(*                                                                         *)
(* Every command and every periodic thread works under m_stream_lock and   *)
(* is one step, except that stop_recv_stream joins the receive thread with *)
(* the lock held: lock then says who waits and for which camera.  A new    *)
(* camera gets its row without m_stream_lock, and its object later, or     *)
(* never.                                                                  *)
(*                                                                         *)
(* Times are kept as what the online check tells apart.  The recording     *)
(* plan is nondeterministic here (VideoPlan has it), and so are the        *)
(* answers of a camera.  Addresses, ports and messages are left out.       *)
(***************************************************************************)
EXTENDS Integers, FiniteSets

CONSTANTS
    Cameras,      \* rows that table device can have
    Threads,      \* bound: receive threads of one camera that exist at a time
    TimeoutLimit  \* a receive thread ends after more timeouts than this (5)

ASSUME DevicesAssumption ==
    /\ IsFiniteSet(Cameras)
    /\ IsFiniteSet(Threads) /\ 0 \notin Threads
    /\ TimeoutLimit \in Nat

VARIABLES
    phase,     \* the process is "up", "halting" in stop_video, or "down"
    db,        \* the rows of table device
    adding,    \* add_video_stream has inserted the "row" of a camera that has no
               \* object yet, or has "failed" after that
    place,     \* the map that holds the camera: "none", "normal", "reconnect"
    gutted,    \* cameras deleted in memory whose row could not be deleted
    brun,      \* m_brun of its video_stream_manger
    enable,    \* m_benable
    recv,      \* control point of each receive thread
    handle,    \* m_recv_data_pthread, or 0
    gap,       \* age of m_last_time_recv_data: 10 s at most, up to 1000 s, more
    timeouts,  \* m of the thread that receives
    writer,    \* m_brun of its data_writer
    lock       \* who waits in pthread_join with m_stream_lock, or Free

stream == <<brun, enable, recv, handle, gap, timeouts, writer>>
vars   == <<phase, db, adding, place, gutted, stream, lock>>

Free == [op |-> "free", cam |-> 0]
Ops  == {"stop", "delete", "lost", "halt"}

TypeOK ==
    /\ phase \in {"up", "halting", "down"}
    /\ db \subseteq Cameras
    /\ adding \in [Cameras -> {"no", "row", "failed"}]
    /\ place \in [Cameras -> {"none", "normal", "reconnect"}]
    /\ gutted \subseteq Cameras
    /\ brun \in [Cameras -> BOOLEAN] /\ enable \in [Cameras -> BOOLEAN]
    /\ recv \in [Cameras -> [Threads -> {"none", "born", "loop", "exit", "tail"}]]
    /\ handle \in [Cameras -> Threads \cup {0}]
    /\ gap \in [Cameras -> {"fresh", "lost", "never"}]
    /\ timeouts \in [Cameras -> 0 .. TimeoutLimit + 1]
    /\ writer \in [Cameras -> BOOLEAN]
    /\ lock \in {Free} \cup [op : Ops, cam : Cameras]

\* The constructor of video_stream_manger.
Fresh == [brun |-> FALSE, enable |-> FALSE, gap |-> "never"]

Init ==
    /\ phase = "down"
    /\ db \in SUBSET Cameras /\ adding = [c \in Cameras |-> "no"]
    /\ place = [c \in Cameras |-> "none"] /\ gutted = {}
    /\ brun = [c \in Cameras |-> FALSE] /\ enable = [c \in Cameras |-> FALSE]
    /\ recv = [c \in Cameras |-> [t \in Threads |-> "none"]]
    /\ handle = [c \in Cameras |-> 0]
    /\ gap = [c \in Cameras |-> "never"]
    /\ timeouts = [c \in Cameras |-> 0]
    /\ writer = [c \in Cameras |-> FALSE]
    /\ lock = Free

CanLock == phase = "up" /\ lock = Free
-------------------------------------------------------------------------------
\* Mutant: a camera whose start fails is not put into the reconnect map.
LoadStartedOnly ==
    /\ phase = "down"
    /\ phase' = "up"
    /\ UNCHANGED <<db, adding, place, gutted, stream, lock>>

\* load_video_stream: start_video_stream does not find a camera that is put
\* into m_manger_map after the call only, and so every camera of the table
\* (its status is 1 from its insertion on) waits in the reconnect map.
Load ==
    /\ phase = "down"
    /\ phase' = "up"
    /\ place' = [c \in Cameras |-> IF c \in db THEN "reconnect" ELSE "none"]
    /\ UNCHANGED <<db, adding, gutted, stream, lock>>

\* create_by_cmd: add_device_sql inserts the row under m_db_lock, in which it
\* sleeps, and others have m_stream_lock meanwhile, ...
AddRow(c) ==
    /\ phase # "down" /\ c \notin db
    /\ place[c] = "none" /\ \A t \in Threads : recv[c][t] = "none"
    /\ db' = db \cup {c}
    /\ adding' = [adding EXCEPT ![c] = "row"]
    /\ UNCHANGED <<phase, place, gutted, stream, lock>>

\* ... then it reads the id of the row back, and the new object goes into
\* m_manger_map, ...
AddObject(c) ==
    /\ CanLock /\ adding[c] = "row" /\ place[c] # "normal"
    /\ adding' = [adding EXCEPT ![c] = "no"]
    /\ place' = [place EXCEPT ![c] = "normal"]
    /\ brun' = [brun EXCEPT ![c] = Fresh.brun]
    /\ enable' = [enable EXCEPT ![c] = Fresh.enable]
    /\ gap' = [gap EXCEPT ![c] = Fresh.gap]
    /\ writer' = [writer EXCEPT ![c] = FALSE]
    /\ UNCHANGED <<phase, db, gutted, recv, handle, timeouts, lock>>

\* ... or it cannot read it, and the row stays without an object until the
\* next start.
AddFails(c) ==
    /\ phase # "down" /\ adding[c] = "row"
    /\ adding' = [adding EXCEPT ![c] = "failed"]
    /\ UNCHANGED <<phase, db, place, gutted, stream, lock>>

\* Mutant: m_brun is not tested.
StartAgain(c) ==
    /\ \E t \in Threads :
          /\ recv[c][t] = "none"
          /\ recv' = [recv EXCEPT ![c][t] = "born"]
          /\ handle' = [handle EXCEPT ![c] = t]
    /\ brun' = [brun EXCEPT ![c] = TRUE]
    /\ enable' = [enable EXCEPT ![c] = TRUE]
    /\ UNCHANGED <<gap, timeouts, writer>>

\* start_stream and start_recv_stream when they succeed, followed by
\* start_writer when the plan says so; a camera that runs is left alone.
\* They fail when the login or the socket does, and then change nothing.
Start(c) ==
    /\ IF brun[c]
       THEN UNCHANGED <<brun, enable, recv, handle>>
       ELSE \E t \in Threads :
              /\ c \notin gutted /\ recv[c][t] = "none"
              /\ brun' = [brun EXCEPT ![c] = TRUE]
              /\ enable' = [enable EXCEPT ![c] = TRUE]
              /\ recv' = [recv EXCEPT ![c][t] = "born"]
              /\ handle' = [handle EXCEPT ![c] = t]
    /\ \E planned \in BOOLEAN :
          writer' = [writer EXCEPT ![c] =
                        @ \/ (planned /\ enable'[c])]
    /\ UNCHANGED <<gap, timeouts>>

start_video_stream(c) ==
    /\ CanLock /\ place[c] = "normal"
    /\ Start(c)
    /\ UNCHANGED <<phase, db, adding, place, gutted, lock>>

\* By command, or when a client acknowledges the dialog of its stream.
StartDev(c)   == start_video_stream(c)
ProcessAck(c) == start_video_stream(c)

\* Mutant: the camera is started and left in the reconnect map.
ReconnectInPlace(c) ==
    /\ CanLock /\ place[c] = "reconnect"
    /\ Start(c)
    /\ UNCHANGED <<phase, db, adding, place, gutted, lock>>

\* thread_reconnect, one camera of its map.
Reconnect(c) ==
    /\ CanLock /\ place[c] = "reconnect"
    /\ Start(c)
    /\ place' = [place EXCEPT ![c] = "normal"]
    /\ UNCHANGED <<phase, db, adding, gutted, lock>>

\* thread_check_video_plan, one camera of m_manger_map.
PlanOn(c) ==
    /\ CanLock /\ place[c] = "normal" /\ enable[c]
    /\ writer' = [writer EXCEPT ![c] = TRUE]
    /\ UNCHANGED <<phase, db, adding, place, gutted, brun, enable, recv, handle, gap, timeouts,
                   lock>>

PlanOff(c) ==
    /\ CanLock /\ place[c] = "normal" /\ writer[c]
    /\ writer' = [writer EXCEPT ![c] = FALSE]
    /\ UNCHANGED <<phase, db, adding, place, gutted, brun, enable, recv, handle, gap, timeouts,
                   lock>>
-------------------------------------------------------------------------------
\* delete_stream_sql, with the end of the camera or not.
delete_stream_sql(c) ==
    \/ /\ place' = [place EXCEPT ![c] = "none"] /\ db' = db \ {c}
       /\ gutted' = gutted \ {c}
    \/ gutted' = gutted \cup {c} /\ UNCHANGED <<place, db>>

\* What the caller of stop_recv_stream does after it.  delete_device_sql may
\* fail, and leaves the camera where it is, with its members deleted: the login of
\* its next start is the end of the process (Down).
Finish(op, c) ==
    CASE op = "stop" -> UNCHANGED <<place, db, gutted, phase>>
      [] op = "lost" ->
            /\ place' = [place EXCEPT ![c] = "reconnect"]
            /\ UNCHANGED <<db, gutted, phase>>
      [] op = "delete" -> delete_stream_sql(c) /\ UNCHANGED phase
      [] op = "halt" ->
            /\ place' = [place EXCEPT ![c] = "none"]
            /\ UNCHANGED <<db, gutted, phase>>

\* Who calls stop_recv_stream: stop_video_stream, delete_video_stream, the
\* online check and stop_video.
Calls(op, c) ==
    CASE op = "stop" -> phase = "up" /\ place[c] = "normal"
      [] op = "delete" -> phase = "up" /\ place[c] # "none"
      [] op = "lost" -> phase = "up" /\ place[c] = "normal" /\ gap[c] = "lost"
      [] op = "halt" -> phase = "halting" /\ place[c] = "normal"

\* stop_recv_stream up to pthread_join.
StopRunning(op, c) ==
    /\ lock = Free /\ Calls(op, c) /\ brun[c]
    /\ brun' = [brun EXCEPT ![c] = FALSE]
    /\ writer' = [writer EXCEPT ![c] = FALSE]
    /\ lock' = [op |-> op, cam |-> c]
    /\ UNCHANGED <<phase, db, adding, place, gutted, enable, recv, handle, gap, timeouts>>

\* Mutant: the caller does not wait for the thread.
JoinedAtOnce ==
    /\ lock # Free
    /\ enable' = [enable EXCEPT ![lock.cam] = FALSE]
    /\ Finish(lock.op, lock.cam)
    /\ lock' = Free
    /\ UNCHANGED <<adding, brun, recv, handle, gap, timeouts, writer>>

\* The join returns: the caller logs out and goes on.
Joined ==
    /\ lock # Free
    /\ LET c == lock.cam IN
       /\ handle[c] = 0 \/ recv[c][handle[c]] = "none"
       /\ enable' = [enable EXCEPT ![c] = FALSE]
       /\ Finish(lock.op, c)
    /\ lock' = Free
    /\ UNCHANGED <<adding, brun, recv, handle, gap, timeouts, writer>>

\* stop_recv_stream of a camera that does not run does nothing.
StopIdle(op, c) ==
    /\ lock = Free /\ Calls(op, c) /\ ~brun[c]
    /\ Finish(op, c)
    /\ UNCHANGED <<adding, stream, lock>>

\* stop_video: it does not look at the reconnect map, and the process ends.
Halt ==
    /\ CanLock
    /\ phase' = "halting"
    /\ UNCHANGED <<db, adding, place, gutted, stream, lock>>

\* The process ends, by itself or by a crash: only the table is left.
Down ==
    /\ phase = "up" \/ (phase = "halting" /\ \A c \in Cameras : place[c] # "normal")
    /\ phase' = "down" /\ gutted' = {}
    /\ adding' = [c \in Cameras |-> "no"]
    /\ place' = [c \in Cameras |-> "none"]
    /\ brun' = [c \in Cameras |-> FALSE] /\ enable' = [c \in Cameras |-> FALSE]
    /\ recv' = [c \in Cameras |-> [t \in Threads |-> "none"]]
    /\ handle' = [c \in Cameras |-> 0]
    /\ gap' = [c \in Cameras |-> "never"]
    /\ timeouts' = [c \in Cameras |-> 0]
    /\ writer' = [c \in Cameras |-> FALSE]
    /\ lock' = Free
    /\ UNCHANGED db
-------------------------------------------------------------------------------
(* recv_data_thread *)

Goto(c, t, pc) == recv' = [recv EXCEPT ![c][t] = pc]
Others == <<phase, db, adding, place, gutted, handle, lock, writer>>

\* It sets m_brun again, whatever happened since it was created.
Begin(c, t) ==
    /\ recv[c][t] = "born"
    /\ Goto(c, t, "loop")
    /\ brun' = [brun EXCEPT ![c] = TRUE]
    /\ gap' = [gap EXCEPT ![c] = "fresh"]
    /\ timeouts' = [timeouts EXCEPT ![c] = 0]
    /\ UNCHANGED <<enable, Others>>

\* A packet arrives.
Data(c, t) ==
    /\ recv[c][t] = "loop" /\ brun[c]
    /\ gap' = [gap EXCEPT ![c] = "fresh"]
    /\ UNCHANGED <<brun, enable, recv, timeouts, Others>>

\* No packet for two seconds: the count is never reset.
Timeout(c, t) ==
    /\ recv[c][t] = "loop" /\ brun[c]
    /\ timeouts' = [timeouts EXCEPT ![c] = @ + 1]
    /\ IF timeouts[c] + 1 > TimeoutLimit THEN Goto(c, t, "exit") ELSE UNCHANGED recv
    /\ UNCHANGED <<brun, enable, gap, Others>>

\* The loop's condition.
Leave(c, t) ==
    /\ recv[c][t] = "loop" /\ ~brun[c]
    /\ Goto(c, t, "exit")
    /\ UNCHANGED <<brun, enable, gap, timeouts, Others>>

Exit(c, t) ==
    /\ recv[c][t] = "exit"
    /\ Goto(c, t, "tail")
    /\ brun' = [brun EXCEPT ![c] = FALSE]
    /\ UNCHANGED <<enable, gap, timeouts, Others>>

\* The socket is closed and m_benable cleared.
Tail(c, t) ==
    /\ recv[c][t] = "tail"
    /\ Goto(c, t, "none")
    /\ enable' = [enable EXCEPT ![c] = FALSE]
    /\ UNCHANGED <<brun, gap, timeouts, Others>>

\* Time passes without a packet, or the clock is set.
Age(c) ==
    /\ phase = "up" /\ gap[c] # "never"
    /\ gap' = [gap EXCEPT ![c] = IF @ = "fresh" THEN "lost" ELSE "never"]
    /\ UNCHANGED <<brun, enable, recv, timeouts, Others>>

\* The data_writer ends by itself: no data for long, or a write that fails.
WriterEnds(c) ==
    /\ writer[c]
    /\ writer' = [writer EXCEPT ![c] = FALSE]
    /\ UNCHANGED <<phase, db, adding, place, gutted, brun, enable, recv, handle, gap, timeouts,
                   lock>>

Receiver(c, t) ==
    \/ Begin(c, t) \/ Data(c, t) \/ Timeout(c, t)
    \/ Leave(c, t) \/ Exit(c, t) \/ Tail(c, t)

Next ==
    \/ Load \/ Halt \/ Down \/ Joined
    \/ \E c \in Cameras :
          \/ AddRow(c) \/ AddObject(c) \/ AddFails(c) \/ StartDev(c) \/ ProcessAck(c) \/ Reconnect(c)
          \/ PlanOn(c) \/ PlanOff(c) \/ WriterEnds(c) \/ Age(c)
          \/ \E op \in Ops : StopRunning(op, c) \/ StopIdle(op, c)
          \/ \E t \in Threads : Receiver(c, t)

Spec == Init /\ [][Next]_vars

-------------------------------------------------------------------------------
\* At most one receive thread of a camera (recv_data_thread) reads its socket
\* or is about to: starting tests m_brun, and stopping keeps the lock until
\* the thread has ended.
OneReceiver ==
    \A c \in Cameras :
        Cardinality({t \in Threads : recv[c][t] \in {"born", "loop"}}) <= 1

\* A receive thread that runs belongs to a camera of m_manger_map, where
\* commands and the online check find it, or to one that is being stopped:
\* no move between the two maps leaves a running stream behind.
RunningIsListed ==
    \A c \in Cameras, t \in Threads :
        recv[c][t] \in {"born", "loop"} => place[c] = "normal"

\* While the process is up, video_manger has an object for every row of
\* table device in one of its maps, and for no other camera: no step loses a
\* camera on its way between the maps.  Only the row of a camera that is being
\* added, or whose addition failed behind the insertion, has none
\* (sql_manger.cpp:608).
NoCameraLost ==
    phase = "up" =>
        /\ \A c \in db : place[c] # "none" \/ adding[c] # "no"
        /\ \A c \in Cameras : place[c] # "none" => c \in db /\ adding[c] = "no"

\* A camera in the reconnect map does not run, so that thread_reconnect can
\* start it: stop_recv_stream has returned before the camera is moved.
WaitingIsStopped ==
    \A c \in Cameras : place[c] = "reconnect" => ~brun[c]
===============================================================================
