------------------------------ MODULE DevicesProofs ----------------------------
(***************************************************************************)
(* Proofs about Devices, for every finite set of cameras and of threads    *)
(* and every limit of timeouts.                                            *)
(*                                                                         *)
(* The four safety properties speak of threads, maps and rows one by one.  *)
(* What carries them from step to step is what ties these to each other:   *)
(* m_brun and m_recv_data_pthread name the one thread that has not yet     *)
(* passed the end of its loop (HandleIsActive, ActiveRuns), and whoever    *)
(* waits in pthread_join has the camera fixed where it is (LockCoherent).  *)
(***************************************************************************)
EXTENDS Devices, FiniteSetTheorems, TLAPS

\* A receive thread that has not cleared m_brun yet.
Active(c, t) == recv[c][t] \in {"born", "loop", "exit"}

\* The active thread of a camera is the one pthread_join would wait for, and
\* while m_brun is set there is one.
HandleIsActive ==
    \A c \in Cameras :
        /\ \A t \in Threads : Active(c, t) => handle[c] = t
        /\ brun[c] => handle[c] \in Threads /\ Active(c, handle[c])

\* An active thread has m_brun set, or somebody waits for it with the lock.
ActiveRuns ==
    \A c \in Cameras, t \in Threads :
        Active(c, t) => brun[c] \/ (lock # Free /\ lock.cam = c)

\* An active thread belongs to a camera of m_manger_map.
ActiveIsListed ==
    \A c \in Cameras, t \in Threads : Active(c, t) => place[c] = "normal"

\* A thread goes on receiving only below the limit of timeouts.
LoopCounts ==
    \A c \in Cameras, t \in Threads :
        recv[c][t] = "loop" => timeouts[c] <= TimeoutLimit

\* Whoever waits with the lock works on a camera that is in a map, and it is
\* stop_video exactly when the process is ending; a process that is down has
\* no camera in memory.
LockCoherent ==
    /\ lock # Free => /\ phase # "down"
                      /\ lock.op = "halt" <=> phase = "halting"
                      /\ place[lock.cam] # "none"
    /\ phase = "down" => \A c \in Cameras : place[c] = "none"

\* What is being added has a row and is in no map, as long as the process lives.
AddingCoherent ==
    \A c \in Cameras : adding[c] # "no" =>
        phase # "down" /\ c \in db /\ place[c] = "none"

\* The parts that speak of no type.
Safe ==
    /\ HandleIsActive /\ ActiveRuns /\ ActiveIsListed
    /\ LoopCounts /\ LockCoherent /\ AddingCoherent /\ NoCameraLost

IInv == TypeOK /\ Safe

\* What a thread of its own, or a command, does to one camera.
CameraStep(c) ==
    \/ AddRow(c) \/ AddObject(c) \/ AddFails(c) \/ StartDev(c) \/ ProcessAck(c) \/ Reconnect(c)
    \/ PlanOn(c) \/ PlanOff(c) \/ WriterEnds(c) \/ Age(c)
    \/ \E op \in Ops : StopRunning(op, c) \/ StopIdle(op, c)
-------------------------------------------------------------------------------
(* Type correctness.                                                       *)

\* What a caller of stop_recv_stream does after it keeps the types.
LEMMA FinishType ==
    ASSUME TypeOK, NEW op \in Ops, NEW c \in Cameras, Finish(op, c)
    PROVE  /\ phase' \in {"up", "halting", "down"}
           /\ db' \subseteq Cameras /\ gutted' \subseteq Cameras
           /\ place' \in [Cameras -> {"none", "normal", "reconnect"}]
  BY DEF TypeOK, Finish, delete_stream_sql, Ops

\* The lock is Free, or names an operation and a camera.
LEMMA LockType ==
    ASSUME TypeOK, lock # Free
    PROVE  lock.op \in Ops /\ lock.cam \in Cameras
  BY DEF TypeOK

\* So does start_stream.
LEMMA StartType ==
    ASSUME TypeOK, NEW c \in Cameras, Start(c)
    PROVE  /\ brun' \in [Cameras -> BOOLEAN] /\ enable' \in [Cameras -> BOOLEAN]
           /\ recv' \in [Cameras -> [Threads -> {"none", "born", "loop", "exit", "tail"}]]
           /\ handle' \in [Cameras -> Threads \cup {0}]
           /\ gap' = gap /\ timeouts' = timeouts
           /\ writer' \in [Cameras -> BOOLEAN]
  <1>1. CASE brun[c]
    <2>1. enable' \in [Cameras -> BOOLEAN]
      BY <1>1 DEF Start, TypeOK
    <2>2. writer' \in [Cameras -> BOOLEAN]
      BY <2>1 DEF Start, TypeOK
    <2>3. QED
      BY <1>1, <2>1, <2>2 DEF Start, TypeOK
  <1>2. CASE ~brun[c]
    <2>1. PICK t \in Threads :
             /\ brun' = [brun EXCEPT ![c] = TRUE]
             /\ enable' = [enable EXCEPT ![c] = TRUE]
             /\ recv' = [recv EXCEPT ![c][t] = "born"]
             /\ handle' = [handle EXCEPT ![c] = t]
      BY <1>2 DEF Start
    <2>2. enable' \in [Cameras -> BOOLEAN] /\ brun' \in [Cameras -> BOOLEAN]
      BY <2>1 DEF TypeOK
    <2>3. recv' \in [Cameras -> [Threads -> {"none", "born", "loop", "exit", "tail"}]]
      BY <2>1 DEF TypeOK
    <2>4. handle' \in [Cameras -> Threads \cup {0}]
      BY <2>1 DEF TypeOK
    <2>5. writer' \in [Cameras -> BOOLEAN] /\ gap' = gap /\ timeouts' = timeouts
      BY <2>2 DEF Start, TypeOK
    <2>6. QED
      BY <2>2, <2>3, <2>4, <2>5
  <1>3. QED
    BY <1>1, <1>2

\* So do the operations on one camera.
LEMMA CameraType ==
    ASSUME TypeOK, NEW c \in Cameras, CameraStep(c)
    PROVE  TypeOK'
  <1> USE DevicesAssumption DEF stream
  <1>1. CASE AddRow(c) \/ AddFails(c)
    BY <1>1 DEF AddRow, AddFails, TypeOK
  <1>9. CASE AddObject(c)
    BY <1>9 DEF AddObject, CanLock, TypeOK, Fresh
  <1>2. CASE StartDev(c) \/ ProcessAck(c)
    BY <1>2, StartType DEF StartDev, ProcessAck, start_video_stream, TypeOK
  <1>3. CASE Reconnect(c)
    BY <1>3, StartType DEF Reconnect, TypeOK
  <1>4. CASE PlanOn(c) \/ PlanOff(c) \/ WriterEnds(c)
    BY <1>4 DEF PlanOn, PlanOff, WriterEnds, TypeOK
  <1>5. CASE Age(c)
    BY <1>5 DEF Age, Others, TypeOK
  <1>6. ASSUME NEW op \in Ops, StopRunning(op, c) PROVE TypeOK'
    BY <1>6 DEF StopRunning, TypeOK
  <1>7. ASSUME NEW op \in Ops, StopIdle(op, c) PROVE TypeOK'
    BY <1>7, FinishType DEF StopIdle, TypeOK
  <1>8. QED
    BY <1>1, <1>9, <1>2, <1>3, <1>4, <1>5, <1>6, <1>7 DEF CameraStep

\* So do the steps of a receive thread.
LEMMA ReceiverType ==
    ASSUME TypeOK, NEW c \in Cameras, NEW t \in Threads, Receiver(c, t), LoopCounts
    PROVE  TypeOK'
  <1> USE DevicesAssumption DEF Others, Goto
  <1>1. CASE Begin(c, t)
    BY <1>1 DEF Begin, TypeOK
  <1>2. CASE Data(c, t)
    BY <1>2 DEF Data, TypeOK
  <1>3. CASE Timeout(c, t)
    <2>1. timeouts[c] \in 0 .. TimeoutLimit
      BY <1>3 DEF Timeout, TypeOK, LoopCounts
    <2>2. timeouts' \in [Cameras -> 0 .. TimeoutLimit + 1]
      BY <1>3, <2>1 DEF Timeout, TypeOK
    <2>3. recv' \in [Cameras -> [Threads -> {"none", "born", "loop", "exit", "tail"}]]
      <3>1. recv' = recv \/ recv' = [recv EXCEPT ![c][t] = "exit"]
        BY <1>3 DEF Timeout
      <3>2. QED
        BY <3>1 DEF TypeOK
    <2>4. QED
      BY <1>3, <2>2, <2>3 DEF Timeout, TypeOK
  <1>4. CASE Leave(c, t)
    BY <1>4 DEF Leave, TypeOK
  <1>5. CASE Exit(c, t)
    BY <1>5 DEF Exit, TypeOK
  <1>6. CASE Tail(c, t)
    BY <1>6 DEF Tail, TypeOK
  <1>7. QED
    BY <1>1, <1>2, <1>3, <1>4, <1>5, <1>6 DEF Receiver

\* A process that is down, or goes down, has typed memory without threads.
LEMMA DownType ==
    ASSUME TypeOK, Down
    PROVE  TypeOK'
  BY DevicesAssumption DEF Down, TypeOK

\* The first start of the process is typed.
LEMMA InitTypeOK == Init => TypeOK
  BY DevicesAssumption DEF Init, TypeOK

\* Every step keeps the types.
LEMMA StepType == TypeOK /\ LoopCounts /\ [Next]_vars => TypeOK'
  <1> SUFFICES ASSUME TypeOK, LoopCounts, [Next]_vars PROVE TypeOK'
    OBVIOUS
  <1>1. CASE Load
    BY <1>1 DEF Load, TypeOK, stream
  <1>2. CASE Halt
    BY <1>2 DEF Halt, TypeOK, stream
  <1>3. CASE Down
    BY <1>3, DownType
  <1>4. CASE Joined
    <2>1. lock.op \in Ops /\ lock.cam \in Cameras /\ Finish(lock.op, lock.cam)
      BY <1>4, LockType DEF Joined
    <2>2. QED
      BY <1>4, <2>1, FinishType DEF Joined, TypeOK
  <1>5. ASSUME NEW c \in Cameras, CameraStep(c) PROVE TypeOK'
    BY <1>5, CameraType
  <1>6. ASSUME NEW c \in Cameras, NEW t \in Threads, Receiver(c, t) PROVE TypeOK'
    BY <1>6, ReceiverType
  <1>7. CASE UNCHANGED vars
    BY <1>7 DEF vars, stream, TypeOK
  <1>8. QED
    BY <1>1, <1>2, <1>3, <1>4, <1>5, <1>6, <1>7 DEF Next, CameraStep
-------------------------------------------------------------------------------
(* The inductive invariant.                                                *)

\* At the first start nothing is in memory.
LEMMA InitSafe == Init => Safe
  BY DevicesAssumption
  DEF Init, Safe, HandleIsActive, ActiveRuns, ActiveIsListed, LoopCounts, LockCoherent,
      AddingCoherent, NoCameraLost, Active

\* Memory without threads and objects is safe, whatever table device says.
LEMMA DownSafe ==
    ASSUME Down
    PROVE  Safe'
  BY DevicesAssumption
  DEF Down, Safe, HandleIsActive, ActiveRuns, ActiveIsListed, LoopCounts, LockCoherent,
      AddingCoherent, NoCameraLost, Active

\* Starting a camera of m_manger_map makes its one active thread, or leaves it
\* the one it has: m_brun is clear only when no thread is active.
LEMMA StartSafe ==
    ASSUME TypeOK, Safe, NEW c \in Cameras, lock = Free, phase = "up", place[c] # "none",
           Start(c), place' = [place EXCEPT ![c] = "normal"], UNCHANGED <<phase, db, adding, gutted, lock>>
    PROVE  Safe'
  <1>1. UNCHANGED timeouts
    BY DEF Start
  <1>2. CASE brun[c]
    <2>1. UNCHANGED <<brun, enable, recv, handle>>
      BY <1>2 DEF Start
    <2>2. QED
      BY <1>1, <2>1 DEF Safe, HandleIsActive, ActiveRuns, ActiveIsListed, LoopCounts,
                        LockCoherent, AddingCoherent, NoCameraLost, Active, TypeOK
  <1>3. CASE ~brun[c]
    <2>1. PICK t \in Threads :
             /\ brun' = [brun EXCEPT ![c] = TRUE]
             /\ recv' = [recv EXCEPT ![c][t] = "born"]
             /\ handle' = [handle EXCEPT ![c] = t]
      BY <1>3 DEF Start
    <2>2. \A u \in Threads : ~Active(c, u)
      BY <1>3 DEF Safe, ActiveRuns
    <2>3. HandleIsActive'
      BY <2>1, <2>2 DEF Safe, HandleIsActive, Active, TypeOK
    <2>4. ActiveRuns' /\ ActiveIsListed'
      BY <2>1, <2>2 DEF Safe, ActiveRuns, ActiveIsListed, Active, TypeOK
    <2>5. LoopCounts'
      BY <1>1, <2>1 DEF Safe, LoopCounts, TypeOK
    <2>6. LockCoherent' /\ AddingCoherent' /\ NoCameraLost'
      BY DEF Safe, LockCoherent, AddingCoherent, NoCameraLost, TypeOK
    <2>7. QED
      BY <2>3, <2>4, <2>5, <2>6 DEF Safe
  <1>4. QED
    BY <1>2, <1>3

\* Whoever finishes with a camera that has no active thread may move it.
LEMMA FinishSafe ==
    ASSUME TypeOK, Safe, NEW op \in Ops, NEW c \in Cameras, Finish(op, c),
           \A t \in Threads : ~Active(c, t),
           phase # "down", (op = "halt") <=> (phase = "halting"), place[c] # "none",
           lock # Free => lock.cam = c,
           lock' = Free, UNCHANGED <<adding, brun, recv, handle, timeouts>>
    PROVE  Safe'
  <1>1. phase' = phase /\ \A d \in Cameras \ {c} : place'[d] = place[d] /\ (d \in db' <=> d \in db)
    BY DEF Finish, delete_stream_sql, Ops, TypeOK
  <1>2. HandleIsActive' /\ LoopCounts'
    BY DEF Safe, HandleIsActive, LoopCounts, Active
  <1>3. ActiveRuns' /\ ActiveIsListed'
    BY <1>1 DEF Safe, ActiveRuns, ActiveIsListed, Active
  <1>4. LockCoherent'
    BY <1>1 DEF Safe, LockCoherent
  <1>5. AddingCoherent' /\ NoCameraLost'
    <2>1. adding[c] = "no"
      BY DEF Safe, AddingCoherent, TypeOK
    <2>2. AddingCoherent'
      BY <1>1, <2>1 DEF Safe, AddingCoherent
    <2>3. NoCameraLost'
      <3>1. CASE phase # "up"
        BY <1>1, <3>1 DEF NoCameraLost
      <3>2. CASE phase = "up"
        <4>1. c \in db
          BY <3>2 DEF Safe, NoCameraLost
        <4>2. \/ c \in db' /\ place'[c] # "none"
              \/ c \notin db' /\ place'[c] = "none"
          BY <3>2, <4>1 DEF Finish, delete_stream_sql, Ops, TypeOK
        <4>3. \A d \in Cameras \ {c} :
                 /\ d \in db => place[d] # "none" \/ adding[d] # "no"
                 /\ place[d] # "none" => d \in db /\ adding[d] = "no"
          BY <3>2 DEF Safe, NoCameraLost
        <4>4. db' \subseteq db
          BY DEF Finish, delete_stream_sql, Ops
        <4>5. \A d \in Cameras :
                 /\ d \in db' => place'[d] # "none" \/ adding[d] # "no"
                 /\ place'[d] # "none" => d \in db' /\ adding[d] = "no"
          BY <1>1, <2>1, <4>2, <4>3
        <4>6. QED
          BY <4>4, <4>5 DEF NoCameraLost, TypeOK
      <3>3. QED
        BY <3>1, <3>2
    <2>4. QED
      BY <2>2, <2>3
  <1>6. QED
    BY <1>2, <1>3, <1>4, <1>5 DEF Safe

\* Every operation on one camera keeps the invariant.
LEMMA CameraSafe ==
    ASSUME TypeOK, Safe, NEW c \in Cameras, CameraStep(c)
    PROVE  Safe'
  <1> USE DevicesAssumption DEF stream, CanLock
  <1>1. CASE AddObject(c)
    <2>1. /\ phase = "up" /\ lock = Free /\ adding[c] = "row"
          /\ adding' = [adding EXCEPT ![c] = "no"]
          /\ brun' = [brun EXCEPT ![c] = FALSE]
          /\ place' = [place EXCEPT ![c] = "normal"]
          /\ UNCHANGED <<phase, db, recv, handle, timeouts, lock>>
      BY <1>1 DEF AddObject, Fresh
    <2>2. c \in db /\ place[c] = "none" /\ \A t \in Threads : ~Active(c, t)
      BY <2>1 DEF Safe, AddingCoherent, ActiveIsListed
    <2>3. HandleIsActive' /\ ActiveRuns'
      BY <2>1, <2>2 DEF Safe, HandleIsActive, ActiveRuns, Active, TypeOK
    <2>4. ActiveIsListed' /\ LoopCounts'
      BY <2>1, <2>2 DEF Safe, ActiveIsListed, LoopCounts, Active, TypeOK
    <2>5. LockCoherent' /\ AddingCoherent' /\ NoCameraLost'
      BY <2>1, <2>2 DEF Safe, LockCoherent, AddingCoherent, NoCameraLost, TypeOK
    <2>6. QED
      BY <2>3, <2>4, <2>5 DEF Safe
  <1>8. CASE AddRow(c) \/ AddFails(c)
    <2>1. /\ UNCHANGED <<phase, place, brun, recv, handle, timeouts, lock>>
          /\ db' = db \cup {c} /\ phase # "down" /\ place[c] = "none"
          /\ \E a \in {"row", "failed"} : adding' = [adding EXCEPT ![c] = a]
      <3>1. CASE AddRow(c)
        BY <3>1 DEF AddRow
      <3>2. CASE AddFails(c)
        BY <3>2 DEF AddFails, Safe, AddingCoherent
      <3>3. QED
        BY <1>8, <3>1, <3>2
    <2>2. HandleIsActive' /\ ActiveRuns' /\ ActiveIsListed' /\ LoopCounts' /\ LockCoherent'
      BY <2>1 DEF Safe, HandleIsActive, ActiveRuns, ActiveIsListed, LoopCounts, LockCoherent, Active
    <2>3. AddingCoherent' /\ NoCameraLost'
      BY <2>1 DEF Safe, AddingCoherent, NoCameraLost, TypeOK
    <2>4. QED
      BY <2>2, <2>3 DEF Safe
  <1>2. CASE StartDev(c) \/ ProcessAck(c)
    <2>1. place' = [place EXCEPT ![c] = "normal"]
      BY <1>2 DEF StartDev, ProcessAck, start_video_stream, TypeOK
    <2>2. QED
      BY <1>2, <2>1, StartSafe DEF StartDev, ProcessAck, start_video_stream
  <1>3. CASE Reconnect(c)
    BY <1>3, StartSafe DEF Reconnect
  <1>4. CASE PlanOn(c) \/ PlanOff(c) \/ WriterEnds(c) \/ Age(c)
    <2>1. UNCHANGED <<phase, db, adding, place, brun, recv, handle, timeouts, lock>>
      BY <1>4 DEF PlanOn, PlanOff, WriterEnds, Age, Others
    <2>2. QED
      BY <2>1 DEF Safe, HandleIsActive, ActiveRuns, ActiveIsListed, LoopCounts, LockCoherent,
                  AddingCoherent, NoCameraLost, Active
  <1>5. ASSUME NEW op \in Ops, StopRunning(op, c) PROVE Safe'
    <2>1. /\ phase # "down" /\ (op = "halt" <=> phase = "halting") /\ place[c] # "none"
      BY <1>5 DEF StopRunning, Calls, Ops
    <2>2. /\ lock = Free /\ lock' = [op |-> op, cam |-> c]
          /\ brun' = [brun EXCEPT ![c] = FALSE]
          /\ UNCHANGED <<phase, db, adding, place, recv, handle, timeouts>>
      BY <1>5 DEF StopRunning
    <2>3. lock'.op = op /\ lock'.cam = c /\ lock' # Free
      BY <2>2 DEF Free, Ops
    <2>4. HandleIsActive' /\ ActiveRuns'
      BY <2>2, <2>3 DEF Safe, HandleIsActive, ActiveRuns, Active, TypeOK
    <2>5. ActiveIsListed' /\ LoopCounts' /\ LockCoherent' /\ AddingCoherent' /\ NoCameraLost'
      BY <2>1, <2>2, <2>3 DEF Safe, ActiveIsListed, LoopCounts, LockCoherent, AddingCoherent,
                              NoCameraLost, Active
    <2>6. QED
      BY <2>4, <2>5 DEF Safe
  <1>6. ASSUME NEW op \in Ops, StopIdle(op, c) PROVE Safe'
    <2>1. /\ phase # "down" /\ (op = "halt" <=> phase = "halting") /\ place[c] # "none"
      BY <1>6 DEF StopIdle, Calls, Ops
    <2>2. \A t \in Threads : ~Active(c, t)
      BY <1>6 DEF StopIdle, Safe, ActiveRuns
    <2>3. QED
      BY <1>6, <2>1, <2>2, FinishSafe DEF StopIdle
  <1>7. QED
    BY <1>1, <1>8, <1>2, <1>3, <1>4, <1>5, <1>6 DEF CameraStep

\* So does every step of a receive thread.
LEMMA ReceiverSafe ==
    ASSUME TypeOK, Safe, NEW c \in Cameras, NEW t \in Threads, Receiver(c, t)
    PROVE  Safe'
  <1> USE DevicesAssumption DEF Others, Goto
  <1>0. /\ UNCHANGED <<phase, db, adding, place, handle, lock>>
        /\ LockCoherent' /\ AddingCoherent' /\ NoCameraLost'
    <2>1. UNCHANGED <<phase, db, adding, place, handle, lock>>
      BY DEF Receiver, Begin, Data, Timeout, Leave, Exit, Tail
    <2>2. QED
      BY <2>1 DEF Safe, LockCoherent, AddingCoherent, NoCameraLost
  <1>1. CASE Begin(c, t)
    <2>1. /\ Active(c, t) /\ recv' = [recv EXCEPT ![c][t] = "loop"]
          /\ brun' = [brun EXCEPT ![c] = TRUE] /\ timeouts' = [timeouts EXCEPT ![c] = 0]
      BY <1>1 DEF Begin, Active
    <2>2. HandleIsActive'
      BY <1>0, <2>1 DEF Safe, HandleIsActive, Active, TypeOK
    <2>3. ActiveRuns' /\ ActiveIsListed'
      BY <1>0, <2>1 DEF Safe, ActiveRuns, ActiveIsListed, Active, TypeOK
    <2>4. LoopCounts'
      BY <2>1 DEF Safe, LoopCounts, TypeOK
    <2>5. QED
      BY <1>0, <2>2, <2>3, <2>4 DEF Safe
  <1>2. CASE Data(c, t)
    BY <1>0, <1>2 DEF Data, Safe, HandleIsActive, ActiveRuns, ActiveIsListed, LoopCounts, Active
  <1>3. CASE Timeout(c, t) \/ Leave(c, t)
    <2>1. /\ Active(c, t) /\ brun' = brun
          /\ \A d \in Cameras, u \in Threads :
                 /\ Active(d, u)' <=> Active(d, u)
                 /\ recv'[d][u] = "loop" => recv[d][u] = "loop"
      BY <1>3, SMTT(20) DEF Timeout, Leave, Active, TypeOK
    <2>2. HandleIsActive' /\ ActiveRuns' /\ ActiveIsListed'
      BY <1>0, <2>1 DEF Safe, HandleIsActive, ActiveRuns, ActiveIsListed, TypeOK
    <2>3. \A u \in Threads : recv[c][u] = "loop" => u = t
      BY <1>3 DEF Timeout, Leave, Safe, HandleIsActive, Active
    <2>4. LoopCounts'
      <3> SUFFICES ASSUME NEW d \in Cameras, NEW u \in Threads, recv'[d][u] = "loop"
                   PROVE  timeouts'[d] <= TimeoutLimit
        BY DEF LoopCounts
      <3>1. timeouts[d] <= TimeoutLimit /\ timeouts[d] \in Int
        BY <2>1 DEF Safe, LoopCounts, TypeOK
      <3>2. CASE d # c \/ Leave(c, t)
        BY <1>3, <3>1, <3>2 DEF Timeout, Leave, TypeOK
      <3>3. CASE d = c /\ Timeout(c, t)
        <4>1. u = t
          BY <2>1, <2>3, <3>3
        <4>2. ~(timeouts[c] + 1 > TimeoutLimit)
          BY <3>3, <4>1 DEF Timeout, TypeOK
        <4>3. timeouts'[c] = timeouts[c] + 1
          BY <3>3 DEF Timeout, TypeOK
        <4>4. QED
          BY <3>1, <3>3, <4>2, <4>3
      <3>4. QED
        BY <1>3, <3>2, <3>3
    <2>5. QED
      BY <1>0, <2>2, <2>4 DEF Safe
  <1>4. CASE Exit(c, t)
    <2>1. /\ Active(c, t) /\ recv' = [recv EXCEPT ![c][t] = "tail"]
          /\ brun' = [brun EXCEPT ![c] = FALSE] /\ timeouts' = timeouts
      BY <1>4 DEF Exit, Active
    <2>2. \A u \in Threads : Active(c, u) => u = t
      BY <2>1 DEF Safe, HandleIsActive
    <2>3. HandleIsActive'
      BY <1>0, <2>1, <2>2 DEF Safe, HandleIsActive, Active, TypeOK
    <2>4. ActiveRuns' /\ ActiveIsListed' /\ LoopCounts'
      BY <1>0, <2>1, <2>2 DEF Safe, ActiveRuns, ActiveIsListed, LoopCounts, Active, TypeOK
    <2>5. QED
      BY <1>0, <2>3, <2>4 DEF Safe
  <1>5. CASE Tail(c, t)
    <2>1. /\ recv[c][t] = "tail" /\ recv' = [recv EXCEPT ![c][t] = "none"]
          /\ UNCHANGED <<brun, timeouts>>
      BY <1>5 DEF Tail
    <2>2. HandleIsActive'
      BY <1>0, <2>1 DEF Safe, HandleIsActive, Active, TypeOK
    <2>3. ActiveRuns' /\ ActiveIsListed' /\ LoopCounts'
      BY <1>0, <2>1 DEF Safe, ActiveRuns, ActiveIsListed, LoopCounts, Active, TypeOK
    <2>4. QED
      BY <1>0, <2>2, <2>3 DEF Safe
  <1>6. QED
    BY <1>1, <1>2, <1>3, <1>4, <1>5 DEF Receiver

\* Every step keeps the invariant.
LEMMA StepSafe == TypeOK /\ Safe /\ [Next]_vars => Safe'
  <1> SUFFICES ASSUME TypeOK, Safe, [Next]_vars PROVE Safe'
    OBVIOUS
  <1>1. CASE Load
    <2>1. \A c \in Cameras, t \in Threads : ~Active(c, t)
      BY <1>1 DEF Load, Safe, ActiveIsListed, LockCoherent
    <2>2. \A c \in Cameras : ~brun[c]
      BY <2>1 DEF Safe, HandleIsActive
    <2>3. lock = Free
      BY <1>1 DEF Load, Safe, LockCoherent
    <2>4. QED
      BY <1>1, <2>1, <2>2, <2>3
      DEF Load, stream, Safe, HandleIsActive, ActiveRuns, ActiveIsListed, LoopCounts,
          LockCoherent, AddingCoherent, NoCameraLost, Active, TypeOK
  <1>2. CASE Halt
    BY <1>2
    DEF Halt, CanLock, stream, Safe, HandleIsActive, ActiveRuns, ActiveIsListed, LoopCounts,
        LockCoherent, AddingCoherent, NoCameraLost, Active
  <1>3. CASE Down
    BY <1>3, DownSafe
  <1>4. CASE Joined
    <2>1. lock.op \in Ops /\ lock.cam \in Cameras /\ Finish(lock.op, lock.cam)
      BY <1>4, LockType DEF Joined
    <2>2. \A t \in Threads : ~Active(lock.cam, t)
      BY <1>4, <2>1, DevicesAssumption DEF Joined, Safe, HandleIsActive, Active
    <2>3. /\ phase # "down" /\ (lock.op = "halt" <=> phase = "halting")
          /\ place[lock.cam] # "none"
      BY <1>4 DEF Joined, Safe, LockCoherent
    <2>4. QED
      BY <1>4, <2>1, <2>2, <2>3, FinishSafe DEF Joined
  <1>5. ASSUME NEW c \in Cameras, CameraStep(c) PROVE Safe'
    BY <1>5, CameraSafe
  <1>6. ASSUME NEW c \in Cameras, NEW t \in Threads, Receiver(c, t) PROVE Safe'
    BY <1>6, ReceiverSafe
  <1>7. CASE UNCHANGED vars
    BY <1>7
    DEF vars, stream, Safe, HandleIsActive, ActiveRuns, ActiveIsListed, LoopCounts,
        LockCoherent, AddingCoherent, NoCameraLost, Active
  <1>8. QED
    BY <1>1, <1>2, <1>3, <1>4, <1>5, <1>6, <1>7 DEF Next, CameraStep

\* The inductive invariant holds of any number of cameras and threads.
THEOREM InvariantAlways == Spec => []IInv
  <1>1. Init => TypeOK /\ Safe
    BY InitTypeOK, InitSafe
  <1>2. TypeOK /\ Safe /\ [Next]_vars => TypeOK' /\ Safe'
    BY StepType, StepSafe DEF Safe
  <1>3. QED
    BY <1>1, <1>2, PTL DEF Spec, IInv
-------------------------------------------------------------------------------
(* What follows from it.                                                   *)

\* No interleaving of commands, checks and threads gives a camera two threads
\* that read its socket (recv_data_thread).
THEOREM OneReceiverAlways == Spec => []OneReceiver
  <1>1. IInv => OneReceiver
    <2> SUFFICES ASSUME IInv, NEW c \in Cameras
                 PROVE  Cardinality({t \in Threads : recv[c][t] \in {"born", "loop"}}) <= 1
      BY DEF OneReceiver
    <2> DEFINE S == {t \in Threads : recv[c][t] \in {"born", "loop"}}
    <2>1. S \subseteq {handle[c]}
      BY DEF IInv, Safe, HandleIsActive, Active
    <2>2. IsFiniteSet({handle[c]}) /\ Cardinality({handle[c]}) = 1
      BY FS_Singleton
    <2>3. Cardinality(S) <= Cardinality({handle[c]})
      BY <2>1, <2>2, FS_Subset
    <2>4. QED
      BY <2>2, <2>3
  <1>2. QED
    BY <1>1, InvariantAlways, PTL

\* No move between the maps leaves a running stream behind.
THEOREM RunningIsListedAlways == Spec => []RunningIsListed
  <1>1. IInv => RunningIsListed
    BY DEF IInv, Safe, ActiveIsListed, Active, RunningIsListed
  <1>2. QED
    BY <1>1, InvariantAlways, PTL

\* A camera in the reconnect map is one thread_reconnect can start.
THEOREM WaitingIsStoppedAlways == Spec => []WaitingIsStopped
  <1>1. IInv => WaitingIsStopped
    BY DEF IInv, Safe, HandleIsActive, ActiveIsListed, WaitingIsStopped
  <1>2. QED
    BY <1>1, InvariantAlways, PTL

\* No camera of table device is ever without an object while the process is up,
\* but for one that is being added or could not be.
THEOREM NoCameraLostAlways == Spec => []NoCameraLost
  <1>1. IInv => NoCameraLost
    BY DEF IInv, Safe
  <1>2. QED
    BY <1>1, InvariantAlways, PTL
===============================================================================
