------------------------------ MODULE BlockPool -------------------------------
(***************************************************************************)
(* The preallocated file blocks of the recorder and the threads that share *)
(* them: the catalogue of blocks in SQLite (sql_manger), the list of       *)
(* preallocated blocks and the thread that fills it (video_manger), and    *)
(* the writer thread of each camera that consumes them (data_writer).      *)
(*                                                                         *)
(* A catalogue operation holds m_db_lock from its first to its last        *)
(* statement and is one step.  m_stream_lock is the variable lock.  Steps  *)
(* that no lock protects are as fine as the race they take part in:        *)
(* pre_file sets m_prefile and then m_prefile_id while the writer reads    *)
(* and clears the two in the same order, and get_free_block appends to     *)
(* m_pripair_file_list under m_db_lock while a writer pops it under        *)
(* m_stream_lock.                                                          *)
(*                                                                         *)
(* A writer is stopped under m_stream_lock by cancelling and joining its   *)
(* thread; it may then be waiting for that lock, or hold m_db_lock.  One   *)
(* thread at a time runs on a data_writer here.                            *)
(***************************************************************************)
EXTENDS Integers, FiniteSets

CONSTANTS
    Blocks,     \* rows of table video_file, one per preallocated file
    Devices,    \* cameras
    NoBlock,    \* the empty m_prefile, file id 0, a NULL m_datafp
    Free,       \* m_stream_lock is not held
    Prep,       \* the thread thread_check_prepair_fileblock
    Stop,       \* a thread that stops a writer
    Spare       \* blocks kept in the list beyond one per device (2 in the code)

ASSUME PoolAssumption ==
    /\ IsFiniteSet(Blocks)
    /\ IsFiniteSet(Devices)
    /\ NoBlock \notin Blocks
    /\ Free \notin Devices \cup {Prep}
    /\ Prep \notin Devices
    /\ Stop \notin Devices \cup {Free, Prep}
    /\ Devices \cap {"free", "pool", "lost"} = {}    \* the owners in FileBlocks
    /\ Spare \in Nat

VARIABLES
    status,     \* video_file.file_status of each block
    ord,        \* position of each block in the order of video_file.start_time
    list,       \* m_pripair_file_list
    broken,     \* the links of m_pripair_file_list are corrupted
    running,    \* the keys of m_manger_map
    lock,       \* who holds m_stream_lock
    prefile,    \* data_writer.m_prefile, as the block it names
    prefile_id, \* data_writer.m_prefile_id
    datafp,     \* the block m_datafp is open on
    current,    \* m_file_current_id, while m_datafp is open
    wpc,        \* control point of each writer thread
    ppc,        \* control point of the preallocation thread
    need,       \* its local stream_num
    short,      \* its local nget-nval, or its argument of the second recycling
    todo,       \* the devices its loop over m_manger_map has still to visit
    handing,    \* the file_id that pre_file has still to store, by device
    stopping,   \* why the holder of m_stream_lock waits for the end of a writer
    db_held,    \* a cancelled thread has left m_db_lock locked
    up          \* the process is running

catalogue == <<status, ord>>
pool      == <<list, broken>>
prefiles  == <<prefile, prefile_id>>
files     == <<datafp, current>>
prep      == <<ppc, need, short, todo, handing>>
proc      == <<stopping, db_held, up>>
vars      == <<catalogue, pool, running, lock, prefiles, files, wpc, prep, proc>>

Statuses == {"NEW", "VIDEO", "ING", "PRE"}
WriterPoints == {"idle", "run", "open", "wait", "fetch", "pop", "reopen", "clear", "clear_id",
                 "index"}
PrepPoints == {"sleep", "get", "recycle", "get2", "check", "recycle2", "get3",
               "check3", "lock", "give", "give_id", "exit"}
Reasons == {"no", "plan", "detach", "remove", "exit"}

None == [d \in Devices |-> NoBlock]
-------------------------------------------------------------------------------
(* The catalogue operations of sql_manger, under m_db_lock.                *)

\* The blocks with status st that come first by start_time, at most n of
\* them.  A negative LIMIT is no limit.
Oldest(st, n) ==
    {b \in Blocks :
        /\ status[b] = st
        /\ n < 0 \/ Cardinality({c \in Blocks : status[c] = st /\ ord[c] < ord[b]}) < n}

\* start_video_file_sql: the row of b is in use and its start_time is now.
\* An id that names no row updates none.
StartRow(b) ==
    /\ ~db_held
    /\ IF b = NoBlock THEN UNCHANGED catalogue
       ELSE /\ status' = [status EXCEPT ![b] = "ING"]
            /\ ord' = [c \in Blocks |-> IF c = b THEN Cardinality(Blocks)
                                        ELSE IF ord[c] > ord[b] THEN ord[c] - 1
                                        ELSE ord[c]]

\* Mutant: the row is closed with the next status of the enumeration.
StopRowWrongStatus(b) ==
    /\ status' = IF b = NoBlock THEN status ELSE [status EXCEPT ![b] = "IVIDEO"]
    /\ UNCHANGED ord

\* stop_video_file_sql: the row of b is a finished recording.
StopRow(b) ==
    /\ ~db_held
    /\ status' = IF b = NoBlock THEN status ELSE [status EXCEPT ![b] = "VIDEO"]
    /\ UNCHANGED ord

\* recycle_file_block: the n oldest finished recordings become free.
RecycleFileBlock(n) ==
    /\ ~db_held
    /\ status' = [b \in Blocks |-> IF b \in Oldest("VIDEO", n) THEN "NEW" ELSE status[b]]
    /\ UNCHANGED ord

\* A writer is about to pop the list it has seen not empty.
Popping == \E d \in Devices : wpc[d] = "pop" /\ prefile[d] = NoBlock

\* get_free_block: the blocks of S get status PRE and are appended to the
\* list.  An append that overlaps the removal of the only element may link the
\* new ones behind the removed one: the list then looks empty for ever, and
\* what is appended is lost.
GetFreeBlock(S) ==
    /\ ~db_held
    /\ status' = [b \in Blocks |-> IF b \in S THEN "PRE" ELSE status[b]]
    /\ UNCHANGED ord
    /\ \/ /\ ~broken
          /\ list' = list \cup S
          /\ UNCHANGED broken
       \/ /\ broken \/ (S # {} /\ Popping /\ Cardinality(list) = 1)
          /\ broken' = TRUE
          /\ UNCHANGED list
-------------------------------------------------------------------------------
(* Memory of a process that is not running, and its end.                   *)

MemoryCleared ==
    /\ list' = {} /\ broken' = FALSE
    /\ running' = {} /\ lock' = Free
    /\ prefile' = None /\ prefile_id' = None
    /\ datafp' = None /\ current' = None
    /\ wpc' = [d \in Devices |-> "idle"]
    /\ ppc' = "sleep" /\ need' = 0 /\ short' = 0 /\ todo' = {}
    /\ handing' = None
    /\ stopping' = [d \in Devices |-> "no"] /\ db_held' = FALSE

Init ==
    /\ status = [b \in Blocks |-> "NEW"]
    /\ ord \in [Blocks -> 1 .. Cardinality(Blocks)]
    /\ \A b, c \in Blocks : b # c => ord[b] # ord[c]
    /\ list = {} /\ broken = FALSE
    /\ running = {} /\ lock = Free
    /\ prefile = None /\ prefile_id = None
    /\ datafp = None /\ current = None
    /\ wpc = [d \in Devices |-> "idle"]
    /\ ppc = "sleep" /\ need = 0 /\ short = 0 /\ todo = {}
    /\ handing = None
    /\ stopping = [d \in Devices |-> "no"] /\ db_held = FALSE
    /\ up = TRUE

\* The process dies: killed, out of power, or exit().
Crash ==
    /\ up
    /\ up' = FALSE
    /\ MemoryCleared
    /\ UNCHANGED catalogue

\* The next start: repair_db frees the preallocated blocks and finishes the
\* recordings that were in use, those whose device's index file can be opened.
Restart ==
    /\ ~up
    /\ up' = TRUE
    /\ \E unreadable \in SUBSET {b \in Blocks : status[b] = "ING"} :
          status' = [b \in Blocks |->
              IF status[b] = "PRE" THEN "NEW"
              ELSE IF status[b] = "ING" /\ b \notin unreadable THEN "VIDEO"
              ELSE status[b]]
    /\ UNCHANGED <<ord, pool, running, lock, prefiles, files, wpc, prep, stopping, db_held>>
-------------------------------------------------------------------------------
(* The life of a writer thread, driven by the other threads of             *)
(* video_manger under m_stream_lock.                                       *)

\* close_file: the row named by m_file_current_id is finished.
CloseFile(d) ==
    /\ IF datafp[d] = NoBlock THEN UNCHANGED catalogue ELSE StopRow(current[d])
    /\ datafp' = [datafp EXCEPT ![d] = NoBlock]
    /\ current' = [current EXCEPT ![d] = NoBlock]

\* A device enters m_manger_map, with or without a recording to start.
Attach(d) ==
    /\ up /\ lock = Free /\ d \notin running
    /\ running' = running \cup {d}
    /\ \/ UNCHANGED wpc
       \/ wpc[d] = "idle" /\ wpc' = [wpc EXCEPT ![d] = "run"]
    /\ UNCHANGED <<catalogue, pool, lock, prefiles, files, prep, proc>>

\* The recording plan starts the writer.
StartWriter(d) ==
    /\ up /\ lock = Free /\ d \in running /\ wpc[d] = "idle"
    /\ wpc' = [wpc EXCEPT ![d] = "run"]
    /\ UNCHANGED <<catalogue, pool, running, lock, prefiles, files, prep, proc>>

\* The writer ends between two buffers: no data came, or a write failed.
EndWriter(d) ==
    /\ up /\ wpc[d] = "run" /\ ~db_held
    /\ CloseFile(d)
    /\ wpc' = [wpc EXCEPT ![d] = "idle"]
    /\ UNCHANGED <<pool, running, lock, prefiles, prep, proc>>

\* stop_thead begins: by the plan, or because the device sends nothing and
\* leaves m_manger_map for the reconnect map, or because it is deleted from
\* either map.  The thread is told to end and cancelled, and awaited under
\* m_stream_lock.
StopWriter(d, why) ==
    /\ up /\ lock = Free
    /\ why = "remove" \/ d \in running
    /\ lock' = Stop
    /\ stopping' = [stopping EXCEPT ![d] = why]
    /\ UNCHANGED <<catalogue, pool, running, prefiles, files, wpc, prep, db_held, up>>

\* A thread that is to end does so between two buffers, or when fwrite or
\* fopen act on the cancellation.
Cancelled(d) ==
    /\ up /\ stopping[d] # "no"
    /\ \/ wpc[d] \in {"run", "reopen", "index"}
       \/ wpc[d] = "open" /\ prefile[d] # NoBlock
    /\ wpc' = [wpc EXCEPT ![d] = "idle"]
    /\ UNCHANGED <<catalogue, pool, running, lock, prefiles, files, prep, proc>>

\* The cancellation may act inside stop_video_file_sql or start_video_file_sql,
\* before or after their commit: nothing unlocks m_db_lock.
CancelledInCatalogue(d) ==
    /\ up /\ stopping[d] # "no"
    /\ \/ /\ wpc[d] = "run" /\ datafp[d] # NoBlock
          /\ StopRow(current[d]) \/ (~db_held /\ UNCHANGED catalogue)
          /\ UNCHANGED files
       \/ /\ wpc[d] \in {"open", "reopen"} /\ prefile[d] # NoBlock
          /\ datafp' = [datafp EXCEPT ![d] = prefile[d]]
          /\ current' = [current EXCEPT ![d] = prefile_id[d]]
          /\ StartRow(prefile_id[d]) \/ (~db_held /\ UNCHANGED catalogue)
    /\ db_held' = TRUE
    /\ wpc' = [wpc EXCEPT ![d] = "idle"]
    /\ UNCHANGED <<pool, running, lock, prefiles, prep, stopping, up>>

\* The thread has ended, or none was running: stop_thead closes the file and
\* its caller does what it stopped the writer for.  The data_writer of a
\* deleted device goes with the block it was given; the device may be added
\* again.
Joined(d) ==
    /\ up /\ stopping[d] # "no" /\ wpc[d] = "idle" /\ ~db_held
    /\ CloseFile(d)
    /\ stopping' = [stopping EXCEPT ![d] = "no"]
    /\ IF stopping[d] = "exit" THEN UNCHANGED lock ELSE lock' = Free
    /\ running' = IF stopping[d] \in {"detach", "remove"} THEN running \ {d} ELSE running
    /\ IF stopping[d] = "remove"
       THEN /\ prefile' = [prefile EXCEPT ![d] = NoBlock]
            /\ prefile_id' = [prefile_id EXCEPT ![d] = NoBlock]
       ELSE UNCHANGED prefiles
    /\ UNCHANGED <<pool, wpc, prep, db_held, up>>

\* The receive thread of a device without data has ended already: then
\* stop_recv_stream stops no writer.
Detach(d) ==
    /\ up /\ lock = Free /\ d \in running
    /\ running' = running \ {d}
    /\ UNCHANGED <<catalogue, pool, lock, prefiles, files, wpc, prep, proc>>
-------------------------------------------------------------------------------
(* The writer thread: writer_file and open_file.                           *)

\* Data arrived and no file is open, or the open one is full or its index
\* is: close_file, then open_file.
NextFile(d) ==
    /\ up /\ wpc[d] = "run"
    /\ CloseFile(d)
    /\ wpc' = [wpc EXCEPT ![d] = "open"]
    /\ UNCHANGED <<pool, running, lock, prefiles, prep, proc>>

\* open_file finds no name, a test that no lock protects, and calls
\* prepair_file_block: from here the thread waits for m_stream_lock, whatever
\* it is given meanwhile.
AskForBlock(d) ==
    /\ up /\ wpc[d] = "open" /\ prefile[d] = NoBlock
    /\ wpc' = [wpc EXCEPT ![d] = "wait"]
    /\ UNCHANGED <<catalogue, pool, running, lock, prefiles, files, prep, proc>>

\* prepair_file_block takes m_stream_lock; when the list is empty it recycles
\* one block per device of m_manger_map ...
PrepairFileBlock(d) ==
    /\ up /\ wpc[d] = "wait"
    /\ lock = Free
    /\ \/ /\ d \in running /\ list # {}
          /\ lock' = d
          /\ wpc' = [wpc EXCEPT ![d] = "pop"]
          /\ UNCHANGED catalogue
       \/ /\ d \in running /\ list = {}
          /\ lock' = d
          /\ RecycleFileBlock(Cardinality(running))
          /\ wpc' = [wpc EXCEPT ![d] = "fetch"]
       \/ /\ d \notin running
          /\ wpc' = [wpc EXCEPT ![d] = "reopen"]
          /\ UNCHANGED <<catalogue, lock>>
    /\ UNCHANGED <<pool, running, prefiles, files, prep, proc>>

\* ... and takes as many.
FetchBlocks(d) ==
    /\ up /\ wpc[d] = "fetch"
    /\ GetFreeBlock(Oldest("NEW", Cardinality(running)))
    /\ wpc' = [wpc EXCEPT ![d] = "pop"]
    /\ UNCHANGED <<running, lock, prefiles, files, prep, proc>>

\* Mutant: pop_front is forgotten.
PopPrefileNoPop(d) ==
    /\ up /\ wpc[d] = "pop"
    /\ lock' = Free
    /\ wpc' = [wpc EXCEPT ![d] = "reopen"]
    /\ IF prefile[d] = NoBlock
       THEN \E b \in list :
               /\ prefile' = [prefile EXCEPT ![d] = b]
               /\ prefile_id' = [prefile_id EXCEPT ![d] = b]
       ELSE UNCHANGED prefiles
    /\ UNCHANGED <<catalogue, pool, running, files, prep, proc>>

\* pre_file with the front of the list, pop_front and the unlock.
PopPrefile(d) ==
    /\ up /\ wpc[d] = "pop"
    /\ lock' = Free
    /\ wpc' = [wpc EXCEPT ![d] = "reopen"]
    /\ IF prefile[d] = NoBlock
       THEN \E b \in list :
               /\ prefile' = [prefile EXCEPT ![d] = b]
               /\ prefile_id' = [prefile_id EXCEPT ![d] = b]
               /\ list' = list \ {b}
       ELSE UNCHANGED <<prefiles, list>>
    /\ UNCHANGED <<catalogue, broken, running, files, prep, proc>>

\* begin() of an empty list is read as an element: the process does not
\* survive it.
PopEmptyList(d) ==
    /\ up /\ wpc[d] = "pop" /\ prefile[d] = NoBlock /\ list = {}
    /\ up' = FALSE
    /\ MemoryCleared
    /\ UNCHANGED catalogue

\* open_file: fopen, m_file_current_id, start_video_file_sql.
OpenFile(d) ==
    /\ up /\ wpc[d] \in {"open", "reopen"} /\ prefile[d] # NoBlock
    /\ datafp' = [datafp EXCEPT ![d] = prefile[d]]
    /\ current' = [current EXCEPT ![d] = prefile_id[d]]
    /\ StartRow(prefile_id[d])
    /\ wpc' = [wpc EXCEPT ![d] = "clear"]
    /\ UNCHANGED <<pool, running, lock, prefiles, prep, proc>>

\* Mutant: the name of the opened file is not cleared.
ClearPrefileForgotten(d) ==
    /\ up /\ wpc[d] = "clear"
    /\ wpc' = [wpc EXCEPT ![d] = "clear_id"]
    /\ UNCHANGED <<catalogue, pool, running, lock, prefiles, files, prep, proc>>

\* No file to open, or fopen fails: the thread ends.
OpenFails(d) ==
    /\ up
    /\ \/ wpc[d] = "reopen"
       \/ wpc[d] = "open" /\ prefile[d] # NoBlock
    /\ wpc' = [wpc EXCEPT ![d] = "idle"]
    /\ UNCHANGED <<catalogue, pool, running, lock, prefiles, files, prep, proc>>

\* Mutant: the id of the opened file is not cleared.
ClearPrefileIdForgotten(d) ==
    /\ up /\ wpc[d] = "clear_id"
    /\ wpc' = [wpc EXCEPT ![d] = "index"]
    /\ UNCHANGED <<catalogue, pool, running, lock, prefiles, files, prep, proc>>

ClearPrefile(d) ==
    /\ up /\ wpc[d] = "clear"
    /\ prefile' = [prefile EXCEPT ![d] = NoBlock]
    /\ wpc' = [wpc EXCEPT ![d] = "clear_id"]
    /\ UNCHANGED <<catalogue, pool, running, lock, prefile_id, files, prep, proc>>

ClearPrefileId(d) ==
    /\ up /\ wpc[d] = "clear_id"
    /\ prefile_id' = [prefile_id EXCEPT ![d] = NoBlock]
    /\ wpc' = [wpc EXCEPT ![d] = "index"]
    /\ UNCHANGED <<catalogue, pool, running, lock, prefile, files, prep, proc>>

\* re_open_idx; when it fails open_file fails with the data file open, and
\* the thread closes it and ends.
OpenIndex(d) ==
    /\ up /\ wpc[d] = "index"
    /\ \/ /\ wpc' = [wpc EXCEPT ![d] = "run"]
          /\ UNCHANGED <<catalogue, files>>
       \/ /\ CloseFile(d)
          /\ wpc' = [wpc EXCEPT ![d] = "idle"]
    /\ UNCHANGED <<pool, running, lock, prefiles, prep, proc>>

Writer(d) ==
    \/ NextFile(d) \/ AskForBlock(d) \/ PrepairFileBlock(d) \/ FetchBlocks(d)
    \/ PopPrefile(d) \/ PopEmptyList(d) \/ OpenFile(d) \/ OpenFails(d) \/ ClearPrefile(d) \/ ClearPrefileId(d)
    \/ OpenIndex(d)
-------------------------------------------------------------------------------
(* thread_check_prepair_fileblock.                                         *)

Size == Cardinality(list)

PrepAt(from, to) == up /\ ppc = from /\ ppc' = to

PrepRest == UNCHANGED <<running, lock, prefiles, files, wpc, handing, proc>>

\* One pass begins: how many blocks should be in the list.
PrepBegin ==
    /\ need' = Cardinality(running) + Spare
    /\ PrepAt("sleep", IF Size < need' THEN "get" ELSE "lock")
    /\ UNCHANGED <<catalogue, pool, short, todo>>
    /\ PrepRest

\* Take what is missing; what get_free_block cannot give is to be recycled.
PrepGet ==
    LET nget == need - Size
        S == Oldest("NEW", nget)
    IN  /\ PrepAt("get", IF Cardinality(S) < nget THEN "recycle" ELSE "check")
        /\ GetFreeBlock(S)
        /\ short' = IF Cardinality(S) < nget THEN nget - Cardinality(S) ELSE 0
        /\ UNCHANGED <<need, todo>>
        /\ PrepRest

PrepRecycle(from, to) ==
    /\ PrepAt(from, to)
    /\ RecycleFileBlock(short)
    /\ short' = 0
    /\ UNCHANGED <<pool, need, todo>>
    /\ PrepRest

PrepGetAgain(from, to) ==
    /\ PrepAt(from, to)
    /\ GetFreeBlock(Oldest("NEW", need - Size))
    /\ UNCHANGED <<need, short, todo>>
    /\ PrepRest

\* Still short: the second recycling asks for stream_num-nget+1 blocks.
PrepCheck ==
    /\ PrepAt("check", IF Size < need THEN "recycle2" ELSE "lock")
    /\ short' = IF Size < need THEN need - (need - Size) + 1 ELSE 0
    /\ UNCHANGED <<catalogue, pool, need, todo>>
    /\ PrepRest

PrepEnough ==
    /\ Size >= need
    /\ PrepAt("check3", "lock")
    /\ UNCHANGED <<catalogue, pool, need, short, todo>>
    /\ PrepRest

\* Still short: stop_video takes m_stream_lock, ...
GiveUp ==
    /\ PrepAt("check3", "exit")
    /\ Size < need
    /\ lock = Free
    /\ lock' = Prep
    /\ todo' = running
    /\ UNCHANGED <<catalogue, pool, running, prefiles, files, wpc, need, short, handing, proc>>

\* ... stops every device of m_manger_map and its writer, unless the receive
\* thread has ended, ...
GiveUpStop(d) ==
    /\ PrepAt("exit", "exit")
    /\ d \in todo /\ \A e \in Devices : stopping[e] = "no"
    /\ todo' = todo \ {d}
    /\ UNCHANGED stopping \/ stopping' = [stopping EXCEPT ![d] = "exit"]
    /\ UNCHANGED <<catalogue, pool, running, lock, prefiles, files, wpc, need, short,
                   handing, db_held, up>>

\* ... and the process exits.
Exit ==
    /\ up /\ ppc = "exit"
    /\ todo = {} /\ \A d \in Devices : stopping[d] = "no"
    /\ up' = FALSE
    /\ MemoryCleared
    /\ UNCHANGED catalogue

PrepLock ==
    /\ PrepAt("lock", "give")
    /\ lock = Free
    /\ lock' = Prep
    /\ todo' = running
    /\ UNCHANGED <<catalogue, pool, running, prefiles, files, wpc, need, short, handing, proc>>

\* pre_file stores the name of a block when the device has none ...
PrepGiveName(d) ==
    /\ PrepAt("give", "give_id")
    /\ d \in todo /\ prefile[d] = NoBlock
    /\ \E b \in list :
          /\ prefile' = [prefile EXCEPT ![d] = b]
          /\ handing' = [handing EXCEPT ![d] = b]
          /\ list' = list \ {b}
    /\ todo' = todo \ {d}
    /\ UNCHANGED <<catalogue, broken, running, lock, prefile_id, files, wpc, need, short, proc>>

\* ... and then its id.
PrepGiveId(d) ==
    /\ PrepAt("give_id", "give")
    /\ handing[d] # NoBlock
    /\ prefile_id' = [prefile_id EXCEPT ![d] = handing[d]]
    /\ handing' = [handing EXCEPT ![d] = NoBlock]
    /\ UNCHANGED <<catalogue, pool, running, lock, prefile, files, wpc, need, short, todo, proc>>

\* Mutant: the lock is kept while the thread sleeps.
PrepUnlockForgotten ==
    /\ PrepAt("give", "sleep")
    /\ todo = {}
    /\ need' = 0
    /\ UNCHANGED <<catalogue, pool, running, lock, prefiles, files, wpc, short, todo,
                   handing, proc>>

\* The device has a block already, or the list is empty.
PrepSkip(d) ==
    /\ PrepAt("give", "give")
    /\ d \in todo /\ (prefile[d] # NoBlock \/ list = {})
    /\ todo' = todo \ {d}
    /\ UNCHANGED <<catalogue, pool, need, short>>
    /\ PrepRest

PrepUnlock ==
    /\ PrepAt("give", "sleep")
    /\ todo = {}
    /\ lock' = Free
    /\ need' = 0
    /\ UNCHANGED <<catalogue, pool, running, prefiles, files, wpc, short, todo, handing, proc>>

Prepair ==
    \/ PrepBegin \/ PrepGet
    \/ PrepRecycle("recycle", "get2") \/ PrepGetAgain("get2", "check")
    \/ PrepCheck
    \/ PrepRecycle("recycle2", "get3") \/ PrepGetAgain("get3", "check3")
    \/ PrepEnough \/ GiveUp \/ Exit \/ PrepLock
    \/ (\E d \in Devices :
          PrepGiveName(d) \/ PrepGiveId(d) \/ PrepSkip(d) \/ GiveUpStop(d))
    \/ PrepUnlock
-------------------------------------------------------------------------------
Next ==
    \/ Crash \/ Restart
    \/ Prepair
    \/ \E d \in Devices :
          \/ Attach(d) \/ StartWriter(d) \/ Detach(d)
          \/ (\E why \in {"plan", "detach", "remove"} : StopWriter(d, why))
          \/ Cancelled(d) \/ CancelledInCatalogue(d) \/ Joined(d)
          \/ EndWriter(d) \/ Writer(d)

Spec == Init /\ [][Next]_vars
-------------------------------------------------------------------------------
TypeOK ==
    /\ status \in [Blocks -> Statuses]
    /\ ord \in [Blocks -> Int]
    /\ list \subseteq Blocks /\ broken \in BOOLEAN
    /\ running \subseteq Devices /\ lock \in Devices \cup {Free, Prep, Stop}
    /\ prefile \in [Devices -> Blocks \cup {NoBlock}]
    /\ prefile_id \in [Devices -> Blocks \cup {NoBlock}]
    /\ datafp \in [Devices -> Blocks \cup {NoBlock}]
    /\ current \in [Devices -> Blocks \cup {NoBlock}]
    /\ wpc \in [Devices -> WriterPoints]
    /\ ppc \in PrepPoints /\ need \in Int /\ short \in Int
    /\ todo \subseteq Devices
    /\ handing \in [Devices -> Blocks \cup {NoBlock}]
    /\ stopping \in [Devices -> Reasons]
    /\ db_held \in BOOLEAN
    /\ up \in BOOLEAN

\* The writer of device d names block b in memory, by name or by id.
Names(d, b) ==
    \/ prefile[d] = b \/ prefile_id[d] = b \/ handing[d] = b
    \/ datafp[d] = b \/ current[d] = b

\* A block is named by the writer of one camera at most and then it is not in
\* the list: no interleaving of the preallocation thread, the writers and the
\* recycling lets two cameras write one file (video_manger.cpp
\* prepair_file_block and thread_check_prepair_fileblock).
OneHolder ==
    \A d \in Devices, b \in Blocks : Names(d, b) =>
        /\ b \notin list
        /\ \A e \in Devices : Names(e, b) => e = d

\* The catalogue never offers a block that memory still uses: a block in the
\* list is PRE, a block a writer names is PRE or ING, so that neither
\* get_free_block nor recycle_file_block can select it - even when the name
\* and the id of a prefile have come apart.  (A thread cancelled in
\* stop_video_file_sql leaves its file named and finished; nothing can select
\* blocks any more.)
HeldIsReserved ==
    /\ \A b \in list : status[b] = "PRE"
    /\ ~db_held =>
          \A d \in Devices, b \in Blocks : Names(d, b) => status[b] \in {"PRE", "ING"}

\* fopen(..., "wb+") truncates: a file is only ever opened when its block is
\* preallocated and nobody has it open, so that no finished recording and no
\* recording in progress is destroyed by open_file.
OpensReservedOnly ==
    [][\A d \in Devices : datafp'[d] \notin {NoBlock, datafp[d]} =>
          /\ status[datafp'[d]] = "PRE"
          /\ \A e \in Devices : datafp[e] # datafp'[d]]_vars

\* FILE_ST_ING is the status of a block in use (include/stdprj.h:120): once
\* open_file has catalogued it, a file being written has it.
InUseIsIng ==
    ~db_held => \A d \in Devices : datafp[d] # NoBlock => status[datafp[d]] = "ING"
-------------------------------------------------------------------------------
(* The pool as the abstract specification sees it.                         *)

Owner == [b \in Blocks |->
    LET holders == {d \in Devices : Names(d, b)}
    IN  IF holders # {} THEN CHOOSE d \in holders : TRUE
        ELSE IF b \in list THEN "pool"
        ELSE IF status[b] \in {"NEW", "VIDEO"} THEN "free" ELSE "lost"]

FB == INSTANCE FileBlocks WITH owner <- Owner

\* Every step of the threads gives, takes or returns blocks the way the
\* abstract specification allows: one owner at a time, from the pool only.
OneOwner == FB!Spec
-------------------------------------------------------------------------------
(* Fairness: threads that hold no lock or already have it keep running; a  *)
(* thread that is to end reads m_brun, or reaches a cancellation point; and *)
(* every thread that takes m_stream_lock sleeps between two uses of it, so *)
(* that a writer waiting for it gets it when it is released.               *)
Fairness ==
    /\ WF_vars(Prepair)
    /\ \A d \in Devices :
          /\ WF_vars(wpc[d] # "run" /\ Writer(d))
          /\ SF_vars(PrepairFileBlock(d))
          /\ WF_vars(Cancelled(d))
          /\ WF_vars(Joined(d))

FairSpec == Spec /\ Fairness

\* The thread that stops a writer waits for ever, with m_stream_lock: the
\* writer is waiting for that lock itself, with or without a block it has been
\* given meanwhile, or has left m_db_lock locked.
Deadlocked ==
    \E d \in Devices : stopping[d] # "no" /\ (db_held \/ wpc[d] = "wait")

\* A writer that asked for a block records again or has ended, however the
\* preallocation thread and the other writers use m_stream_lock: stopping a
\* writer at the wrong moment is all that can make it wait for ever
\* (data_writer.cpp stop_thead, video_manger.cpp prepair_file_block).
WriterServed ==
    \A d \in Devices : wpc[d] \in {"open", "wait"} ~>
        (wpc[d] \in {"run", "idle"} \/ ~up \/ Deadlocked)
-------------------------------------------------------------------------------
(* The inductive invariant.                                                *)

\* The name and the id of a writer's open file and of its prefile may come
\* apart, but the id under which the open file was catalogued is not the one
\* of its next file, except while open_file has not cleared them yet.
NamesCoherent ==
    \A d \in Devices :
        /\ datafp[d] = NoBlock => current[d] = NoBlock
        /\ handing[d] # NoBlock => handing[d] \notin {prefile_id[d], current[d]}
        /\ current[d] # NoBlock /\ ~db_held =>
              /\ wpc[d] # "clear" => current[d] # prefile[d]
              /\ wpc[d] \notin {"clear", "clear_id"} => current[d] # prefile_id[d]

\* A writer that opens a file has closed the one before, and of all that it
\* names only the id of its open file is catalogued as in use.
UseCoherent ==
    \A d \in Devices :
        /\ wpc[d] \in {"open", "wait", "fetch", "pop", "reopen"} => datafp[d] = NoBlock
        /\ \A b \in Blocks : Names(d, b) /\ status[b] = "ING" => current[d] = b

\* A process that is not running has no memory.
DownIsEmpty ==
    ~up => /\ list = {} /\ ~db_held
           /\ \A d \in Devices, b \in Blocks : ~Names(d, b)

IInv ==
    TypeOK /\ OneHolder /\ HeldIsReserved /\ NamesCoherent /\ UseCoherent /\ DownIsEmpty
===============================================================================
