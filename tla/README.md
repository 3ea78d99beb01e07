# Verification of the nvrdemo network video recorder

The recorder receives the streams of IP cameras, records them into files that
are allocated in advance, forwards them live to clients and decoders, and plays
recordings back, all on request of SIP servers and a web page. This directory
holds TLA+ models of its parts, the TLC runs that check them on small instances,
and TLAPS proofs of the safety properties of all but XML, for every number of
cameras, files, clients, threads and units of a recording.

Sources are in GBK; comments are quoted here in translation.

## 1. The system

| Part | State it keeps | Operations | Talks to |
|---|---|---|---|
| Block catalogue (`sql_manger.cpp`, table `video_file`) | one row per preallocated file: status (`FileST`), camera, track, serial number, times, length | `get_free_block`, `recycle_file_block`, `start_video_file_sql`, `stop_video_file_sql`, `repair_db` | everybody, under `m_db_lock` |
| Preallocation (`video_manger.cpp`) | `m_pripair_file_list`; every 15 s the thread refills it, recycles the oldest recordings, hands a block to each camera | `thread_check_prepair_fileblock`, `prepair_file_block` | catalogue, writers |
| Writer (`data_writer.cpp`), one thread per recording camera | `m_prefile`/`m_prefile_id` (next block), open data and index file, header in memory, length, serial, current second | `raw_data2`, `writer_file`, `open_file`, `close_file`, `write_index`, `start_thread2`, `stop_thead`, `pre_file` | preallocation, catalogue, publisher of the stream |
| Tracks and queries (`sql_manger.cpp`, table `video_track`) | one row per recording: start, end, status | `start_video_track_sql`, `stop_video_track_sql`, `get_track_list_sql`, `get_track_video_list_sql` | writers, playback, SIP |
| Device life cycle (`video_manger.cpp`, `video_stream_manger.cpp`) | `m_manger_map`, `m_manger_reconnect_map`, a receive thread and socket per camera, recording plan | add, start, stop, delete, online check, reconnect, keep-alive, plan check; all under `m_stream_lock` | encoders over HTTP, writers |
| Live fan-out (`video_stream_manger.cpp`, `data_transfer.cpp`, `block_queue.cpp`) | used and unused transfers, a send thread and socket per destination, ZeroMQ publisher and subscribers | `add_dest_ex`, `del_dest_ex`, `real_send_thread2`, `stop_transfer` | publisher, SIP |
| Playback (`data_reader.cpp`, `data_transfer.cpp`, `video_data_manger.cpp`) | the files of a span, open file, end position | `init_reader`, `getbuf`, pause, speed, stop | catalogue, writer, SIP |
| SIP (`sip_manger.cpp`) | dialogs, stream channels (at most `MAX_TRANSFER_REAL`), relayed sources and targets, last sign of life of servers | INVITE, BYE, INFO, MESSAGE, server check | device manager, playback, relays |
| Transit relay (`video_manger.cpp`, `video_stream_manger.cpp`) | `m_transit_map`, destinations of each relay | add and delete of a source and of a destination | SIP |
| HTTP (`mongoose.c`, `http_manger.cpp`) | workers, ring of accepted sockets, moved connections; sessions that expire | login, commands, queries, video request | device manager, catalogue |
| XML (`tinyxml*.cpp`) | a tree of nodes with pointers | parse, change, print | SIP messages |
| Drivers, `main`, utilities, SQLite wrapper, web pages | none of interest | | |

Hard behaviour: several threads share lists and maps under two locks that are
not the same for the same list, or under none; threads are cancelled
(`pthread_cancel`) and joined while locks are held, and end by themselves while
they are stopped; the process can die at any moment and repairs its catalogue at
the next start; files, indexes, seconds and buffers end at boundaries that do
not coincide. `PROJECT.json` lists these hazards at their lines, each with the
properties that cover it.

What makes each part correct:

- *Blocks*: a block is written by one camera at a time; a finished recording is
  truncated only after it was recycled; a writer that needs a block gets one.
- *Recordings and tracks*: the files of a track take its bytes in order, no gap,
  nothing twice, but for the rest of a split buffer (section 5, item 12); the
  header of a file is its own and its index exact; what was recorded and not
  recycled is found by the queries, in order; no track is open without a writer;
  the repair ends.
- *Devices*: one receive thread per camera; what runs can be found by the
  commands; no camera is lost between the maps, the table and a crash; a camera
  records exactly in the hours of its plan.
- *Fan-out, playback, SIP, HTTP*: nobody uses a subscriber, socket or context
  that was deleted; a stopped transfer sends no more; playback is one stretch of
  the recording that covers the span; every stream has a dialog that can end it;
  stopping and checking end; a command acts on the camera that was named.
- *XML*: the pointers are a tree; a message is understood as it was sent.

## 2. The modules

| Module | Contents | Checked by run |
|---|---|---|
| `FileBlocks` | abstract: every block has one owner (free, pool, a camera, lost) and moves only along allowed ways | `pool` |
| `BlockPool`, `MCBlockPool` | catalogue, preallocation thread, life of the writers as far as blocks are concerned | `pool`, `pool_live` |
| `Recording`, `MCRecording` | bytes, headers and indexes of the files, crash, `repair_db` | `recording` |
| `Listing` | what a statement with `ORDER BY` returns | `tracks`, `playback` |
| `Tracks` | rows of `video_track` and `video_file`, the writer's ends, queries | `tracks` |
| `Devices` | maps of cameras, commands, periodic threads, receive threads | `devices` |
| `VideoPlan`, `MCVideoPlan` | plan of the week and the hourly check | `video_plan` |
| `Transfer` | live fan-out of one camera | `transfer` |
| `Playback` | playing one span | `playback` |
| `Sip`, `Transit` | calls and channels; relays, which `Sip` extends | `sip` |
| `HttpServer` | threads, ring and stop of the server | `http` |
| `Commands` | sessions and commands over table, objects and SIP ids | `commands` |
| `XmlTree` | abstract: a document as a tree of children | `xml` |
| `Xml`, `XmlText` | nodes with pointers, parser, printer; texts and entities | `xml` |

`BlockPoolProofs`, `RecordingProofs`, `DevicesProofs`, `VideoPlanProofs`,
`TransferProofs` and `SipProofs` each extend the module they are named after and
hold what is proved of it (section 4); `SipProofs` has the relays of `Transit` too.
`HttpProofs` does the same for `HttpServer` and `Commands`, `CatalogueProofs` for
`Tracks` and `Playback`, whose queries have the lemmas on listings in common. For
their sake the specifications of `HttpServer` and `Tracks` are called `ServerSpec`
and `TracksSpec`.

The modules share no variables, except `Sip` with `Transit` and `Xml` with
`XmlText`. What one leaves nondeterministic is what another one models: the
outcome of a start is free in `Devices`, the plan is free there and exact in
`VideoPlan`; `BlockPool` abstracts the bytes that `Recording` has, `Recording`
the choice of a block, `Tracks` both; `HttpServer` abstracts the commands, and
`Commands` the connections.

### BlockPool

`status` and `ord` are the columns `file_status` and (as a rank) `start_time` of
`video_file`; `list` is `m_pripair_file_list` (its order does not matter to the
properties, so it is a set); `prefile`, `prefile_id`, `datafp`, `current` are
the members of `data_writer`; `running` the keys of `m_manger_map`; `lock` the
holder of `m_stream_lock`. `wpc` and `ppc` are the control points of the writer
threads and of the preallocation thread.

Every catalogue operation (`GetFreeBlock`, `RecycleFileBlock`, `StartRow`,
`StopRow`) is one step because it holds `m_db_lock` throughout. Code under no
lock is split where another thread can observe it:

- `pre_file` is `PrepGiveName` then `PrepGiveId`; the writer's `open_file` is
  `OpenFile`, `ClearPrefile`, `ClearPrefileId`, `OpenIndex`.
- the test that there is no name (`data_writer.cpp:240`) is `AskForBlock`, under no
  lock; from there the writer waits for `m_stream_lock` (point "wait"), and
  `pre_file` may give it a block while it does.
- `prepair_file_block` is `PrepairFileBlock`, `FetchBlocks`, `PopPrefile` because
  the preallocation thread changes the list under the other lock meanwhile. The
  damage an append and a `pop_front` of a `std::list` can do to each other is
  `broken`: the list then looks empty and what is appended is lost.
- `begin()` of an empty list is dereferenced at `video_manger.cpp:491`:
  `PopEmptyList` ends the process.
- `stop_thead` is `StopWriter`, then the end of the thread (`Cancelled`,
  `CancelledInCatalogue`, or its normal steps), then `Joined`. `stopping` says
  what the caller does afterwards: the plan, the online check (`detach`),
  deletion (`remove`), or the exit of the process. `db_held` is a cancelled
  thread that left `m_db_lock` locked.
- `Crash` may happen anywhere; `Restart` is what `repair_db` does to the rows.

### Recording

One record per file says what is on the disk: `data` (each byte with its
place in the track, which byte of the track is there, and the second it was
written), `hdr` (identity and
index), `row` (the catalogue row). `head`, `length`, `second`, `serial`, `rest`,
`firstwrite` are the writer's memory; `idx` is `/etc/GVR/<video_id>.idx` as a crash would
leave it. `Receive` is `writer_file` up to the first `fwrite`, `CloseFile` is
`close_file`, `OpenFile` is `open_file` up to the header it reserves,
`OpenIndex` is `re_open_idx`, the first index entry and the second `fwrite` of the
buffer: it takes as many bytes as are left, but from the beginning of the buffer
(`data_writer.cpp:176`). So `TornOnlyAtSplits` has two parts: `Gapless` is about the
places, `Torn` about what is in them.
`WriteFails` is a short `fwrite` (a full disk). An identity and an index entry
both take 12 bytes, which is why a header that starts too late
(`sql_manger.cpp:46`) can be described by shifted entries (`Joined`).

`repair_db` is `Restart`, one `RepairRow` per row in order of the row, and
`RepairDone`. What the code reads uninitialised (behind the last entry of its
buffer) is a choice between nothing and a bogus entry.

### Tracks

`rows` is `video_track` by `track_id`, `block` is `video_file`; `pc.new` is the
writer thread, `pc.old` one that cleared `m_brun` itself and has not yet closed
its file; `ctl` is a thread in `stop_thead`. `Begin` is the start of `raw_data2`
(the id of the new row is read back by its start time), `Switch`, `OpenFile`,
`OpenIndex`, `FirstEntry` are a change of files, `Fail`, `Close`, `End` the
thread that ends itself, `StopWriter`, `Joined`, `StopClose`, `StopEnd` the caller,
`Recycle` moves the start of a track to the end of its first file, `Query`
deletes empty tracks, `Repair` is `repair_db`: the files in use get the last entry of
the camera's index file; every open track, of whatever camera, ends at the last entry
of the last index file that had one, which may be another camera's and hence any
second (`rest`), or now. `Tracks` and
`Files` are the answers of the two queries, the rows that overlap a span
(`Overlapping`, `Playable`) in the order of their statements (`EarlierTrack`,
`EarlierFile`; equal times and numbers are listed by row). `odd`
remembers what the code gets wrong (section 5, items 16 to 19), which
the properties except.

### Devices and VideoPlan

`place` says which map holds a camera, `lock` who waits in `pthread_join` with
`m_stream_lock`. A command or a round of a periodic thread is one step, except
the join: `StopRunning` up to it, `Joined` (with `Finish`, what each caller does
then) after it, so that receive threads (`Begin`, `Data`, `Timeout`, `Leave`,
`Exit`, `Tail`) run in between and a thread that has cleared `m_brun` runs on
unobserved. A new camera is `AddRow`, whose insert sleeps under `m_db_lock` only, then
`AddObject` when the lock of the maps is free, or `AddFails`, which leaves the row
(`adding`). `Load` puts every camera into the reconnect map, as the code does.
`delete_stream_sql` may fail after the members of the camera are deleted
(`gutted`).

`VideoPlan` is the clock of one week in hours, the plan as a set of spans, and
`tm`, the static result of `localtime`. `Wake` takes the time two seconds before
the hour, `Check` uses it when it has the lock; `Start` decides at once, and it and
the queries (`Query`) write the same static result. While the plan thread waits for
the lock, which another thread may hold over a login, the hour may end (`Late`) and
`tm` may be overwritten (`Disturbed`); `misled` remembers that the last check was
such a one. The plan in memory is read from the table at `Restart` only.

### Transfer

`used` and `unused` are `m_transfer_map` and `m_transfer_unuse_map`, `alive` the
objects that exist, `sub` whether an object's subscriber is open, `leaked` that one is
open which no object knows of, `pc`/`own`/`key` the send threads, `doubled` the
objects that were started under a running thread. A call under `m_stream_lock` is one step, except
`stop_transfer`, which waits for its thread (`BeginStop`, `AskAgain`,
`FinishStop`), and a login of another camera, during which senders lose patience
(at any test in `Top`) and queue for the lock (`GiveUp`). `Start` does not ask whether
the object is started: it writes over the handle and over an open subscriber. `Uninit`
is `zmq_ctx_destroy`, which waits for every socket of the context.

### Playback

A recording is a sequence of units with their seconds, cut into files; an index
has the first unit of each second. `Select` is the query, `OpenFirst` is
`init_reader`, `ReadShort`, `ReadFull` and `NextFile` are `getbuf`, `EndPosition`
its search for the end in the last file, `Send`, `Leave`, `ReadNothing` the
loop of `data_send_thread`, `MediaLength` and `MediaEnd` the two messages to the
client. `ReportInVain` is a report to a client that has hung up.

### Sip and Transit

`dialog`, `channel`, `source`, `target`, `server` are `m_dialog_map`,
`m_stream_channel_map`, `m_db_source_map`, `m_gb_dest_map` and
`m_sip_server_update_map`; `call` is what the SIP library has. An INVITE is
`TakeInvite`, `EndPrevious` or `NoPrevious`, `Insert` or `AtLimit`, `Accept` or
`Refuse`, since its stream takes long; `check_sip_server_alive` is
`CheckServer`, `CloseChannel` for each channel and `CheckDone`, between the steps
of an INVITE. `Close` is `close_dialog`; it ends a live stream only if the camera is in
`m_manger_map`, not when it is being called again (`del_dest_addr`, `left`). `Accept`
and `Refuse` may leave out the dialog of a recorded stream, whose source need not parse
(`unnamed`). `Transit` has the operations on a relay
and its threads that give up.

### HttpServer and Commands

`HttpServer`: `queue`, `head`, `tail` are the ring, `mpc` the master thread, `wpc`
the workers, `spc` the stream threads that own a moved connection, `chan` the keys
of `m_channelist`. A step that holds `ctx->mutex` is one step; `consume_socket`
has two, because the stop flag is set and broadcast without the mutex. At "serve" a
worker waits for its client, perhaps for ever.

`Commands`: `rows` is table `device`, `objects` the ids with an object, `sipmap`
is `m_sip_map_id`, `idens` the sessions, `op` what each worker is about. `adddev`
is `AddDev`, `AddedRow` (after its sleep with `m_db_lock`), `AddObject`; `deldev`
and `updatevideoplan` are `Lookup` without a lock and then `Delete` or
`UpdatePlan`. `Down` and `Load` are the end of the process and its restart.

### Xml and XmlText

`node` has the pointers. `Open`, `Empty`, `Close`, `Text`, `Comment`,
`Declaration`, `Bad`, `Broken`, `End`, `Unwind` are the parser on a tag: a node's parent
is set before it is read, and it is linked after, also when that failed. `Bad` is the
tag of an element, which sets an error; `Broken` a declaration or a comment that does
not end, which sets none; `Text` between elements ends the reading. `ReadAsSent`
compares with what is heard of the message (`Heard`, `LeftOpen`).
`LinkEndChild`, `InsertCopy`, `RemoveChild`, `ClearAll`, `Destroy`, `Create` are
changes by the program. `XmlText` has the pure functions: `EncodeString`,
`GetEntity`, `GetChar`, `ReadText`, checked against `TextKept` over every bounded
text.

## 3. The runs

| Run | Instance | Shows |
|---|---|---|
| `pool` | 2 blocks, 2 cameras, no spare blocks, symmetry | one holder per block; memory and catalogue agree; `open_file` truncates preallocated files only; the inductive invariant; `BlockPool` implements `FileBlocks` |
| `pool_live` | 1 block, 2 cameras, fairness | a writer that asked for a block records again or ends, unless a stopping thread waits for ever |
| `recording` | 1 camera, 2 files, blocks of 3 bytes and a header, 2 index entries, 3 seconds, buffers of 1 and 2 bytes | files are contiguous and full, bytes out of place only where a buffer is split, a header is exact whichever of block, index or second ends first; the repair ends |
| `tracks` | 2 files, 2 tracks of 2 files, 3 seconds | what was recorded and not recycled is found by the queries, in order; no track stays open |
| `devices` | 2 cameras with 2 receive threads each, 1 timeout allowed | one receiver per camera; what runs is in `m_manger_map`; what waits is stopped; no camera is lost |
| `video_plan` | the real week of 168 hours, 3 plans, checks that wait for up to 2 hours | the writer runs in the hours of the plan and in no other |
| `playback` | up to 5 units in 4 seconds and 3 files, every span, pieces of 1 or 2 units | one stretch of the recording is sent, it begins early enough, stops where the end was found, and the span ends |
| `transfer` | 2 clients, 2 objects, 2 send threads | a thread alone in its object uses an open subscriber, and is listed; whoever stops gets to the end |
| `sip` | 3 calls, 2 destinations, 1 server, 1 relay, room for 1 channel | a stream has a dialog; a channel leads to its own destination; the server check ends |
| `http` | 2 workers, ring of 2, 3 descriptors, 2 stream threads | sockets come out of the ring once and in order, have one owner, the context outlives its users; who is accepted is served; the stop ends |
| `commands` | 2 workers, 2 SIP ids, 3 rows, sessions of 2 s in 5 s | the SIP id of a row leads to its camera; sessions are kept; a command acts on the camera it looked up |
| `xml` | 5 nodes, messages of up to 5 tags over 2 names, 2 changes, texts of up to 5 characters | siblings, parents and ends agree; a message is read as it was sent; the pointers implement `XmlTree` |

Every property has a mutant: a version of one mapped definition with a plausible
bug, named in `PROJECT.json`, under which the run finds the property violated.
The type invariant of `BlockPool` is part of `pool`, since the proofs use it; the
ones of the other modules hold on the same instances and are there for whoever
changes a module (add `TypeOK` to its cfg).

Bounds. Two cameras are enough for every race over a block (two writers, or a
writer and the preallocation thread), and blocks are scarce when there are as
many as cameras; the proofs cover every number. In `Recording` three bytes per
block let a buffer of two end before, at and beyond the end of a block, and two
index entries fill up before the block does; three seconds overflow two entries.
`Tracks` needs two files so that one is recycled while the other is written, and
two tracks so that a repair meets an older one. In `Devices` two receive threads
let one begin before the last has ended; `TimeoutLimit` is 5 in the code and only
a count of steps. `VideoPlan` has the real week; its plans are the default one (every hour), three spans, which touch both ends
of it or cover one hour, and one that is reversed, hence nothing; the plan thread waits
over the end of two hours at most (`BoundedWait`), one more than makes a check late. In `Playback` three files make a first,
a middle and a last one, and files may begin within a second; four seconds leave
one before and one behind a span. In `Transfer` two objects and clients allow
reuse for another client, and a client's second object; an object with two threads is
followed until one of them would read what is not defined (`Defined`), and one of the
subscribers that nobody closes is open at a time (`OneForgotten`: with either,
`zmq_ctx_destroy` waits for ever). In `Sip` a third call
replaces a replaced one, one live channel reaches the limit, and there is one stream
that was not ended and one call without a dialog at a time (`FewUnended`). A ring of two
wraps its indices twice within the five connections that three descriptors give;
three descriptors make numbers return while a thread still has one. `Commands`
needs a number to be given after a deletion, hence three rows for two ids.
Messages of five tags nest twice and break at every place.
These three are `CONSTRAINT`s of their cfg.
`MaxTime`, `MaxTracks`, `MaxBytes`, `MaxFiles`, `MaxSerial`, `MaxNow`, `MaxAdds`, `MaxTokens`,
`MaxEdits`, `MaxText`, `MaxUnits`, `MaxSecond` bound what the code does not;
`MaxConnect`, `MaxReal` and `QSize` are small values of the code's limits.

`CHECK_DEADLOCK FALSE` stands where the program really stops: at a bound, when a
span is over (`Playback`), after `mg_stop` (`HttpServer`), when `m_db_lock` was
left locked (`Tracks`), or when a deletion waits for ever (`Transfer`).

Fairness. `BlockPool`: a thread that can take a step eventually does (weak
fairness of the preallocation thread, of the writer outside its wait for data,
of cancelled threads and of the thread that joins them), and a writer waiting
for `m_stream_lock` eventually gets it (strong fairness of `PrepairFileBlock`):
every other user of that lock sleeps for seconds between two uses. `Recording`:
weak fairness of `repair_db`, which runs alone before any other thread exists.
`Playback`: the send thread runs, and a client that pauses resumes or stops
(weak fairness of `Step` and of `Speed \/ Stop`); `SF` of `Send` says that a
client cannot pause and resume so that the thread, which looks every few
milliseconds, always finds the pause. `Transfer`: the send threads run, and who
holds the lock goes on with its call (weak). `Sip`: the thread that checks the
servers goes on with the server it has begun to close (weak). `HttpServer`:
every thread runs, and `mg_start` goes on (weak), except a worker that serves: it
waits for its client. No fairness is assumed for
data, clients, commands, crashes or restarts.

Exceptions in the properties. `WriterServed` excuses `Deadlocked`: a writer
stopped while it waits for `m_stream_lock`, also one that was given a block since, or
cancelled inside a catalogue operation, blocks the recorder for good. `NoCameraLost`
excepts the row of a camera that is being added or whose addition failed.
`WriterInPlan` and `PlannedIsRecorded` except the time in which a check is late and
the hours after one that was disturbed. In `Transfer`, `StopEnds` excuses a
`data_writer` that nobody stops and a subscriber that was written over; `SubInUse` and
`SenderIsListed` a thread of an object that was started again under a running one. In
`Sip`, `StreamHasDialog` and `ChannelHasOwner` except a stream whose camera was being
called again at the BYE, and a call answered without a dialog. `StopEnds` of
`HttpServer` excuses the three ways in which `mg_stop` waits for ever, `IsServed` a
server whose workers are all at a client; `PlaybackEnds` the report to a client that
has hung up; the properties of `Tracks` the cases of `Usual`. Each is a defect of
section 5.

## 4. What is proved

Every theorem holds for all values of the constants that the `ASSUME` of the
module allows. Each rests on an inductive invariant (`IInv`, `TracksInv`,
`ServerInv`, `CommandsInv`) of its `*Proofs` module, which TLC checked on the
instance of the module's run before it was proved (that of `Playback` with four
units). There is a lemma per action or group of actions; others join them into
one about `[Next]_vars`, and a step of temporal logic ends the proof.

| Module | Theorems |
|---|---|
| `BlockPoolProofs` | `TypeCorrect`, `OneHolderAlways`, `InvariantAlways`, `OpensReservedAlways`, `Refinement` (`OneOwner`: `BlockPool` implements `FileBlocks`) |
| `RecordingProofs` | `BaseAlways`, `FitsBlockAlways`, `IndexingAlways`, `IndexExactAlways`, `InvariantAlways`, `TornOnlyAtSplitsAlways` |
| `DevicesProofs` | `InvariantAlways`, `OneReceiverAlways`, `RunningIsListedAlways`, `WaitingIsStoppedAlways`, `NoCameraLostAlways` |
| `VideoPlanProofs` | `InvariantAlways`, `WriterInPlanAlways`, `PlannedIsRecordedAlways` |
| `TransferProofs` | `InvariantAlways`, `SubInUseAlways`, `SenderIsListedAlways` |
| `SipProofs` | `InvariantAlways`, `StreamHasDialogAlways`, `ChannelHasOwnerAlways` |
| `HttpProofs`, of `HttpServer` | `ServerInvariantAlways`, `QueueInOrderAlways`, `OneOwnerAlways`, `ContextInUseAlways` |
| `HttpProofs`, of `Commands` | `CommandsInvariantAlways`, `SipIdFindsCameraAlways`, `ActsOnItsOwnAlways`, `SessionsKeptAlways` |
| `CatalogueProofs`, of `Tracks` | `TracksInvariantAlways`, `OpenIsLiveAlways`, `InTimeOrderAlways`, `FilesFoundAlways` |
| `CatalogueProofs`, of `Playback` | `InvariantAlways`, `InOrderAlways`, `StartsInTimeAlways`, `StopsInTimeAlways` |

`XAlways` says `Spec => []X` of an invariant and `Spec => X` of an action property.

Assumptions on the constants. Sets of blocks, cameras, threads, files and HTTP
workers are finite where the proof counts them. "No thread", "no object", "no
socket" (0) and `None` are not among the things they stand in for. In
`Recording`, an index has at least two entries (`MAX_FILE_INDEX` is 2000,
`include/stdprj.h:78`): with one, the entry that a new file begins with would fill
it, and the writer would leave the file empty. A header is shorter than a block.

### BlockPool

`OneHolder` is not inductive. Its name-and-id race shows why: after `pre_file`
has stored a name and before it has stored the id, the writer may open and clear
the name, so that name, id and the id still to be stored (`handing`) of one
writer come apart and may even belong to three blocks. What stays true is that
all of them are blocks of that writer only, that none of them is in the list,
and that each is PRE, or ING if it is the one catalogued (`HeldIsReserved`,
`UseCoherent`); that the id under which the open file is catalogued is not kept
for its next file (`NamesCoherent`); and that a process that is down names no
block (`DownIsEmpty`). With these the catalogue operations cannot touch a named
block: `get_free_block` selects NEW rows, `recycle_file_block` VIDEO rows.
`IInv` is the conjunction.

The refinement maps a block to the camera that names it, to the pool when it is
in the list, and otherwise by its status to free or lost. `IInv` makes the
mapping a function; each action is then a `Reserve`, `Assign`, `Release`,
`End`, `Recover` or a stutter.

### Recording

Four layers, each proved with the ones below it. `Base`: a file is open in one
writer, is in use in the catalogue and has that camera's identity; what is left of
a buffer fits into the next file (`RestFits`), which bounds the file. `Indexing`:
the header in memory is exact for the bytes of the open file and no byte or entry
is later than the current second (`UpTo`), so that the entry of a new second
splits the old bytes from the new; what a writer closed is exact with the header it
stored. `Streaming`: the row of a camera's last file has the greatest serial
number of its track (`Numbered`), the next byte is either the first of the file
with the next number or follows the last byte written (`Begins`, `Continues`), and a
file is left only when it is full (`GoesOn`). Only with that does a change of
files in the middle of a buffer keep `Gapless`: the property relates two
files, the step writes one. `Tearing`: when the first part of a buffer is in a file, the
next one has a number above 0 and the file before it is full (`TornBefore`), so that
what `OpenIndex` takes from the beginning of the buffer is behind a full block.

### Tracks

A finished file is found only if its track is found before it, so the heart of
`TracksInv` is `Covered`: the track of a finished file exists and covers it, whoever
ended which of them first. `Close` ends a file while the track is still open,
`Recycle` moves the beginning of a track to the end of its oldest file, `Query`
deletes tracks that are empty, and `Repair` ends track and file by the index. For
`Recycle` to leave the other files of the track covered, and for the queries to list
files in time, tracks and files must follow each other (`InSequence`): a file begins
when the files before it have ended, and lies between its track's neighbours. That
holds because only the last track is open (`LastIsOpen`), because the writer's
`m_serial` is beyond all numbers of its track and its file is the last one of it
(`Writing`, `Live`), and because one thread at a time does this (`OneWriter`). `Repair` ends a track by an index that may be another camera's: one that ends it
before its last file (`Cut`) is among the cases that are not usual. For
`Repair` the index must be that of the file that was written when the process
ended, and not end before that file begins; in between, while files change, it
names none that is in use (`IndexNames`). The invariant is stated for the states of
`Usual`, as the properties are; that is no restriction of the constants or the
steps, only of the four defects (items 16 to 19 of section 5), each of which breaks
it.

`OrderBy` is a choice; `ListingExists` shows that there is a listing of every finite
set that is ordered in a line, without induction: the place of an element is the
number of those up to it. The queries' orders are such (`OrdersAreLinear`).

### Playback

`InOrder` relates what was sent long ago to what is sent next, over files. The
answer of the query leaves no file out between two of its own, since times and units
of the files do not decrease (`SelectProperties`); what is left of `m_file_list` is
the rest of that answer, behind the open file (`ListIsRest`); and `fread` goes on
behind the piece that is held or, when there is none, behind what was sent
(`GoesOn`). A short read leaves nothing of the file behind, so the next file begins
where it goes on. `StartsInTime` needs that what is read first is early enough from
the moment it is chosen (`BeginsEarly`). `StopsInTime` needs that the end position,
once the last file is open, is the unit of the end second, and that `m_offsetpos` is
then the place in the file, so that a full read that passes it closes the file
(`EndsThere`, `BeforeTheEnd`); what was read by then is at most a piece too much.

### Devices and VideoPlan

The properties of `Devices` speak of threads, maps and rows one by one. What
carries them on is that `m_brun` and `m_recv_data_pthread` name the one thread that
has not passed the end of its loop (`HandleIsActive`, `ActiveRuns`), that such a
thread belongs to a camera of `m_manger_map`, and that the camera of whoever waits
in `pthread_join` stays in its map (`LockCoherent`).

`NoCameraLost` needs that a camera that is being added, or whose addition failed, has a
row and is in no map, as long as the process lives (`AddingCoherent`): then the next
start, which makes an object of every row, ends the exception.

A camera follows its plan because a check that is not disturbed decides by the hour it
woke in (`ChecksNow`), and because the hour `localtime` gives, plus one with its carry
into the next day and the next week, is the next hour of the clock. A check that waits
for `m_stream_lock` into the next hour, or whose static result was overwritten, decides
for another hour; `misled` keeps it apart until the next one, which puts it right.

### Transfer

An object is under one key of one map (`OnePlace`); a thread runs with `m_brun`
set, or its object is being stopped by someone who waits for it (`StopWaits`);
the lock's holder has the object still in `m_transfer_map` (`LockCoherent`). All this is
said of threads that are alone in their object: by `SenderIsListed` an object that is
not `doubled` has one at most, and `Start` sees to the others. A client that is
added while it is being served gives its object a second thread, of which
`stop_transfer` then waits for the last one only: without the exception `SubInUse` is
false (`ReadsAnOpenOne`, item 14 of section 5). `Sip` shows when its callers do that
(item 11).

### Sip and Transit

`StreamHasDialog` needs that nothing is entered twice: what an INVITE enters is
under a call that is in none of the maps (`NewIsBlank`, `InviteIsNew`), and a
channel of a call that is not answered is the one its INVITE entered
(`ChannelOfNew`), so that the end of another call cannot erase it. A destination is in
`left` until it is added again or its stream is ended, a call in `unnamed` until it is
forgotten: both exceptions end.

### HttpServer and Commands

`QueueInOrder` holds although `sq_head` and `sq_tail` are wrapped only in
`consume_socket`: the lemmas on `%` say that wrapping both by the length of the
ring changes no slot. `OneOwner` is strengthened by naming the three kinds of
owners (`Owned`), with an owner in the ring, the master, a worker and a stream
thread excluding each other. `ContextInUse` needs that `num_threads` counts the
workers there are, but for the one `mg_start` has just started (`Counted`).

For `Commands`, a number is given once (`Numbered`), a SIP id is in one row
(`RowsDiffer`), a command between the row and the object of a new camera owns it
(`MakersOwn`), and what was looked up is still what it was (`HoldersKnow`).

### Only model-checked

- Liveness: `WriterServed`, `RepairEnds`, `PlaybackEnds`, `CheckEnds` and
  both `StopEnds`, `IsServed`. TLAPS does not reach `ENABLED` and fairness.
- `OneList`, `ReadAsSent` (with `TextKept`) and the refinement of `XmlTree`
  (`KeepsTree`): they speak of what recursive functions over lists, trees and texts
  compute (`Kids`, `Under`, `Printed`, `ReadText`), which needs induction over data.
- `ReportedStartIsRight` and the other definitions of section 5, which are false.

## 5. Where code and promise differ

Some modules end with definitions that state what a comment or a name in the code
promises and that are *false* of the code. No run has them, since a run must pass;
add the name to the cfg to see the counterexample (where a constant is named,
change it too), under `INVARIANT` or, where it says how steps go (7 to 11), under
`PROPERTY`.

| Definition | Module, cfg | What TLC shows |
|---|---|---|
| 1. `InUseIsIng` | `BlockPool`, 4 blocks, 1 camera, `Spare = 2`, no symmetry | `pre_file` stores the name before the id and the writer tests the name only: a recording is made into a block whose row stays preallocated, and the next start frees it (`data_writer.cpp:428`; `include/stdprj.h:120`) |
| 2. `RepairedEndIsInFile` | `Recording` | after a crash while files change, the repaired row describes the previous file (`sql_manger.cpp:97`) |
| 3. `RepairedFromOwnDevice` | `Recording`, 2 cameras | the header buffer of `repair_db` is initialised once for all rows (`sql_manger.cpp:46`) |
| 4. `InUseHasNoIndex` | `Recording` | the header reserved in a new file is the previous one, which defeats the reader's test for a file in use (`data_writer.cpp:252`, `data_reader.cpp:193`) |
| 5. `OverIsTheEnd` | `Playback` | a file whose length is a multiple of the read ends the playback: `fread` gives 0, `getbuf` returns it, and the client is told it was the end (`data_transfer.cpp:430`) |
| 6. `ClosedAtTheEnd` | `Playback` | the end position keeps its first value when the last file has no entry for the end second |
| 7. `ReportedStartIsRight` | `Playback` | `m_offsetpos` is set for every entry before the start, the file position only for an exact one (`data_reader.cpp:117`) |
| 8. `EndIsFound` | `Playback` | the search stops at the first entry after the start of the span, so the end is not found when both are in one file |
| 9. `UpdatedPlanTakesEffect` | `VideoPlan` | "in force from the next hour on" (`http_manger.cpp:552`): the plan in memory is not updated until the process restarts |
| 10. `ChecksTheComingHour` | `VideoPlan` | the plan thread keeps the static result of `localtime` over its wait for the lock (`video_manger.cpp:688`), and another thread overwrites it; the wait may besides outlast the hour (`Late`) |
| 11. `AddedOnce` | `Sip` | a destination is added although it is sent a stream: a recorded stream that replaced another has no channel, a live one enters its own for the same destination, and the end of the recorded one erases that (`sip_manger.cpp:168`) |
| 12. `EveryByteInPlace` | `Recording` | the second half of a buffer that crosses the end of a block is written from the beginning of the buffer: its first bytes are on the disk twice, its last ones are lost (`data_writer.cpp:176`) |
| 13. `EveryStreamHasDialog` | `Sip` | a BYE ends a live stream only if the camera is in `m_manger_map`, and says it did all the same (`video_manger.cpp:436`); a recorded stream whose source does not parse is started and answered 200 without a dialog, so no BYE can end it (`sip_manger.cpp:261`, `302`) |
| 14. `ReadsAnOpenOne` | `Transfer`, without its `CONSTRAINTS` | an object that is started again under its running thread gets a second one; `stop_transfer` waits for one and deletes the subscriber of both, between the other's test for NULL and its `get_buf` (`data_transfer.cpp:354`) |
| 15. `BadIsReported` | `Xml` | text, a stray end tag and a broken declaration or comment between the elements of a document set no error, and text or what is broken drops the rest of the message (`tinyxmlparser.cpp:756`, `1594`) |

Defects the passing properties except, all reachable in the models:

- 16\. a writer thread that starts in a second in which an earlier track starts
  reads the id of that one (`Tracks`, `Begin`);
- 17\. a writer that ended itself is not joined, and the next one starts while it
  closes its file (`data_writer.cpp:101`; `Tracks`, `Start`);
- 18\. the repair ends a track by the index of another file, or by an uninitialised
  time (`Tracks`, `Repair`);
- 19\. the repair ends every open track at the last entry of the last index it read:
  by that of another camera a track ends before its last file, which is then not found
  (`sql_manger.cpp:81`, `123`; `Tracks`, `Repair`, `Cut`);
- 20\. a camera deleted after its receive thread ended by itself leaves the
  subscriber of its `data_writer` open: `zmq_ctx_destroy` waits for ever with
  `m_stream_lock` held (`block_queue.cpp:350`; `Transfer`);
- 21\. so it does when a transfer was started while its subscriber was still open, as
  when its sender gave up while the camera was lost: `start_transfer` writes over the
  pointer and nobody can close it (`data_transfer.cpp:175`; `Transfer`, `leaked`);
- 22\. `mg_stop` waits for ever when a worker is at a client that says nothing, since
  `pull` has no timeout and does not look at the stop flag (`mongoose.c:1361`), when the
  master waits for room in the ring after the workers left, or when its broadcast falls
  between a worker's test and its wait (`mongoose.c:3922`; `HttpServer`);
- 23\. a writer that is stopped while it waits for `m_stream_lock`, which the one who
  stops it holds, blocks the recorder for good, also when `pre_file` has given it a block
  after its unlocked test (`data_writer.cpp:240`, `video_manger.cpp:480`; `BlockPool`,
  `Deadlocked`);
- 24\. an error after the insert of a new camera's row leaves a row without an object
  until the next start (`sql_manger.cpp:608`; `Devices`, `AddFails`);
- 25\. a video request for id 0 follows a context that is NULL in a moved
  connection, and the iterator into `m_channelist` is used after another thread
  of the same number erased it (`HttpServer`, `crashed`);
- 26\. the end of a playback cannot be told to a client that has hung up: the loop
  of ten attempts has an empty body (`sip_manger.cpp:672`; `Playback`);
- 27\. an encoded text passes what begins like `&#x` through as it is, up to the
  next `;` (`tinyxml.cpp:57`; `XmlText`);
- 28\. `process_identity` steps over one session after each erase
  (`http_manger.cpp:219`; `Commands`);
- 29\. `begin()` of an empty list is dereferenced when nothing can be recycled
  (`video_manger.cpp:491`; `BlockPool`).

Seen while reading and not part of a property: `devlist` walks `m_manger_map`
without a lock (`List`, `ListDeleted`); the HTTP server starts before
`video_manger` has loaded its cameras; `write_conf_value` truncates and rewrites
the settings without a lock; `updatevideoplan` reports success for an unknown
camera; the statement of `updatedev` has no quotes and always fails; relays are
sent to port 0, their senders give up after 45 s, and the receive thread of a
deleted relay calls `delete_transit` again.

## 6. Not modelled

- Drivers (`device_manger.cpp`, `nvr_device_mgr.cpp`), page and message
  formatting, files of settings, `main`, string helpers, the SQLite wrapper, the
  build system: no state of the recorder, or only input and output.
- Of mongoose, everything but its threads and sockets: parsing of requests, files,
  CGI, SSL, authentication. Of tinyxml, attributes, encodings, CDATA, file access.
- RTP packets, their order and their sockets; transport stream packets and pacing;
  GB28181 registration and its refresh; camera control.
- The first check of the plan thread (`first_check`), which finds cameras that are not
  connected yet or decides what their start has just decided.
- Playback of the file that is being written, whose index is asked of the writer.
- A transaction left open by an exception; ties of `start_time`; a clock that goes
  back (but for the sessions of `Commands`); failures of single SQL statements
  except where a module names them.
- More than one thread at a time on a `data_writer` in `BlockPool` and
  `Recording` (`Tracks` has two); the bytes of files in `Tracks`; the `data_writer`
  of a deleted camera (only its subscriber, in `Transfer`).
- Code nothing calls: the ring of `block_queue`, `raw_data`, `start_thread`,
  `real_send_thread`, the shared memory queue, `recycle_video_*_sql`,
  `repair_video_*_sql`, `add_video_etag`, the one-argument queries and
  `init_reader`, `add_dc_dest`, `del_dc_dest`, `add_video_stream_temp`,
  `update_plan_by_cmd`, `apply_*_on_media*`, `answer_message_to_sip`,
  `zmq_block_sub::reconnect`, snapshots, `thread_check_video_recycle`,
  `thread_take_short`.
