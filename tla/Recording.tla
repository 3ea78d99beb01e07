------------------------------- MODULE Recording -------------------------------
(***************************************************************************)
(* What a camera's writer (data_writer) leaves in its files, and what      *)
(* repair_db (sql_manger) makes of them after a crash.                     *)
(*                                                                         *)
(* A data file starts with HeaderSize bytes that hold the identity of the  *)
(* recording and an index of (second, offset) entries; the writer keeps    *)
(* them in memory, appends every new entry to the camera's index file on   *)
(* the system disk as well, and writes the header when it closes the file. *)
(* The identity takes as many bytes as an entry.                           *)
(*                                                                         *)
(* A second that ends between the index entry of a buffer and the write of *)
(* that buffer is not told apart, and the clock does not go back.  Which   *)
(* block the writer opens is decided in BlockPool; here it is any that is  *)
(* not in use.                                                             *)
(***************************************************************************)
EXTENDS Integers, Sequences, FiniteSets

CONSTANTS
    Files,      \* file_id of the preallocated files
    Devices,    \* video_id of the cameras
    NoIndex,    \* there is no /etc/GVR/<video_id>.idx
    BlockSize,  \* FILE_BLOCK_SIZE
    HeaderSize, \* m_file_header_size
    MaxIndex,   \* MAX_FILE_INDEX
    Chunks,     \* lengths of the buffers a writer gets, BLOCK_CACHE_SIZE at most
    Unflushed,  \* bytes stdio may hold back from the disk
    RepairMax,  \* rows repair_db visits before it starts again (5 in the code)
    MaxTime,    \* bound of the clock
    MaxTracks,  \* bound of the tracks of a camera
    MaxBytes    \* bound of the bytes of a track

ASSUME RecordingAssumption ==
    /\ Files \subseteq Nat \ {0} /\ Devices \subseteq Nat \ {0}
    /\ IsFiniteSet(Files)
    /\ HeaderSize \in Nat \ {0} /\ BlockSize \in Nat /\ HeaderSize < BlockSize
    /\ \A n \in Chunks : n \in Nat /\ 0 < n /\ n < BlockSize - HeaderSize
    /\ MaxIndex \in Nat \ {0, 1} /\ Unflushed \in Nat /\ RepairMax \in Nat
    /\ MaxTime \in Nat /\ MaxTracks \in Nat /\ MaxBytes \in Nat

VARIABLES
    now,        \* the clock, in seconds
    phase,      \* the process is "up", "down" or in repair_db ("repair")
    status,     \* video_file.file_status of each file
    row,        \* video_id, track_id, serial_num and file_length of each row
    data,       \* the bytes of each file behind its header
    hdr,        \* the header of each file
    idx,        \* the camera's index file
    wpc,        \* control point of each writer thread
    fp,         \* the file m_datafp is open on, or 0
    idxfp,      \* m_idxfp is open
    length,     \* m_file_length
    head,       \* m_pheader and m_bbs, and the index entries in m_indexnum
    second,     \* m_current_time
    serial,     \* m_serial
    track,      \* m_track_id, the camera's last row of video_track
    rest,       \* bytes of the current buffer that wait for the next file
    firstwrite, \* bytes of it that the last file took
    got,        \* bytes of the track the writer has been given (history)
    todo,       \* repair_db: rows of its query not visited yet
    visited,    \* repair_db: its local m
    joined,     \* repair_db: what its buffer holds already, or NoIndex
    repaired    \* the rows repair_db has finished (history)

catalogue == <<status, row, repaired>>
disk      == <<data, hdr, idx>>
writer    == <<wpc, fp, idxfp, length, head, second, serial, rest, firstwrite>>
repair    == <<todo, visited, joined>>
vars      == <<now, phase, catalogue, disk, writer, track, got, repair>>

Ids     == [dev : Nat, track : Nat, serial : Nat]
Entries == [t : Nat, off : Nat]
Headers == [owner : Ids, index : Seq(Entries)]
Bytes   == [pos : Nat, is : Nat, at : Nat]  \* the place in the track, which of its bytes is there
Rows    == [dev : Nat, track : Nat, serial : Nat, len : Nat]

Blank == [owner |-> [dev |-> 0, track |-> 0, serial |-> 0], index |-> <<>>]

\* The first n elements of s, or all of them.
Cut(s, n) == SubSeq(s, 1, IF Len(s) < n THEN Len(s) ELSE n)

\* The identity of what the writer of d records now.
Identity(d) == [dev |-> d, track |-> track[d], serial |-> serial[d]]
-------------------------------------------------------------------------------
Init ==
    /\ now = 1
    /\ phase = "up"
    /\ status = [f \in Files |-> "NEW"]
    /\ row = [f \in Files |-> [dev |-> 0, track |-> 0, serial |-> 0, len |-> 0]]
    /\ data = [f \in Files |-> <<>>]
    /\ hdr = [f \in Files |-> Blank]
    /\ idx = [d \in Devices |-> NoIndex]
    /\ wpc = [d \in Devices |-> "idle"]
    /\ fp = [d \in Devices |-> 0]
    /\ idxfp = [d \in Devices |-> FALSE]
    /\ length = [d \in Devices |-> 0]
    /\ head = [d \in Devices |-> Blank]
    /\ second = [d \in Devices |-> 0]
    /\ serial = [d \in Devices |-> 0]
    /\ track = [d \in Devices |-> 0]
    /\ rest = [d \in Devices |-> 0] /\ firstwrite = [d \in Devices |-> 0]
    /\ got = [d \in Devices |-> 0]
    /\ todo = {} /\ visited = 0 /\ joined = NoIndex
    /\ repaired = {}

Tick ==
    /\ now < MaxTime
    /\ now' = now + 1
    /\ UNCHANGED <<phase, catalogue, disk, writer, track, got, repair>>
-------------------------------------------------------------------------------
(* The writer thread: raw_data2, writer_file, open_file and close_file.    *)

\* raw_data2 begins: a new track.
StartWriter(d) ==
    /\ phase = "up" /\ wpc[d] = "idle"
    /\ track[d] < MaxTracks
    /\ wpc' = [wpc EXCEPT ![d] = "run"]
    /\ track' = [track EXCEPT ![d] = @ + 1]
    /\ serial' = [serial EXCEPT ![d] = 0]
    /\ got' = [got EXCEPT ![d] = 0]
    /\ UNCHANGED <<now, phase, catalogue, disk, fp, idxfp, length, head, second, rest, firstwrite,
                   repair>>

\* write_index has an entry to make, but the index is full.
IndexFull(d) == now # second[d] /\ Len(head[d].index) >= MaxIndex

\* write_index: an entry for the first buffer of a second, at offset off, goes
\* into header h; then it is in the index file i with all that stdio held back.
WriteIndex(d, h, i, off) ==
    LET entered == [h EXCEPT !.index = Append(@, [t |-> now, off |-> off])]
    IN  IF now = second[d]
        THEN /\ head' = [head EXCEPT ![d] = h]
             /\ idx' = [idx EXCEPT ![d] = i]
             /\ UNCHANGED second
        ELSE /\ head' = [head EXCEPT ![d] = entered]
             /\ idx' = [idx EXCEPT ![d] = entered]
             /\ second' = [second EXCEPT ![d] = now]

\* fwrite of n bytes of the track, from byte first on, into its places from from on.
AppendData(d, n, from, first) ==
    data' = [data EXCEPT ![fp[d]] =
                @ \o [i \in 1 .. n |-> [pos |-> from + i - 1, is |-> first + i - 1, at |-> now]]]

\* Mutant: a buffer is never split.
FitWhole(d, n) == n

\* How much of a buffer of n bytes fits into the open file.
Fit(d, n) == IF n <= BlockSize - length[d] THEN n ELSE BlockSize - length[d]

\* Mutant: the rest of a buffer is forgotten.
LeftNone(d, n) == 0

\* What is left of it for the next file.
Left(d, n) == n - Fit(d, n)

\* A buffer of n bytes arrives and no file is open.
ReceiveFirst(d, n) ==
    /\ fp[d] = 0
    /\ rest' = [rest EXCEPT ![d] = n] /\ firstwrite' = [firstwrite EXCEPT ![d] = 0]
    /\ wpc' = [wpc EXCEPT ![d] = "open"]
    /\ UNCHANGED <<disk, length, head, second>>

\* The index of the open file is full: the buffer goes to the next file.
ReceiveIndexFull(d, n) ==
    /\ fp[d] # 0 /\ IndexFull(d)
    /\ second' = [second EXCEPT ![d] = now]
    /\ rest' = [rest EXCEPT ![d] = n] /\ firstwrite' = [firstwrite EXCEPT ![d] = 0]
    /\ wpc' = [wpc EXCEPT ![d] = "close"]
    /\ UNCHANGED <<disk, length, head>>

\* The index entry, then what fits into the block; a full block is closed.
ReceiveInto(d, n) ==
    /\ fp[d] # 0 /\ ~IndexFull(d)
    /\ WriteIndex(d, head[d], idx[d], length[d])
    /\ AppendData(d, Fit(d, n), got[d], got[d])
    /\ length' = [length EXCEPT ![d] = @ + Fit(d, n)]
    /\ rest' = [rest EXCEPT ![d] = Left(d, n)]
    /\ firstwrite' = [firstwrite EXCEPT ![d] = IF Left(d, n) = 0 THEN 0 ELSE Fit(d, n)]
    /\ wpc' = [wpc EXCEPT ![d] = IF length[d] + n < BlockSize THEN "run" ELSE "close"]
    /\ UNCHANGED hdr

\* writer_file with a buffer of n bytes.
Receive(d, n) ==
    /\ phase = "up" /\ wpc[d] = "run"
    /\ got[d] + n <= MaxBytes
    /\ ReceiveFirst(d, n) \/ ReceiveIndexFull(d, n) \/ ReceiveInto(d, n)
    /\ got' = [got EXCEPT ![d] = @ + n]
    /\ UNCHANGED <<now, phase, catalogue, fp, idxfp, serial, track, repair>>

\* fwrite fails after k bytes that m_file_length does not count: the thread
\* closes the file and ends.
WriteFails(d, k) ==
    /\ phase = "up" /\ wpc[d] = "run" /\ fp[d] # 0 /\ ~IndexFull(d)
    /\ \E n \in Chunks : k < Fit(d, n)
    /\ WriteIndex(d, head[d], idx[d], length[d])
    /\ AppendData(d, k, got[d], got[d])
    /\ wpc' = [wpc EXCEPT ![d] = "end"]
    /\ UNCHANGED <<now, phase, catalogue, hdr, fp, idxfp, length, serial, rest, firstwrite,
                   track, got, repair>>

\* No data for a while, or stop_thead: between two buffers, or when a call of
\* open_file fails or acts on the cancellation.
EndWriter(d) ==
    /\ phase = "up" /\ wpc[d] \in {"run", "open", "index"}
    /\ wpc' = [wpc EXCEPT ![d] = "end"]
    /\ UNCHANGED <<now, phase, catalogue, disk, fp, idxfp, length, head, second, serial, rest,
                   firstwrite, track, got, repair>>

\* close_file: the header, stop_video_file_sql and the index file, whose last
\* bytes fclose writes.  The writer goes on with the next file or ends.
CloseFile(d) ==
    /\ phase = "up" /\ wpc[d] \in {"close", "end"} /\ fp[d] # 0
    /\ hdr' = [hdr EXCEPT ![fp[d]] = head[d]]
    /\ status' = [status EXCEPT ![fp[d]] = "VIDEO"]
    /\ row' = [row EXCEPT ![fp[d]].len = length[d]]
    /\ repaired' = repaired \ {fp[d]}
    /\ idx' = IF idxfp[d] THEN [idx EXCEPT ![d] = head[d]] ELSE idx
    /\ fp' = [fp EXCEPT ![d] = 0]
    /\ idxfp' = [idxfp EXCEPT ![d] = FALSE]
    /\ wpc' = [wpc EXCEPT ![d] = IF wpc[d] = "close" THEN "open" ELSE "idle"]
    /\ UNCHANGED <<now, phase, data, length, head, second, serial, rest, firstwrite, track, got,
                   repair>>

\* The thread ends with no file open.
EndClosed(d) ==
    /\ phase = "up" /\ wpc[d] = "end" /\ fp[d] = 0
    /\ wpc' = [wpc EXCEPT ![d] = "idle"]
    /\ UNCHANGED <<now, phase, catalogue, disk, fp, idxfp, length, head, second, serial, rest,
                   firstwrite, track, got, repair>>

\* open_file: fopen truncates file f, start_video_file_sql, and the header in
\* memory, still that of the last file, reserves the place of the new one.
OpenFile(d, f) ==
    /\ phase = "up" /\ wpc[d] = "open" /\ status[f] # "ING"
    /\ data' = [data EXCEPT ![f] = <<>>]
    /\ hdr' = [hdr EXCEPT ![f] = head[d]]
    /\ status' = [status EXCEPT ![f] = "ING"]
    /\ row' = [row EXCEPT ![f] = [dev |-> d, track |-> track[d], serial |-> serial[d], len |-> 0]]
    /\ repaired' = repaired \ {f}
    /\ fp' = [fp EXCEPT ![d] = f]
    /\ length' = [length EXCEPT ![d] = HeaderSize]
    /\ wpc' = [wpc EXCEPT ![d] = "index"]
    /\ UNCHANGED <<now, phase, idx, idxfp, head, second, serial, rest, firstwrite, track, got,
                   repair>>

\* Mutant: the header in memory is not cleared for the new file.
FreshKept(d) == [owner |-> Identity(d), index |-> head[d].index]

\* re_open_idx and m_serial: a header with the identity and no entry.
Fresh(d) == [owner |-> Identity(d), index |-> <<>>]

\* re_open_idx truncates the index file; write_index; then k bytes that fwrite takes:
\* as many as the buffer has left, but from its beginning, also when the last file has
\* those already.  When it does not take all the thread ends.
OpenIndex(d, k) ==
    /\ phase = "up" /\ wpc[d] = "index"
    /\ k <= rest[d]
    /\ WriteIndex(d, Fresh(d), Blank, length[d])
    /\ idxfp' = [idxfp EXCEPT ![d] = TRUE]
    /\ serial' = [serial EXCEPT ![d] = @ + 1]
    /\ AppendData(d, k, got[d] - rest[d], got[d] - rest[d] - firstwrite[d])
    /\ length' = [length EXCEPT ![d] = IF k = rest[d] THEN @ + k ELSE @]
    /\ rest' = [rest EXCEPT ![d] = 0] /\ firstwrite' = [firstwrite EXCEPT ![d] = 0]
    /\ wpc' = [wpc EXCEPT ![d] = IF k = rest[d] THEN "run" ELSE "end"]
    /\ UNCHANGED <<now, phase, catalogue, hdr, fp, track, got, repair>>

Writer(d) ==
    \/ (\E n \in Chunks : Receive(d, n)) \/ (\E k \in 0 .. BlockSize : WriteFails(d, k))
    \/ EndWriter(d) \/ CloseFile(d) \/ EndClosed(d)
    \/ (\E f \in Files : OpenFile(d, f)) \/ (\E k \in 0 .. BlockSize : OpenIndex(d, k))
-------------------------------------------------------------------------------
(* A crash, and repair_db at the next start.                               *)

\* The process dies; of the open files only the last bytes may be missing.
Crash ==
    /\ phase \in {"up", "repair"}
    /\ phase' = "down"
    /\ \E lost \in [Devices -> 0 .. Unflushed] :
          data' = [f \in Files |->
              IF \E d \in Devices : fp[d] = f
              THEN LET d == CHOOSE d \in Devices : fp[d] = f
                   IN  Cut(data[f], Len(data[f]) - lost[d])
              ELSE data[f]]
    /\ wpc' = [d \in Devices |-> "idle"]
    /\ fp' = [d \in Devices |-> 0]
    /\ idxfp' = [d \in Devices |-> FALSE]
    /\ length' = [d \in Devices |-> 0]
    /\ head' = [d \in Devices |-> Blank]
    /\ second' = [d \in Devices |-> 0]
    /\ serial' = [d \in Devices |-> 0]
    /\ rest' = [d \in Devices |-> 0] /\ firstwrite' = [d \in Devices |-> 0]
    /\ todo' = {} /\ visited' = 0 /\ joined' = NoIndex
    /\ UNCHANGED <<now, catalogue, hdr, idx, track, got>>

InUse == {f \in Files : status[f] = "ING"}

\* repair_db queries the rows in use.
Restart ==
    /\ phase = "down"
    /\ phase' = "repair"
    /\ todo' = InUse /\ visited' = 0 /\ joined' = NoIndex
    /\ UNCHANGED <<now, catalogue, disk, writer, track, got>>

\* An identity read as the time of an entry.
FarFuture == MaxTime + 1

\* What the buffer of repair_db holds after the index file i: it is filled from
\* where the row before stopped, and its size is that of one header.  (What the
\* code writes behind its end may also end the process; Crash covers that.)
Joined(i) ==
    IF joined = NoIndex THEN i
    ELSE [joined EXCEPT !.index =
             Cut(@ \o <<[t |-> FarFuture, off |-> i.owner.serial]>> \o i.index, MaxIndex)]

\* The offset of the last entry, from which repair_db takes the file length.
LastOffset(i) == IF i.index = <<>> THEN 0 ELSE i.index[Len(i.index)].off

\* What is behind the last entry in the buffer of repair_db is not initialised.
Uninitialised == {<<>>, <<[t |-> FarFuture, off |-> 0]>>}

\* Mutant: one row too few before the query is repeated.
RepairAgainEarly == visited + 1 >= RepairMax

\* The query is repeated when more than RepairMax rows have been visited.
RepairAgain == visited + 1 > RepairMax

\* One row of the query: its camera's index file becomes the header of the
\* file, and its last offset the length; a file that cannot be opened gets
\* length 0.  Without an index file the row stays in use.
RepairRow(f) ==
    /\ phase = "repair"
    /\ f \in todo /\ \A g \in todo : f <= g
    /\ LET i == idx[row[f].dev]
       IN  \/ /\ i = NoIndex
              /\ UNCHANGED <<catalogue, hdr>>
              /\ joined' = IF RepairAgain THEN NoIndex ELSE joined
           \/ /\ i # NoIndex
              /\ status' = [status EXCEPT ![f] = "VIDEO"]
              /\ repaired' = repaired \cup {f}
              /\ \/ /\ \E junk \in Uninitialised :
                          hdr' = [hdr EXCEPT ![f] =
                              [Joined(i) EXCEPT !.index = Cut(@ \o junk, MaxIndex)]]
                    /\ row' = [row EXCEPT ![f].len = LastOffset(i)]
                 \/ /\ row' = [row EXCEPT ![f].len = 0]
                    /\ UNCHANGED hdr
              /\ joined' = IF RepairAgain THEN NoIndex ELSE Joined(i)
    /\ visited' = IF RepairAgain THEN 0 ELSE visited + 1
    /\ todo' = IF RepairAgain THEN {g \in Files : status'[g] = "ING"} ELSE todo \ {f}
    /\ UNCHANGED <<now, phase, data, idx, writer, track, got>>

RepairDone ==
    /\ phase = "repair" /\ todo = {}
    /\ phase' = "up"
    /\ visited' = 0 /\ joined' = NoIndex
    /\ UNCHANGED <<now, catalogue, disk, writer, track, got, todo>>

Repair == RepairDone \/ \E f \in Files : RepairRow(f)
-------------------------------------------------------------------------------
Next ==
    \/ Tick \/ Crash \/ Restart \/ Repair
    \/ \E d \in Devices : StartWriter(d) \/ Writer(d)

Spec == Init /\ [][Next]_vars

\* repair_db runs alone, before any other thread exists.
FairSpec == Spec /\ WF_vars(Repair)
-------------------------------------------------------------------------------
TypeOK ==
    /\ now \in Nat
    /\ phase \in {"up", "down", "repair"}
    /\ status \in [Files -> {"NEW", "ING", "VIDEO"}]
    /\ row \in [Files -> Rows]
    /\ repaired \subseteq Files
    /\ data \in [Files -> Seq(Bytes)]
    /\ hdr \in [Files -> Headers]
    /\ idx \in [Devices -> Headers \cup {NoIndex}]
    /\ wpc \in [Devices -> {"idle", "run", "close", "open", "index", "end"}]
    /\ fp \in [Devices -> Files \cup {0}]
    /\ idxfp \in [Devices -> BOOLEAN]
    /\ length \in [Devices -> Nat]
    /\ head \in [Devices -> Headers]
    /\ second \in [Devices -> Nat] /\ serial \in [Devices -> Nat]
    /\ track \in [Devices -> Nat]
    /\ rest \in [Devices -> Nat] /\ firstwrite \in [Devices -> Nat] /\ got \in [Devices -> Nat]
    /\ todo \subseteq Files /\ visited \in Nat
    /\ joined \in Headers \cup {NoIndex}

\* The identity that belongs into the header of file f.
RowIdentity(f) == [dev |-> row[f].dev, track |-> row[f].track, serial |-> row[f].serial]

\* The bytes of file f with the header in front of them.
FileLength(f) == HeaderSize + Len(data[f])

\* The writer never writes more than a block: a file that takes data has room
\* left, one that is closed for being full is exactly full, and the row of a
\* closed file counts no byte that is not there (data_writer.cpp writer_file).
FitsBlock ==
    /\ \A d \in Devices : fp[d] # 0 =>
          /\ length[d] <= FileLength(fp[d]) /\ FileLength(fp[d]) <= BlockSize
          /\ wpc[d] = "run" => length[d] < BlockSize /\ length[d] = FileLength(fp[d])
    /\ \A f \in Files : status[f] = "VIDEO" /\ f \notin repaired =>
          row[f].len <= FileLength(f) /\ FileLength(f) <= BlockSize

\* g is the file after f of the same track.
Follows(f, g) ==
    /\ status[f] # "NEW" /\ status[g] # "NEW"
    /\ row[f].dev = row[g].dev /\ row[f].track = row[g].track
    /\ row[g].serial = row[f].serial + 1

\* The files of a track take its places in order, without a gap or a place twice, also
\* where a buffer is split between two files, and the writer leaves a file for the next
\* only when the block or its index is full.
Gapless ==
    /\ \A f \in Files : \A k \in DOMAIN data[f] :
          data[f][k].pos = data[f][1].pos + k - 1
    /\ \A f \in Files : status[f] # "NEW" /\ row[f].serial = 0 /\ data[f] # <<>> =>
          data[f][1].pos = 0
    /\ \A f, g \in Files : Follows(f, g) =>
          /\ status[f] = "VIDEO" /\ f \notin repaired
          /\ row[f].len = BlockSize \/ Len(hdr[f].index) = MaxIndex
          /\ data[f] # <<>>
          /\ data[g] # <<>> => data[g][1].pos = data[f][Len(data[f])].pos + 1

\* How far the byte that is k-th in file f is behind its place.
Shift(f, k) == data[f][k].pos - data[f][k].is

\* Bytes are in place but for the first ones of a file that follows a full block: the
\* rest of the buffer that was split is taken from its beginning, all of it from the
\* same distance.
Torn ==
    /\ \A f \in Files : \A k \in DOMAIN data[f] : Shift(f, k) # 0 =>
          /\ Shift(f, k) > 0 /\ row[f].serial # 0
          /\ \A j \in 1 .. k : Shift(f, j) = Shift(f, k)
    /\ \A f, g \in Files : Follows(f, g) /\ data[g] # <<>> /\ Shift(g, 1) # 0 =>
          row[f].len = BlockSize

\* The stream survives every change of files but one: as many bytes are in the files of a
\* track as were received, file after full file, and each is where it belongs, except
\* that a split leaves the beginning of a buffer in the place of its end
\* (data_writer.cpp writer_file; EveryByteInPlace is what was meant).
TornOnlyAtSplits == Gapless /\ Torn

\* The index of header h tells the seconds of file f apart: the entry of a
\* second has the offset of the first byte written in it or later, and only
\* the second in which the file begins may have none.
Indexed(h, f) ==
    LET off(k) == HeaderSize + k - 1
    IN  /\ Len(h.index) <= MaxIndex
        /\ \A i \in DOMAIN h.index :
              /\ h.index[i].off \in HeaderSize .. FileLength(f)
              /\ \A k \in DOMAIN data[f] :
                    data[f][k].at >= h.index[i].t <=> off(k) >= h.index[i].off
        /\ \A k \in DOMAIN data[f] : data[f][k].at > data[f][1].at =>
              \E i \in DOMAIN h.index : h.index[i].t = data[f][k].at

\* Playback seeks by the header of a file: that of a finished recording is its
\* own and its index is exact, whatever second, full block or full index made
\* the writer change files (data_writer.cpp write_index, re_open_idx and
\* close_file).
IndexExact ==
    /\ \A f \in Files : status[f] = "VIDEO" /\ f \notin repaired /\ data[f] # <<>> =>
          hdr[f].owner = RowIdentity(f) /\ Indexed(hdr[f], f)
    /\ \A d \in Devices : idxfp[d] =>
          head[d].owner = RowIdentity(fp[d]) /\ Indexed(head[d], fp[d])

\* A buffer that crosses the end of a block is written in two pieces, what fits and what
\* is left (data_writer.cpp:168-179): every byte is in its place.
EveryByteInPlace == \A f \in Files : \A k \in DOMAIN data[f] : Shift(f, k) = 0

\* repair_db finds the end of a file in use from its camera's index file
\* (sql_manger.cpp:51): the length it gives a row does not exceed the file.
RepairedEndIsInFile ==
    \A f \in repaired : row[f].len <= FileLength(f)

\* repair_db reads the index file of the row's own camera (sql_manger.cpp:51):
\* no repaired header is that of another camera.
RepairedFromOwnDevice ==
    \A f \in repaired : hdr[f].owner.dev \in {0, row[f].dev}

\* A file block in use shows no second index entry in its header on disk
\* (data_reader.cpp:193-197): the index is then asked of the writer.
InUseHasNoIndex ==
    \A d \in Devices : fp[d] # 0 => Len(hdr[fp[d]].index) < 2

\* repair_db repeats its query after RepairMax rows and ends all the same, as
\* long as no more than RepairMax rows have no index file: those stay in use and
\* every repetition visits them again.
RepairEnds ==
    (phase = "repair" /\ Cardinality({f \in InUse : idx[row[f].dev] = NoIndex}) <= RepairMax)
        ~> phase # "repair"
===============================================================================
