-------------------------------- MODULE Tracks ---------------------------------
(***************************************************************************)
(* The recordings of one camera in the catalogue: the writer thread with   *)
(* its start, its ways to end and its stop, the rows of video_track and    *)
(* video_file it leaves, the recycling of old files, the repair after a    *)
(* crash, and the queries that list what can be played.                    *)
(*                                                                         *)
(* A statement of the catalogue is one step under m_db_lock.  What is in   *)
(* the files is the matter of Recording.  Two threads that close the same  *)
(* file at once end the process, which Crash covers.                       *)
(***************************************************************************)
EXTENDS Naturals, Sequences, FiniteSets, FiniteSetsExt, SequencesExt, Listing

CONSTANTS
    Blocks,     \* the rows of video_file that this camera gets
    MaxTime,    \* bound: seconds
    MaxTracks,  \* bound: rows of video_track
    MaxSerial   \* bound: files of a track

ASSUME TracksAssumption ==
    IsFiniteSet(Blocks) /\ Blocks \subseteq Nat \ {0} /\ {MaxTime, MaxTracks, MaxSerial} \subseteq Nat \ {0}

VARIABLES
    now,    \* the clock
    up,     \* the process runs
    rows,   \* video_track by track_id
    block,  \* video_file by file_id
    idx,    \* the index file: the track and number in its head and its last entry, or NoIndex
    lock,   \* m_db_lock is free, or was left by a thread that was cancelled
    pc,     \* the writer thread, and one that is ending when the next one starts
    ctl,    \* the thread in stop_thead, which holds m_stream_lock
    wrun, track, serial,  \* m_brun, m_track_id, m_serial
    cur,    \* m_file_current_id while m_datafp is open, or 0
    stamp,  \* m_current_time: the second of the last index entry
    odd     \* history: what the code gets wrong and the properties except (see Usual)

catalogue  == <<rows, block>>
writer     == <<wrun, track, serial, cur, stamp>>
tracksVars == <<now, up, catalogue, idx, lock, pc, ctl, writer, odd>>

Open    == MaxTime + 1  \* 9999999999
Times   == 0 .. Open
NoIndex == [track |-> 0, serial |-> 0, last |-> Open]
Track   == [st : Times, et : Times, status : {"ING", "ED", "gone"}]
File    == [status : {"NEW", "ING", "VIDEO"}, st : Times, et : Times,
            track : 0 .. MaxTracks, serial : 0 .. MaxSerial]
Threads == [old : {"none", "close", "end"},
            new : {"none", "begin", "run", "open", "index", "entry", "close", "end"}]

TracksTypeOK ==
    /\ now \in 1 .. MaxTime /\ {up, wrun, odd} \subseteq BOOLEAN
    /\ Len(rows) <= MaxTracks /\ \A i \in DOMAIN rows : rows[i] \in Track
    /\ block \in [Blocks -> File]
    /\ idx \in [track : 0 .. MaxTracks, serial : 0 .. MaxSerial, last : Times]
    /\ lock \in {"free", "left"} /\ pc \in Threads /\ ctl \in {"idle", "join", "close", "end"}
    /\ track \in 0 .. Len(rows) /\ serial \in 0 .. MaxSerial
    /\ stamp \in 0 .. now /\ (cur # 0 => block[cur].status = "ING")

TracksInit ==
    /\ now = 1 /\ up = TRUE /\ rows = <<>>
    /\ block = [f \in Blocks |-> [status |-> "NEW", st |-> 0, et |-> 0, track |-> 0, serial |-> 0]]
    /\ idx = NoIndex /\ lock = "free" /\ pc = [old |-> "none", new |-> "none"] /\ ctl = "idle"
    /\ wrun = FALSE /\ track = 0 /\ serial = 0 /\ cur = 0 /\ stamp = 0 /\ odd = FALSE

Tick == now < MaxTime /\ now' = now + 1 /\ UNCHANGED <<up, catalogue, idx, lock, pc, ctl, writer, odd>>

-----------------------------------------------------------------------------
\* Statements of the catalogue
Rows == {i \in DOMAIN rows : rows[i].status # "gone"}
Db   == up /\ lock = "free"

\* stop_video_track_sql
StopTrack(e) == [i \in DOMAIN rows |->
    IF i = track /\ rows[i].status = "ING" THEN [rows[i] EXCEPT !.et = e, !.status = "ED"] ELSE rows[i]]

\* close_file and stop_video_file_sql
CloseFile ==
    /\ cur # 0 => Db
    /\ block' = IF cur = 0 THEN block
                ELSE [block EXCEPT ![cur].et = now, ![cur].status = "VIDEO"]
    /\ cur' = 0

-----------------------------------------------------------------------------
\* raw_data2 begins: a row is inserted, and the id of the first row that starts now is read
Begin ==
    /\ pc.new = "begin" /\ Db /\ Len(rows) < MaxTracks
    /\ rows' = Append(rows, [st |-> now, et |-> Open, status |-> "ING"])
    /\ track' = Min({i \in Rows : rows[i].st = now} \cup {Len(rows')})
    /\ serial' = 0 /\ pc' = [pc EXCEPT !.new = "run"] /\ odd' = (odd \/ track' # Len(rows'))
    /\ UNCHANGED <<now, up, block, idx, lock, ctl, wrun, cur, stamp>>

\* A buffer goes into the open file; the first of a second has an entry in the index,
Write ==
    /\ pc.new = "run" /\ wrun /\ cur # 0 /\ stamp # now
    /\ idx' = [idx EXCEPT !.last = now] /\ stamp' = now
    /\ UNCHANGED <<now, up, catalogue, lock, pc, ctl, wrun, track, serial, cur, odd>>

\* or into the next one, when the file or its index is full or no file is open
Switch ==
    /\ pc.new = "run" /\ wrun /\ CloseFile /\ pc' = [pc EXCEPT !.new = "open"]
    /\ stamp' = IF cur = 0 THEN stamp ELSE now
    /\ UNCHANGED <<now, up, rows, idx, lock, ctl, wrun, track, serial, odd>>

\* open_file: start_video_file_sql leaves the end of the block's last file
OpenFile ==
    /\ pc.new = "open" /\ Db /\ serial < MaxSerial
    /\ \E f \in {b \in Blocks : block[b].status = "NEW"} :
          /\ block' = [block EXCEPT ![f] = [@ EXCEPT !.status = "ING", !.st = now,
                                                     !.track = track, !.serial = serial]]
          /\ cur' = f
    /\ pc' = [pc EXCEPT !.new = "index"]
    /\ UNCHANGED <<now, up, rows, idx, lock, ctl, wrun, track, serial, stamp, odd>>

\* re_open_idx empties the index file
OpenIndex ==
    /\ pc.new = "index" /\ idx' = [NoIndex EXCEPT !.last = 0]
    /\ pc' = [pc EXCEPT !.new = "entry"]
    /\ UNCHANGED <<now, up, catalogue, lock, ctl, writer, odd>>

\* Its head, and an entry unless the last file had one for this second
FirstEntry ==
    /\ pc.new = "entry" /\ pc' = [pc EXCEPT !.new = "run"] /\ serial' = serial + 1
    /\ idx' = [track |-> track, serial |-> serial, last |-> IF stamp = now THEN 0 ELSE now]
    /\ stamp' = now
    /\ UNCHANGED <<now, up, catalogue, lock, ctl, wrun, track, cur, odd>>

\* No data for a third of a second, no block, or a file that fails: the thread clears m_brun,
Fail ==
    /\ pc.new \in {"run", "open", "index"} /\ (pc.new = "run" => wrun)
    /\ wrun' = FALSE /\ pc' = [pc EXCEPT !.new = "close"]
    /\ UNCHANGED <<now, up, catalogue, idx, lock, ctl, track, serial, cur, stamp, odd>>

\* closes its file and ends its track
Close(w) ==
    /\ pc[w] = "close" /\ CloseFile /\ pc' = [pc EXCEPT ![w] = "end"]
    /\ UNCHANGED <<now, up, rows, idx, lock, ctl, wrun, track, serial, stamp, odd>>
End(w) ==
    /\ pc[w] = "end" /\ Db /\ rows' = StopTrack(now) /\ pc' = [pc EXCEPT ![w] = "none"]
    /\ UNCHANGED <<now, up, block, idx, lock, ctl, writer, odd>>

\* The thread sees that m_brun was cleared
LeaveLoop ==
    /\ pc.new = "run" /\ ~wrun /\ pc' = [pc EXCEPT !.new = "none"]
    /\ UNCHANGED <<now, up, catalogue, idx, lock, ctl, writer, odd>>

\* It is cancelled, wherever it is; within a statement it does not release the lock
Cancelled ==
    /\ ctl = "join" /\ pc.new # "none" /\ pc' = [pc EXCEPT !.new = "none"]
    /\ lock' \in {lock, "left"}
    /\ UNCHANGED <<now, up, catalogue, idx, ctl, writer, odd>>

Thread ==
    \/ Begin \/ Write \/ Switch \/ OpenFile \/ OpenIndex \/ FirstEntry \/ Fail \/ LeaveLoop \/ Cancelled
    \/ \E w \in DOMAIN pc : Close(w) \/ End(w)

-----------------------------------------------------------------------------
\* start_thread2 looks at m_brun only: the last thread may still be ending
Start ==
    /\ up /\ ctl = "idle" /\ ~wrun /\ "none" \in {pc.old, pc.new} /\ Len(rows) < MaxTracks
    /\ pc' = [old |-> IF pc.new = "none" THEN pc.old ELSE pc.new, new |-> "begin"]
    /\ wrun' = TRUE /\ odd' = (odd \/ pc'.old # "none")
    /\ UNCHANGED <<now, up, catalogue, idx, lock, ctl, track, serial, cur, stamp>>

\* stop_thead, by the plan, a command or a lost camera; a thread that has cleared m_brun
\* is not waited for
StopWriter ==
    /\ up /\ ctl = "idle" /\ wrun' = FALSE /\ ctl' = IF wrun THEN "join" ELSE "close"
    /\ UNCHANGED <<now, up, catalogue, idx, lock, pc, track, serial, cur, stamp, odd>>
Joined ==
    /\ ctl = "join" /\ pc.new = "none" /\ serial' = 0 /\ ctl' = "close"
    /\ UNCHANGED <<now, up, catalogue, idx, lock, pc, wrun, track, cur, stamp, odd>>
StopClose ==
    /\ ctl = "close" /\ CloseFile /\ ctl' = "end"
    /\ UNCHANGED <<now, up, rows, idx, lock, pc, wrun, track, serial, stamp, odd>>
StopEnd ==
    /\ ctl = "end" /\ Db /\ rows' = StopTrack(now) /\ ctl' = "idle"
    /\ UNCHANGED <<now, up, block, idx, lock, pc, writer, odd>>

\* Mutant: the newest file goes first
Newest == {f \in Blocks : /\ block[f].status = "VIDEO"
                          /\ \A g \in Blocks : block[g].status = "VIDEO" => block[g].st <= block[f].st}

Oldest == {f \in Blocks : /\ block[f].status = "VIDEO"
                          /\ \A g \in Blocks : block[g].status = "VIDEO" => block[f].st <= block[g].st}

\* recycle_file_block: the track begins where its first file ended
Recycle ==
    /\ Db /\ \A f \in Blocks : block[f].status # "NEW"
    /\ \E f \in Oldest :
          /\ block' = [block EXCEPT ![f].status = "NEW"]
          /\ rows' = [i \in DOMAIN rows |-> IF i = block[f].track THEN [rows[i] EXCEPT !.st = block[f].et]
                                            ELSE rows[i]]
    /\ UNCHANGED <<now, up, idx, lock, pc, ctl, writer, odd>>

\* get_track_list_sql deletes the rows that end where they begin
Query ==
    /\ Db /\ \E i \in Rows : rows[i].st = rows[i].et
    /\ rows' = [i \in DOMAIN rows |-> IF rows[i].st = rows[i].et THEN [rows[i] EXCEPT !.status = "gone"]
                                      ELSE rows[i]]
    /\ UNCHANGED <<now, up, block, idx, lock, pc, ctl, writer, odd>>

-----------------------------------------------------------------------------
Crash ==
    /\ up /\ up' = FALSE /\ lock' = "free" /\ ctl' = "idle" /\ pc' = [old |-> "none", new |-> "none"]
    /\ wrun' = FALSE /\ track' = 0 /\ serial' = 0 /\ cur' = 0 /\ stamp' = 0
    /\ UNCHANGED <<now, catalogue, idx, odd>>

\* A track that is open ends before one of its finished files, when it ends at t
Cut(t) == \E f \in Blocks : /\ block[f].status = "VIDEO" /\ t < block[f].et
                            /\ rows[block[f].track].status = "ING"

\* Mutant: only the track of the index is ended
RepairOwn(i, t, e, rest) ==
    IF i = t THEN [rows[i] EXCEPT !.et = e, !.status = "ED"] ELSE rows[i]

\* The track that the index names ends, as does every one that is open
RepairedTrack(i, t, e, rest) ==
    IF i \in Rows /\ (i = t \/ rows[i].status = "ING")
    THEN [rows[i] EXCEPT !.et = IF i = t THEN e ELSE rest, !.status = "ED"] ELSE rows[i]

\* repair_db: a file in use ends at the last entry of the index, whosever it is, and at
\* any time when there is none; the head of that index may not be on the disk.  Without an
\* index file it stays in use.  Then every track that is open ends at the last entry of the
\* last index with one, of whatever camera, or now.
Repair ==
    /\ ~up /\ up' = TRUE
    /\ \E rest \in 1 .. now :
          LET used  == {f \in Blocks : block[f].status = "ING"}
              reads == used # {} /\ idx # NoIndex
              filesEnd(e)  == block' = [f \in Blocks |-> IF f \in used
                                            THEN [block[f] EXCEPT !.et = e, !.status = "VIDEO"] ELSE block[f]]
              tracksEnd(t, e) == rows' = [i \in DOMAIN rows |-> RepairedTrack(i, t, e, rest)]
          IN \/ /\ reads /\ idx.last # 0 /\ filesEnd(idx.last) /\ tracksEnd(idx.track, idx.last)
                /\ odd' = (odd \/ \E f \in used : <<block[f].track, block[f].serial>> # <<idx.track, idx.serial>>)
             \/ /\ reads /\ idx.last = 0 /\ odd' = TRUE
                /\ \E t \in {0, idx.track}, e \in Times : filesEnd(e) /\ tracksEnd(t, e)
             \/ /\ ~reads /\ UNCHANGED block /\ tracksEnd(0, rest) /\ odd' = (odd \/ Cut(rest))
    /\ UNCHANGED <<now, idx, lock, pc, ctl, writer>>

TracksNext ==
    \/ Tick \/ Thread \/ Start \/ StopWriter \/ Joined \/ StopClose \/ StopEnd
    \/ Recycle \/ Query \/ Crash \/ Repair

TracksSpec == TracksInit /\ [][TracksNext]_tracksVars

-----------------------------------------------------------------------------
\* What goes wrong in the code and is excepted below: a thread that reads the id of an
\* earlier track that starts in the same second, threads of the writer that meet, a repair
\* with the index of another file, or an empty one, and one that ends a track by the index
\* of another camera, before the end of its last file.
Usual == ~odd

Spans == {s \in Times \X Times : s[1] < s[2]}

\* Tracks that overlap a span, and their order
Overlapping(a, b) == {i \in Rows : rows[i].st < b /\ rows[i].et > a}
EarlierTrack == {p \in Rows \X Rows : \/ rows[p[1]].st < rows[p[2]].st
                                      \/ rows[p[1]].st = rows[p[2]].st /\ p[1] < p[2]}

\* get_track_list_sql
Tracks(a, b) == OrderBy(Overlapping(a, b), EarlierTrack)

\* get_track_video_list_sql goes through the tracks: the files of one that overlap the
\* span, whatever their status
Playable(a, b) == {f \in Blocks : block[f].track \in Overlapping(a, b) /\ block[f].st < b /\ block[f].et > a}

\* Mutant: the files of a track are listed in the order of their rows
FilesByRow(a, b) ==
    OrderBy(Playable(a, b), {p \in Blocks \X Blocks : LET f == block[p[1]] g == block[p[2]] IN
                                \/ <<f.track, g.track>> \in EarlierTrack
                                \/ f.track = g.track /\ p[1] < p[2]})

EarlierFile == {p \in Blocks \X Blocks : LET f == block[p[1]] g == block[p[2]] IN
                   \/ <<f.track, g.track>> \in EarlierTrack
                   \/ f.track = g.track /\ f.serial < g.serial
                   \/ f.track = g.track /\ f.serial = g.serial /\ p[1] < p[2]}

Files(a, b) == OrderBy(Playable(a, b), EarlierFile)

\* answer_query_recordInfo cuts the tracks to the span, and an open one to the present
Answer(a, b) ==
    LET cut(r) == [st |-> IF a > r.st THEN a ELSE r.st, et |-> Min({b, IF r.et = Open THEN now ELSE r.et})]
    IN [k \in DOMAIN Tracks(a, b) |-> cut(rows[Tracks(a, b)[k]])]

\* Whatever was recorded and not recycled can be played: a query for a span finds every
\* finished file that overlaps it, and the answer to the query announces that part of it
\* in one piece.
FilesFound ==
    Usual => \A f \in Blocks, s \in Spans :
        LET from == Max({s[1], block[f].st})
            to   == Min({s[2], block[f].et})
        IN block[f].status = "VIDEO" /\ from < to =>
             /\ f \in Range(Files(s[1], s[2]))
             /\ \E r \in Range(Answer(s[1], s[2])) : r.st <= from /\ r.et >= to

\* Files are listed, and so played, in the order they were recorded in.
InTimeOrder ==
    Usual => \A s \in Spans : LET l == Files(s[1], s[2]) IN
        \A i, j \in DOMAIN l : i < j => block[l[i]].st <= block[l[j]].st

\* While the recorder runs, a track is open only when it is the writer's and the writer
\* runs or somebody is about to end it.
OpenIsLive ==
    Usual /\ up => \A i \in DOMAIN rows : rows[i].status = "ING" =>
        i = track /\ (pc.new \notin {"none", "begin"} \/ ctl # "idle")
===============================================================================
