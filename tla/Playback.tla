------------------------------- MODULE Playback --------------------------------
(***************************************************************************)
(* Playing a span of a camera's recording: sql_manger chooses the files,   *)
(* data_reader opens them one after the other and reads them in pieces,    *)
(* and data_send_thread of a data_transfer sends the pieces until the      *)
(* reader has no more, or until it is told to stop.                        *)
(*                                                                         *)
(* A recording is a sequence of units; unit u was written in second sec[u] *)
(* and the files cut the sequence.  A file's index has an entry for the    *)
(* first unit of each second, in whatever file that is.  Offsets in a file *)
(* are given as the unit that begins there, and the end of its header as   *)
(* its first unit.  Transport packets, pacing and sockets are left out, and *)
(* of the messages to the client only the order is kept.  The SIP library  *)
(* builds no request within a call that its client has ended.              *)
(***************************************************************************)
EXTENDS Integers, Sequences, FiniteSets, FiniteSetsExt, SequencesExt, Listing

CONSTANTS
    MaxUnits,   \* bound: units of the recording
    MaxSecond,  \* bound: seconds in which it was written
    MaxFiles,   \* bound: files it was cut into
    MaxChunk    \* units that the send buffer can take

ASSUME PlaybackAssumption == {MaxUnits, MaxSecond, MaxFiles, MaxChunk} \subseteq Nat \ {0}

Seconds == 1 .. MaxSecond

VARIABLES
    sec,        \* the second of each unit
    file,       \* rows of video_file: first and last unit, start and end time
    req,        \* the span that is asked for
    list,       \* m_file_list: the files still to be opened
    fp,         \* the file that is open, or 0
    pos,        \* where fread goes on
    offsetpos,  \* m_offsetpos
    endpos,     \* m_endpos
    blast,      \* m_blast
    piece,      \* what getbuf has read and the thread has not yet sent
    sent,       \* what the thread has sent
    thread,     \* data_send_thread: where it is
    brun, pause, \* m_brun and m_bpause of the data_transfer
    told        \* the messages sent to the client within the call

recording == <<sec, file, req>>
reader    == <<list, fp, pos, offsetpos, endpos, blast>>
vars      == <<recording, reader, piece, sent, thread, brun, pause, told>>


\* A file is closed in the second of its last unit or later, and before the
\* next one is opened.
\* A recording begins in second 2 at the latest: spans may begin before it.
Init ==
    /\ sec \in UNION {[1 .. n -> Seconds] : n \in 1 .. MaxUnits}
    /\ sec[1] <= 2 /\ \A u, v \in DOMAIN sec : u < v => sec[u] <= sec[v]
    /\ \E n \in 1 .. MaxFiles : \E last \in [1 .. n -> DOMAIN sec] :
          /\ last[n] = Len(sec) /\ \A i, j \in 1 .. n : i < j => last[i] < last[j]
          /\ LET first == [i \in 1 .. n |-> IF i = 1 THEN 1 ELSE last[i - 1] + 1]
                 until == [i \in 1 .. n |-> IF i = n THEN MaxSecond ELSE sec[last[i] + 1]]
             IN \E close \in [1 .. n -> Seconds] :
                   /\ \A i \in 1 .. n : close[i] \in sec[last[i]] .. until[i]
                   /\ file = [i \in 1 .. n |->
                                 [first |-> first[i], last |-> last[i],
                                  st |-> sec[first[i]], et |-> close[i]]]
    /\ req \in [st : Seconds, et : Seconds] /\ req.st < req.et
    /\ list = <<>> /\ fp = 0 /\ pos = 0 /\ offsetpos = 0 /\ endpos = 0 /\ blast = FALSE
    /\ piece = <<>> /\ sent = <<>>
    /\ thread = "none" /\ brun = FALSE /\ pause = FALSE
    /\ told = <<>>

TypeOK ==
    /\ \A i \in DOMAIN file : file[i].first <= file[i].last /\ file[i].st <= file[i].et
    /\ \A i \in DOMAIN list : list[i] \in DOMAIN file
    /\ fp \in DOMAIN file \cup {0}
    /\ fp # 0 => pos \in file[fp].first .. file[fp].last + 1
    /\ offsetpos \in 0 .. 2 * MaxUnits /\ endpos \in 0 .. MaxUnits
    /\ {blast, brun, pause} \subseteq BOOLEAN
    /\ told \in {<<>>, <<"length">>, <<"end">>, <<"length", "end">>}
    /\ Len(piece) <= MaxChunk
    /\ thread \in {"none", "read", "hold", "over", "report", "stopped"}
-------------------------------------------------------------------------------
\* Files in the order of their rows
InOrderOfRows(files) == OrderBy(files, {p \in files \X files : p[1] < p[2]})

\* Mutant: the files that begin within the span.
SelectStarting == InOrderOfRows({i \in DOMAIN file : file[i].st < req.et /\ file[i].st >= req.st})

\* get_track_video_list_sql: the files that overlap the span, in order.
Select == InOrderOfRows({i \in DOMAIN file : file[i].st < req.et /\ file[i].et > req.st})

\* The entries of the index of file f: write_index adds one when the second
\* is another than that of the unit before, in this file or the last one.
Index(f) ==
    {u \in file[f].first .. file[f].last : u = 1 \/ sec[u - 1] # sec[u]}

\* init_reader with the first file.  It looks at the entries up to the
\* first one after the start of the span, and so never at the end's.
OpenFirst(f) ==
    LET before == {u \in Index(f) : sec[u] <= req.st}
        exact  == {u \in before : sec[u] = req.st}
    IN
    /\ fp' = f
    /\ pos' = Max(exact \cup {file[f].first})
    /\ offsetpos' = Max(before \cup {file[f].first})

\* build_message_file_length: a length of 0 is not sent.
MediaLength(zero) == told' = IF zero THEN <<>> ELSE <<"length">>

\* init_transfer_for_reader tells the client the length of the span.  It is 0 if
\* no file is open, or the only one is being written.
InitTransfer(files) ==
    \E zero \in BOOLEAN :
        /\ fp' = 0 => zero
        /\ zero => fp' = 0 \/ Len(files) = 1
        /\ MediaLength(zero)

\* video_data_manger::create; the result of init_reader is not looked at.
\* Opening the first file may fail.
Create ==
    /\ thread = "none"
    /\ LET files == Select IN
       /\ list' = IF files = <<>> THEN files ELSE Tail(files)
       /\ \/ files # <<>> /\ OpenFirst(files[1])
          \/ fp' = 0 /\ UNCHANGED <<pos, offsetpos>>
       /\ InitTransfer(files)
    /\ thread' = "read" /\ brun' = TRUE
    /\ UNCHANGED <<recording, endpos, blast, piece, sent, pause>>

\* The position of the end second in the last file.  A file with one entry
\* is taken for the one being written, whose index may hold anything.
EndPosition(f) ==
    IF Cardinality(Index(f)) > 1
    THEN {Max({u \in Index(f) : sec[u] = req.et} \cup {endpos})}
    ELSE {endpos} \cup {u \in DOMAIN sec : sec[u] = req.et}

\* Mutant: the last file is not recognised.
NextFileUnbounded ==
    IF list = <<>>
    THEN fp' = 0 /\ UNCHANGED <<list, pos, offsetpos, endpos, blast>>
    ELSE /\ fp' = Head(list)
         /\ list' = Tail(list)
         /\ pos' = file[fp'].first /\ offsetpos' = pos'
         /\ UNCHANGED <<endpos, blast>>

\* Mutant: the header of the next file is skipped twice.
NextFileSkips ==
    IF list = <<>>
    THEN fp' = 0 /\ UNCHANGED <<list, pos, offsetpos, endpos, blast>>
    ELSE LET f == Head(list) IN
         /\ fp' = f
         /\ list' = Tail(list)
         /\ pos' = file[f].first + 1 /\ offsetpos' = pos'
         /\ IF Len(list) = 1
            THEN blast' = TRUE /\ endpos' \in EndPosition(f)
            ELSE UNCHANGED <<blast, endpos>>

\* getbuf after a short read: the next file, behind its header.
NextFile ==
    IF list = <<>>
    THEN fp' = 0 /\ UNCHANGED <<list, pos, offsetpos, endpos, blast>>
    ELSE LET f == Head(list) IN
         /\ fp' = f
         /\ list' = Tail(list)
         /\ pos' = file[f].first /\ offsetpos' = pos'
         /\ IF Len(list) = 1
            THEN blast' = TRUE /\ endpos' \in EndPosition(f)
            ELSE UNCHANGED <<blast, endpos>>

\* The units that fread finds when it is asked for k.
Units(k) == [i \in 1 .. Min({k, file[fp].last + 1 - pos}) |-> pos + i - 1]

\* getbuf with k units of room, when fread gives some but fewer.
ReadShort(k) ==
    /\ thread = "read" /\ brun /\ fp # 0
    /\ Len(Units(k)) \in 1 .. k - 1
    /\ piece' = Units(k)
    /\ NextFile
    /\ thread' = "hold"
    /\ UNCHANGED <<recording, sent, brun, pause, told>>

\* getbuf when fread fills the room: past the end position the file is closed.
ReadFull(k) ==
    /\ thread = "read" /\ brun /\ fp # 0
    /\ Len(Units(k)) = k
    /\ piece' = Units(k)
    /\ pos' = pos + k
    /\ IF blast /\ offsetpos + k > endpos
       THEN fp' = 0 /\ offsetpos' = 0
       ELSE offsetpos' = offsetpos + k /\ UNCHANGED fp
    /\ thread' = "hold"
    /\ UNCHANGED <<recording, list, endpos, blast, sent, brun, pause, told>>

\* getbuf returns 0: there is no file, or fread has nothing.
Empty == IF fp = 0 THEN TRUE ELSE pos > file[fp].last

\* build_message_file_end.
MediaEnd == told' = Append(told, "end")

\* The client has ended the call, and build_message_file_end gets no request:
\* its loop of ten attempts has an empty body, and the thread stays in it.
ReportInVain == thread' = "report" /\ UNCHANGED <<brun, told>>

\* Mutant: the thread asks again as long as there are files.
ReadNothingRetries ==
    /\ thread = "read" /\ brun /\ list = <<>> /\ Empty
    /\ \/ MediaEnd /\ thread' = "over" /\ brun' = FALSE
       \/ ReportInVain
    /\ UNCHANGED <<recording, reader, piece, sent, pause>>

\* The thread tells the client that the recording is over, and ends.
ReadNothing ==
    /\ thread = "read" /\ brun /\ Empty
    /\ \/ MediaEnd /\ thread' = "over" /\ brun' = FALSE
       \/ ReportInVain
    /\ UNCHANGED <<recording, reader, piece, sent, pause>>

\* Out of the pause loop, the piece is sent unless the transfer is stopped.
Send ==
    /\ thread = "hold" /\ (~pause \/ ~brun)
    /\ sent' = IF brun THEN sent \o piece ELSE sent
    /\ piece' = <<>>
    /\ thread' = "read"
    /\ UNCHANGED <<recording, reader, brun, pause, told>>

Leave ==
    /\ thread = "read" /\ ~brun
    /\ thread' = "stopped"
    /\ UNCHANGED <<recording, reader, piece, sent, brun, pause, told>>

\* The commands: pause_transfer, speed_transfer (which ends a pause) and
\* stop_transfer.
Pause ==
    /\ thread \in {"read", "hold"} /\ brun /\ ~pause
    /\ pause' = TRUE
    /\ UNCHANGED <<recording, reader, piece, sent, thread, brun, told>>

Speed ==
    /\ thread \in {"read", "hold"} /\ brun /\ pause
    /\ pause' = FALSE
    /\ UNCHANGED <<recording, reader, piece, sent, thread, brun, told>>

Stop ==
    /\ thread \in {"read", "hold", "report"} /\ brun
    /\ brun' = FALSE
    /\ UNCHANGED <<recording, reader, piece, sent, thread, pause, told>>

Step ==
    \/ \E k \in 1 .. MaxChunk : ReadShort(k) \/ ReadFull(k)
    \/ ReadNothing \/ Send \/ Leave

Next == Create \/ Step \/ Pause \/ Speed \/ Stop

Spec == Init /\ [][Next]_vars

\* The send thread runs, and who pauses a transfer resumes or stops it.
FairSpec == Spec /\ WF_vars(Step) /\ SF_vars(Send) /\ WF_vars(Speed \/ Stop)
-------------------------------------------------------------------------------
\* The units of the seconds within the span, its first and last one left out.
Wanted == {u \in DOMAIN sec : req.st < sec[u] /\ sec[u] < req.et}

\* What is sent is one stretch of the recording: nothing is repeated, left
\* out or taken from a header where one file ends and the next one begins, or
\* around a pause.
InOrder ==
    /\ \A i \in 2 .. Len(sent) : sent[i] = sent[i - 1] + 1
    /\ sent # <<>> /\ piece # <<>> => piece[1] = Last(sent) + 1

\* Playing starts soon enough: whatever is sent first, nothing of the seconds
\* after the first one of the span has been passed over.
StartsInTime == sent # <<>> => \A u \in Wanted : sent[1] <= u

\* When the last of several files has the end second in its index, playing
\* stops with the piece in which that second begins.
StopsInTime ==
    LET files == Select IN
    Len(files) > 1 /\ Cardinality(Index(Last(files))) > 1 =>
        \A u \in Index(Last(files)) : sec[u] = req.et =>
            \A i \in DOMAIN sent : sent[i] < u + MaxChunk

\* A span ends unless it is paused for ever, and the client whose call lasts is
\* told so, after it was told the length: whatever the files and the end
\* position are.  Only a client that hangs up before it is told leaves the thread
\* in the report (data_send_thread, build_message_file_end).
PlaybackEnds ==
    (thread = "read") ~>
        \/ thread = "stopped"
        \/ thread = "over" /\ told \in {<<"end">>, <<"length", "end">>}
        \/ thread = "report"

\* data_send_thread says that the recording is over (data_transfer.cpp:430):
\* with no end position reached, all of the span has been sent.
OverIsTheEnd ==
    thread = "over" /\ Select # <<>> /\ fp # 0 => Wanted \subseteq Range(sent)

\* The same when the last file was closed at the end position.
ClosedAtTheEnd ==
    thread = "over" /\ blast /\ fp = 0 => Wanted \subseteq Range(sent)

\* init_reader reports where it starts to read (data_reader.cpp:159).
ReportedStartIsRight ==
    [][Create /\ fp' # 0 => offsetpos' = pos']_vars

\* init_reader finds the position of the end second (data_reader.cpp:145).
EndIsFound ==
    [][Create /\ fp' # 0 /\ list' = <<>> =>
          \A u \in Index(fp') : sec[u] = req.et => endpos' = u]_vars
===============================================================================
