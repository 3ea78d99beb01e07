---------------------------- MODULE RecordingProofs ----------------------------
(***************************************************************************)
(* Proofs about Recording, for any files, cameras and lengths of buffers,  *)
(* any sizes of a block, its header and its index, and any bounds.         *)
(*                                                                         *)
(* The invariant has four layers.   Base says who has which file open and  *)
(* how far it is written: with it a file never outgrows its block.         *)
(* Indexing says up to which second the bytes and the entries of an open   *)
(* file go: with it its index is exact.  Streaming says which file a track *)
(* ends in, and at which place: with it the next file goes on there.       *)
(* Tearing says where a buffer was split: only there are bytes not in      *)
(* their places.                                                           *)
(***************************************************************************)
EXTENDS Recording, SequenceTheorems, TLAPS

\* A file is open in one writer, in use in the catalogue, and only while the
\* process is up; what repair_db still has to visit is in use.
OpenCoherent ==
    /\ \A d \in Devices : fp[d] # 0 =>
          status[fp[d]] = "ING" /\ wpc[d] \in {"run", "close", "index", "end"}
    /\ \A d \in Devices : wpc[d] \in {"close", "index"} => fp[d] # 0
    /\ \A d, e \in Devices : fp[d] # 0 /\ fp[d] = fp[e] => d = e
    /\ phase # "up" => \A d \in Devices : wpc[d] = "idle"
    /\ \A f \in todo : status[f] = "ING"
    /\ phase # "repair" => todo = {}

\* The row of an open file is that of its camera; without an index file it has no
\* byte yet.
RowsCoherent ==
    /\ \A f \in Files : status[f] # "NEW" => row[f].dev \in Devices
    /\ \A d \in Devices : fp[d] # 0 => row[fp[d]].dev = d /\ row[fp[d]].track = track[d]
    /\ \A d \in Devices : idxfp[d] => fp[d] # 0
    /\ \A d \in Devices : fp[d] # 0 /\ ~idxfp[d] =>
          data[fp[d]] = <<>> /\ wpc[d] \in {"index", "end"}
    /\ \A d \in Devices : wpc[d] = "index" =>
          /\ ~idxfp[d] /\ length[d] = HeaderSize
          /\ row[fp[d]].serial = serial[d]

\* What is left of a buffer fits into the next file, and was received.
RestFits ==
    /\ \A d \in Devices : rest[d] < BlockSize - HeaderSize
    /\ \A d \in Devices : wpc[d] \in {"open", "close", "index"} => rest[d] + firstwrite[d] <= got[d]

Base == TypeOK /\ OpenCoherent /\ RowsCoherent /\ RestFits /\ FitsBlock

\* The index of header h tells the seconds of the bytes s apart (Indexed, of a file).
ExactFor(h, s) ==
    LET off(k) == HeaderSize + k - 1
    IN  /\ Len(h.index) <= MaxIndex
        /\ \A i \in DOMAIN h.index :
              /\ h.index[i].off \in HeaderSize .. HeaderSize + Len(s)
              /\ \A k \in DOMAIN s : s[k].at >= h.index[i].t <=> off(k) >= h.index[i].off
        /\ \A k \in DOMAIN s : s[k].at > s[1].at =>
              \E i \in DOMAIN h.index : h.index[i].t = s[k].at

\* No byte of s and no entry of h is later than the second t, and that second has
\* an entry, or is that of the first byte.
UpTo(t, h, s) ==
    /\ \A k \in DOMAIN s : s[k].at <= t
    /\ \A i \in DOMAIN h.index : h.index[i].t <= t
    /\ s # <<>> => s[1].at = t \/ \E i \in DOMAIN h.index : h.index[i].t = t

\* The open file of camera d is its own and its index is exact, up to the second
\* the writer is in, which it may have left for a new file.
OpenExact(d) ==
    /\ second[d] <= now
    /\ idxfp[d] =>
          /\ head[d].owner = RowIdentity(fp[d])
          /\ ExactFor(head[d], data[fp[d]])
          /\ wpc[d] = "run" => UpTo(second[d], head[d], data[fp[d]])

\* The header of a file that a writer has finished is exact.
ClosedExact(f) ==
    status[f] = "VIDEO" /\ f \notin repaired /\ data[f] # <<>> =>
        hdr[f].owner = RowIdentity(f) /\ ExactFor(hdr[f], data[f])

Indexing == (\A d \in Devices : OpenExact(d)) /\ (\A f \in Files : ClosedExact(f))

\* File f is of the track that camera d records, or recorded last.
InTrack(f, d) == status[f] # "NEW" /\ row[f].dev = d /\ row[f].track = track[d]

\* The rows of a camera are of tracks up to the last one, and in that one of serial
\* numbers up to that of the file that is open.
Numbered(d) ==
    /\ \A f \in Files : status[f] # "NEW" /\ row[f].dev = d => row[f].track <= track[d]
    /\ \A f \in Files : InTrack(f, d) =>
          /\ wpc[d] \in {"run", "open", "close"} => row[f].serial < serial[d]
          /\ fp[d] # 0 => row[f].serial < row[fp[d]].serial \/ f = fp[d]
    /\ fp[d] # 0 /\ wpc[d] \in {"run", "close"} => row[fp[d]].serial + 1 = serial[d]

\* The position in its track of the next byte camera d writes.
NextByte(d) == got[d] - rest[d]

\* What camera d writes next is the first byte of file number s of its track.
Begins(d, s) ==
    \/ wpc[d] = "open" /\ s = serial[d]
    \/ wpc[d] = "index" /\ s = row[fp[d]].serial
    \/ wpc[d] = "run" /\ fp[d] # 0 /\ data[fp[d]] = <<>> /\ s = row[fp[d]].serial

\* The file before number s is whole and ends with the byte before the next one.
Continues(d, s) ==
    /\ s = 0 => NextByte(d) = 0
    /\ \A f \in Files : InTrack(f, d) /\ row[f].serial + 1 = s =>
          /\ status[f] = "VIDEO" /\ f \notin repaired
          /\ row[f].len = BlockSize \/ Len(hdr[f].index) = MaxIndex
          /\ data[f] # <<>>
          /\ NextByte(d) = data[f][Len(data[f])].pos + 1

\* Where the stream of camera d goes on, and that a file it leaves is full.
GoesOn(d) ==
    /\ wpc[d] = "run" /\ fp[d] = 0 => got[d] = 0 /\ serial[d] = 0
    /\ \A s \in Nat : Begins(d, s) => Continues(d, s)
    /\ wpc[d] = "run" /\ fp[d] # 0 =>
          rest[d] = 0 /\ (data[fp[d]] = <<>> => Len(head[d].index) <= 1)
    /\ wpc[d] \in {"run", "close"} /\ fp[d] # 0 /\ data[fp[d]] # <<>> =>
          NextByte(d) = data[fp[d]][Len(data[fp[d]])].pos + 1
    /\ wpc[d] = "close" =>
          /\ data[fp[d]] # <<>>
          /\ length[d] = BlockSize \/ Len(head[d].index) = MaxIndex

Streaming == (\A d \in Devices : Numbered(d) /\ GoesOn(d)) /\ Gapless

\* The file in which the first part of a split buffer is was left for being full.
TornBefore(d) ==
    firstwrite[d] # 0 =>
        /\ wpc[d] = "close" => length[d] = BlockSize
        /\ wpc[d] \in {"open", "index"} =>
              /\ serial[d] # 0
              /\ \A f \in Files : InTrack(f, d) /\ row[f].serial + 1 = serial[d] => row[f].len = BlockSize

Tearing == (\A d \in Devices : TornBefore(d)) /\ Torn

IInv == Base /\ Indexing /\ Streaming /\ Tearing
-------------------------------------------------------------------------------
(* What the operators on sequences give.                                   *)

\* The first elements of a sequence are a sequence, and are its own.
LEMMA CutProperties ==
    ASSUME NEW S, NEW s \in Seq(S), NEW n \in Int
    PROVE  /\ Cut(s, n) \in Seq(S)
           /\ Len(Cut(s, n)) <= Len(s)
           /\ \A k \in DOMAIN Cut(s, n) : k \in DOMAIN s /\ Cut(s, n)[k] = s[k]
  <1> DEFINE m == IF Len(s) < n THEN Len(s) ELSE n
  <1>1. m \in Int /\ m <= Len(s) /\ Len(s) \in Nat
    OBVIOUS
  <1>2. \A i \in 1 .. m : s[i] \in S
    BY <1>1
  <1> HIDE DEF m
  <1>3. /\ SubSeq(s, 1, m) \in Seq(S)
        /\ Len(SubSeq(s, 1, m)) = IF 1 <= m THEN m ELSE 0
        /\ \A i \in 1 .. m : SubSeq(s, 1, m)[i] = s[i]
    BY <1>1, <1>2, SubSeqProperties
  <1>4. Cut(s, n) = SubSeq(s, 1, m)
    BY DEF Cut, m
  <1>5. QED
    BY <1>1, <1>3, <1>4

\* fwrite adds n bytes, of this second and for the next places, to the open file.
LEMMA AppendDataProperties ==
    ASSUME TypeOK, NEW d \in Devices, fp[d] \in Files, NEW n \in Nat, NEW from \in Nat,
           NEW first \in Nat, AppendData(d, n, from, first)
    PROVE  /\ data' \in [Files -> Seq(Bytes)]
           /\ \A f \in Files : f # fp[d] => data'[f] = data[f]
           /\ Len(data'[fp[d]]) = Len(data[fp[d]]) + n
           /\ \A k \in 1 .. Len(data[fp[d]]) : data'[fp[d]][k] = data[fp[d]][k]
           /\ \A k \in Len(data[fp[d]]) + 1 .. Len(data[fp[d]]) + n :
                 /\ data'[fp[d]][k].pos = from + k - Len(data[fp[d]]) - 1
                 /\ data'[fp[d]][k].is = first + k - Len(data[fp[d]]) - 1
                 /\ data'[fp[d]][k].at = now
  <1> DEFINE old == data[fp[d]]
             new == [i \in 1 .. n |-> [pos |-> from + i - 1, is |-> first + i - 1, at |-> now]]
  <1>1. data \in [Files -> Seq(Bytes)] /\ old \in Seq(Bytes) /\ now \in Nat
    BY DEF TypeOK
  <1>2. new \in Seq(Bytes) /\ Len(new) = n
    <2>1. new \in [1 .. n -> Bytes]
      BY <1>1 DEF Bytes
    <2>2. QED
      BY <2>1
  <1>3. \A i \in 1 .. n : new[i].pos = from + i - 1 /\ new[i].is = first + i - 1 /\ new[i].at = now
    OBVIOUS
  <1>4. data' = [data EXCEPT ![fp[d]] = old \o new]
    BY DEF AppendData
  <1> HIDE DEF old, new
  <1>5. /\ old \o new \in Seq(Bytes)
        /\ Len(old \o new) = Len(old) + n
        /\ \A i \in 1 .. Len(old) + n :
              (old \o new)[i] = IF i <= Len(old) THEN old[i] ELSE new[i - Len(old)]
    BY <1>1, <1>2, ConcatProperties
  <1>6. Len(old) \in Nat
    BY <1>1
  <1>7. data' \in [Files -> Seq(Bytes)] /\ data'[fp[d]] = old \o new
    BY <1>1, <1>4, <1>5
  <1>8. \A f \in Files : f # fp[d] => data'[f] = data[f]
    BY <1>1, <1>4
  <1>9. \A k \in 1 .. Len(old) : data'[fp[d]][k] = old[k]
    BY <1>5, <1>6, <1>7
  <1>10. \A k \in Len(old) + 1 .. Len(old) + n :
            /\ data'[fp[d]][k].pos = from + k - Len(old) - 1
            /\ data'[fp[d]][k].is = first + k - Len(old) - 1
            /\ data'[fp[d]][k].at = now
    <2> TAKE k \in Len(old) + 1 .. Len(old) + n
    <2>1. k - Len(old) \in 1 .. n /\ data'[fp[d]][k] = new[k - Len(old)]
      BY <1>5, <1>6, <1>7
    <2>2. QED
      BY <1>3, <1>6, <2>1
  <1>11. QED
    BY <1>5, <1>7, <1>8, <1>9, <1>10 DEF old

\* z is s with n bytes more, of this second, for the places from from on and from byte
\* first on.
Appended(s, z, n, from, first) ==
    /\ z \in Seq(Bytes)
    /\ Len(z) = Len(s) + n
    /\ \A k \in 1 .. Len(s) : z[k] = s[k]
    /\ \A k \in Len(s) + 1 .. Len(s) + n : z[k].pos = from + k - Len(s) - 1
    /\ \A k \in Len(s) + 1 .. Len(s) + n : z[k].is = first + k - Len(s) - 1
    /\ \A k \in Len(s) + 1 .. Len(s) + n : z[k].at = now

\* fwrite changes the open file only, and that one so.
LEMMA AppendDataAppends ==
    ASSUME TypeOK, NEW d \in Devices, fp[d] \in Files, NEW n \in Nat, NEW from \in Nat,
           NEW first \in Nat, AppendData(d, n, from, first)
    PROVE  /\ Appended(data[fp[d]], data'[fp[d]], n, from, first)
           /\ \A f \in Files : f # fp[d] => data'[f] = data[f]
           /\ \A f \in Files : data'[f] \in Seq(Bytes)
  <1>1. /\ data' \in [Files -> Seq(Bytes)]
        /\ \A f \in Files : f # fp[d] => data'[f] = data[f]
        /\ Len(data'[fp[d]]) = Len(data[fp[d]]) + n
        /\ \A k \in 1 .. Len(data[fp[d]]) : data'[fp[d]][k] = data[fp[d]][k]
        /\ \A k \in Len(data[fp[d]]) + 1 .. Len(data[fp[d]]) + n :
              /\ data'[fp[d]][k].pos = from + k - Len(data[fp[d]]) - 1
              /\ data'[fp[d]][k].is = first + k - Len(data[fp[d]]) - 1
              /\ data'[fp[d]][k].at = now
    BY AppendDataProperties
  <1>2. QED
    BY <1>1 DEF Appended

\* write_index leaves the camera in the second that is now; the first buffer of a
\* second gets an entry, in the header and in the index file.
LEMMA WriteIndexProperties ==
    ASSUME TypeOK, NEW d \in Devices, NEW h \in Headers, NEW i \in Headers \cup {NoIndex},
           NEW off \in Nat, WriteIndex(d, h, i, off)
    PROVE  /\ head' \in [Devices -> Headers]
           /\ idx' \in [Devices -> Headers \cup {NoIndex}]
           /\ second' \in [Devices -> Nat]
           /\ second'[d] = now
           /\ \A e \in Devices \ {d} : head'[e] = head[e] /\ second'[e] = second[e]
           /\ head'[d].owner = h.owner
           /\ second[d] = now => head'[d] = h
           /\ second[d] # now =>
                 /\ Len(head'[d].index) = Len(h.index) + 1
                 /\ \A j \in 1 .. Len(h.index) : head'[d].index[j] = h.index[j]
                 /\ head'[d].index[Len(h.index) + 1] = [t |-> now, off |-> off]
  <1> DEFINE last == [t |-> now, off |-> off]
             entered == [h EXCEPT !.index = Append(@, last)]
  <1>1. h.index \in Seq(Entries) /\ h.owner \in Ids
    BY DEF Headers
  <1>2. last \in Entries
    BY DEF TypeOK, Entries
  <1>3. /\ Append(h.index, last) \in Seq(Entries)
        /\ Len(Append(h.index, last)) = Len(h.index) + 1
        /\ \A j \in 1 .. Len(h.index) : Append(h.index, last)[j] = h.index[j]
        /\ Append(h.index, last)[Len(h.index) + 1] = last
    BY <1>1, <1>2, AppendProperties
  <1>4. /\ entered \in Headers
        /\ entered.owner = h.owner
        /\ entered.index = Append(h.index, last)
    BY <1>1, <1>3 DEF Headers
  <1>5. CASE now = second[d]
    BY <1>5 DEF WriteIndex, TypeOK
  <1>6. CASE now # second[d]
    <2>1. /\ head' = [head EXCEPT ![d] = entered]
          /\ idx' = [idx EXCEPT ![d] = entered]
          /\ second' = [second EXCEPT ![d] = now]
      BY <1>6 DEF WriteIndex
    <2> HIDE DEF entered
    <2>2. /\ head' \in [Devices -> Headers]
          /\ idx' \in [Devices -> Headers \cup {NoIndex}]
          /\ second' \in [Devices -> Nat]
          /\ second'[d] = now
          /\ head'[d] = entered
          /\ \A e \in Devices \ {d} : head'[e] = head[e] /\ second'[e] = second[e]
      BY <1>4, <2>1 DEF TypeOK
    <2>3. QED
      BY <1>3, <1>4, <1>6, <2>2 DEF last
  <1>7. QED
    BY <1>5, <1>6
-------------------------------------------------------------------------------
(* Base: no file outgrows its block.                                       *)

\* It holds at first.
LEMMA InitBase == Init => Base
  <1> SUFFICES ASSUME Init PROVE Base
    OBVIOUS
  <1> USE RecordingAssumption
  <1>1. Blank \in Headers
    BY DEF Blank, Headers, Ids, Entries
  <1>2. /\ row \in [Files -> Rows] /\ data \in [Files -> Seq(Bytes)]
        /\ hdr \in [Files -> Headers] /\ head \in [Devices -> Headers]
        /\ idx \in [Devices -> Headers \cup {NoIndex}]
    BY <1>1 DEF Init, Rows, Bytes
  <1>3. TypeOK
    BY <1>2 DEF Init, TypeOK
  <1>4. OpenCoherent /\ RowsCoherent /\ RestFits /\ FitsBlock
    BY DEF Init, OpenCoherent, RowsCoherent, RestFits, FitsBlock
  <1>5. QED
    BY <1>3, <1>4 DEF Base

\* The clock, a writer that begins or ends with no file in hand, and the begin and
\* the end of repair_db leave the files alone.
QuietStep ==
    \/ Tick \/ Restart \/ RepairDone
    \/ \E d \in Devices : StartWriter(d) \/ EndWriter(d) \/ EndClosed(d)

\* Such a step keeps Base.
LEMMA QuietBase == Base /\ QuietStep => Base'
  <1> SUFFICES ASSUME Base, QuietStep PROVE Base'
    OBVIOUS
  <1> USE DEF Base
  <1>1. UNCHANGED <<status, row, repaired, data, hdr, idx, fp, idxfp, length, head, second, rest,
                  firstwrite>>
    BY DEF QuietStep, Tick, Restart, RepairDone, StartWriter, EndWriter, EndClosed, catalogue,
           disk, writer, repair
  <1>2. FitsBlock'
    <2>1. \A d \in Devices : fp[d] # 0 /\ wpc'[d] = "run" => wpc[d] = "run"
      BY DEF QuietStep, Tick, Restart, RepairDone, StartWriter, EndWriter, EndClosed, TypeOK,
             writer, OpenCoherent
    <2>2. QED
      BY <1>1, <2>1 DEF FitsBlock, FileLength
  <1>3. CASE Tick \/ Restart \/ RepairDone
    <2>1. UNCHANGED <<wpc, serial, track, got>>
      BY <1>3 DEF Tick, Restart, RepairDone, writer
    <2>2. TypeOK' /\ OpenCoherent'
      BY <1>1, <1>3, <2>1
         DEF Tick, Restart, RepairDone, InUse, TypeOK, OpenCoherent, repair
    <2>3. RowsCoherent' /\ RestFits'
      BY <1>1, <2>1 DEF RowsCoherent, RestFits
    <2>4. QED
      BY <1>2, <2>2, <2>3
  <1>4. ASSUME NEW d \in Devices, StartWriter(d) PROVE Base'
    <2>1. TypeOK'
      BY <1>1, <1>4 DEF StartWriter, TypeOK, repair
    <2>2. OpenCoherent'
      BY <1>1, <1>4 DEF StartWriter, TypeOK, OpenCoherent, repair
    <2>3. RowsCoherent' /\ RestFits'
      BY <1>1, <1>4, SMTT(20) DEF StartWriter, TypeOK, OpenCoherent, RowsCoherent, RestFits
    <2>4. QED
      BY <1>2, <2>1, <2>2, <2>3
  <1>5. ASSUME NEW d \in Devices, EndWriter(d) \/ EndClosed(d) PROVE Base'
    <2>1. TypeOK'
      BY <1>1, <1>5 DEF EndWriter, EndClosed, TypeOK, repair, writer
    <2>2. OpenCoherent'
      BY <1>1, <1>5, ZenonT(40) DEF EndWriter, EndClosed, TypeOK, OpenCoherent, repair
    <2>3. RowsCoherent' /\ RestFits'
      <3>1. \A e \in Devices :
               wpc'[e] \in {wpc[e], "end"} \/ (wpc'[e] = "idle" /\ fp[e] = 0)
        <4>1. wpc \in [Devices -> {"idle", "run", "close", "open", "index", "end"}]
          BY DEF TypeOK
        <4>2. QED
          BY <1>5, <4>1 DEF EndWriter, EndClosed
      <3>2. UNCHANGED <<serial, track, got>>
        BY <1>5 DEF EndWriter, EndClosed, writer
      <3>3. QED
        BY <1>1, <3>1, <3>2 DEF RowsCoherent, RestFits
    <2>4. QED
      BY <1>2, <2>1, <2>2, <2>3
  <1>6. QED
    BY <1>3, <1>4, <1>5 DEF QuietStep

\* A buffer goes into the open file as far as it fits, and what is left fits into
\* the next one.
LEMMA ReceiveBase ==
    ASSUME Base, NEW d \in Devices, NEW n \in Chunks, Receive(d, n)
    PROVE  Base'
  <1> USE DEF Base
  <1>1. /\ phase = "up" /\ wpc[d] = "run"
        /\ got' = [got EXCEPT ![d] = @ + n]
        /\ UNCHANGED <<now, phase, status, row, repaired, fp, idxfp, serial, track, todo, visited,
                       joined>>
    BY DEF Receive, catalogue, repair
  <1>2. n \in Nat /\ n < BlockSize - HeaderSize /\ HeaderSize \in Nat /\ BlockSize \in Nat
    BY RecordingAssumption
  <1>3. CASE ReceiveFirst(d, n) \/ ReceiveIndexFull(d, n)
    <2>1. /\ UNCHANGED <<data, hdr, idx, length, head>>
          /\ rest' = [rest EXCEPT ![d] = n] /\ firstwrite' = [firstwrite EXCEPT ![d] = 0]
          /\ wpc' = [wpc EXCEPT ![d] = IF fp[d] = 0 THEN "open" ELSE "close"]
          /\ second' \in [Devices -> Nat]
      <3>1. now \in Nat /\ second \in [Devices -> Nat]
        BY DEF TypeOK
      <3>2. CASE ReceiveFirst(d, n)
        BY <3>1, <3>2 DEF ReceiveFirst, disk
      <3>3. CASE ReceiveIndexFull(d, n)
        BY <3>1, <3>3 DEF ReceiveIndexFull, disk
      <3>4. QED
        BY <1>3, <3>2, <3>3
    <2>2. TypeOK'
      <3>1. /\ rest' \in [Devices -> Nat] /\ got' \in [Devices -> Nat]
            /\ firstwrite' \in [Devices -> Nat]
            /\ wpc' \in [Devices -> {"idle", "run", "close", "open", "index", "end"}]
        <4>1. /\ rest \in [Devices -> Nat] /\ got \in [Devices -> Nat]
              /\ firstwrite \in [Devices -> Nat]
              /\ wpc \in [Devices -> {"idle", "run", "close", "open", "index", "end"}]
          BY DEF TypeOK
        <4>2. QED
          BY <1>1, <1>2, <2>1, <4>1
      <3>2. QED
        BY <1>1, <2>1, <3>1 DEF TypeOK
    <2>3. OpenCoherent'
      BY <1>1, <2>1 DEF TypeOK, OpenCoherent
    <2>4. RestFits'
      <3>1. /\ rest \in [Devices -> Nat] /\ got \in [Devices -> Nat]
            /\ firstwrite \in [Devices -> Nat]
            /\ \A e \in Devices \ {d} : wpc'[e] = wpc[e]
        BY <2>1 DEF TypeOK
      <3>2. QED
        BY <1>1, <1>2, <2>1, <3>1 DEF RestFits
    <2>5. RowsCoherent'
      BY <1>1, <2>1 DEF TypeOK, RowsCoherent
    <2>6. FitsBlock'
      BY <1>1, <2>1 DEF TypeOK, FitsBlock, FileLength
    <2>7. QED
      BY <2>2, <2>3, <2>4, <2>5, <2>6
  <1>4. CASE ReceiveInto(d, n)
    <2>1. /\ fp[d] \in Files /\ length[d] \in Nat /\ length[d] < BlockSize
          /\ length[d] = FileLength(fp[d])
          /\ head[d] \in Headers /\ idx[d] \in Headers \cup {NoIndex} /\ got[d] \in Nat
      BY <1>1, <1>4 DEF ReceiveInto, TypeOK, FitsBlock
    <2>2. Fit(d, n) \in Nat /\ Fit(d, n) <= n /\ length[d] + Fit(d, n) <= BlockSize
          /\ (length[d] + n < BlockSize => Fit(d, n) = n)
          /\ Left(d, n) \in Nat /\ Left(d, n) + Fit(d, n) = n
      BY <1>2, <2>1 DEF Fit, Left
    <2>3. /\ head' \in [Devices -> Headers]
          /\ idx' \in [Devices -> Headers \cup {NoIndex}]
          /\ second' \in [Devices -> Nat]
      BY <1>4, <2>1, WriteIndexProperties DEF ReceiveInto
    <2>4. /\ data' \in [Files -> Seq(Bytes)]
          /\ \A f \in Files : f # fp[d] => data'[f] = data[f]
          /\ Len(data'[fp[d]]) = Len(data[fp[d]]) + Fit(d, n)
      BY <1>4, <2>1, <2>2, AppendDataProperties DEF ReceiveInto
    <2>5. /\ length' = [length EXCEPT ![d] = @ + Fit(d, n)]
          /\ rest' = [rest EXCEPT ![d] = Left(d, n)]
          /\ firstwrite' = [firstwrite EXCEPT ![d] = IF Left(d, n) = 0 THEN 0 ELSE Fit(d, n)]
          /\ wpc' = [wpc EXCEPT ![d] = IF length[d] + n < BlockSize THEN "run" ELSE "close"]
          /\ UNCHANGED hdr
      BY <1>4 DEF ReceiveInto
    <2> HIDE DEF Base
    <2>6. TypeOK'
      <3>1. /\ length' \in [Devices -> Nat] /\ rest' \in [Devices -> Nat]
            /\ got' \in [Devices -> Nat] /\ firstwrite' \in [Devices -> Nat]
            /\ wpc' \in [Devices -> {"idle", "run", "close", "open", "index", "end"}]
        BY <1>1, <1>2, <2>1, <2>2, <2>5, SMTT(20) DEF Base, TypeOK
      <3>2. QED
        BY <1>1, <2>3, <2>4, <2>5, <3>1 DEF Base, TypeOK
    <2>7. wpc'[d] \in {"run", "close"} /\ \A e \in Devices \ {d} : wpc'[e] = wpc[e]
      BY <2>5 DEF Base, TypeOK
    <2>8. OpenCoherent'
      <3>1. OpenCoherent
        BY DEF Base
      <3>2. QED
        BY <1>1, <2>1, <2>7, <3>1, RecordingAssumption DEF OpenCoherent
    <2>9. RestFits'
      <3>1. /\ RestFits /\ rest \in [Devices -> Nat] /\ got \in [Devices -> Nat]
            /\ firstwrite \in [Devices -> Nat]
        BY DEF Base, TypeOK
      <3>2. QED
        BY <1>1, <1>2, <2>2, <2>5, <2>7, <3>1 DEF RestFits
    <2>10. RowsCoherent'
      <3>1. /\ RowsCoherent /\ OpenCoherent /\ length \in [Devices -> Nat]
        BY DEF Base, TypeOK
      <3>2. \A e \in Devices \ {d} : fp[e] # 0 => data'[fp[e]] = data[fp[e]]
        BY <2>1, <2>4, <3>1 DEF Base, TypeOK, OpenCoherent
      <3>3. \A e \in Devices \ {d} : length'[e] = length[e]
        BY <2>5, <3>1
      <3>4. idxfp[d]
        BY <1>1, <2>1, <3>1, RecordingAssumption DEF RowsCoherent
      <3>5. QED
        BY <1>1, <2>1, <2>7, <3>1, <3>2, <3>3, <3>4 DEF RowsCoherent
    <2>11. FitsBlock'
      <3>1. ASSUME NEW e \in Devices, fp'[e] # 0
            PROVE  /\ length'[e] <= HeaderSize + Len(data'[fp'[e]])
                   /\ HeaderSize + Len(data'[fp'[e]]) <= BlockSize
                   /\ wpc'[e] = "run" =>
                         /\ length'[e] < BlockSize
                         /\ length'[e] = HeaderSize + Len(data'[fp'[e]])
        <4>1. CASE e = d
          <5>1. /\ length'[d] = length[d] + Fit(d, n)
                /\ wpc'[d] = IF length[d] + n < BlockSize THEN "run" ELSE "close"
                /\ fp'[d] = fp[d] /\ Len(data[fp[d]]) \in Nat
            BY <1>1, <2>1, <2>5 DEF Base, TypeOK
          <5>2. QED
            <6>1. length[d] = HeaderSize + Len(data[fp[d]])
              BY <2>1 DEF FileLength
            <6>2. length'[d] = HeaderSize + Len(data'[fp'[d]])
              <7>1. Len(data'[fp[d]]) = Len(data[fp[d]]) + Fit(d, n) /\ Fit(d, n) \in Nat
                BY <2>2, <2>4
              <7>2. QED
                BY <1>2, <5>1, <6>1, <7>1
            <6>3. length'[d] <= BlockSize /\ (wpc'[d] = "run" => length'[d] < BlockSize)
              BY <1>2, <2>1, <2>2, <5>1
            <6>4. length'[d] <= HeaderSize + Len(data'[fp'[d]])
              BY <1>2, <2>1, <2>2, <5>1, <6>2
            <6>5. QED
              BY <4>1, <6>2, <6>3, <6>4
        <4>2. CASE e # d
          <5>1. length'[e] = length[e] /\ wpc'[e] = wpc[e] /\ fp'[e] = fp[e]
            BY <1>1, <2>5, <4>2 DEF Base, TypeOK
          <5>2. data'[fp[e]] = data[fp[e]]
            BY <1>1, <2>1, <2>4, <3>1, <4>2 DEF Base, TypeOK, OpenCoherent
          <5>3. QED
            BY <3>1, <5>1, <5>2 DEF Base, FitsBlock, FileLength
        <4>3. QED
          BY <4>1, <4>2
      <3>2. \A f \in Files : status'[f] = "VIDEO" => data'[f] = data[f]
        BY <1>1, <1>4, <2>4 DEF Base, ReceiveInto, OpenCoherent
      <3>3. QED
        BY <1>1, <3>1, <3>2 DEF Base, FitsBlock, FileLength
    <2>12. QED
      BY <2>6, <2>8, <2>9, <2>10, <2>11 DEF Base
  <1>5. QED
    BY <1>3, <1>4 DEF Receive

\* A write that fails is of bytes that would have fitted.
LEMMA WriteFailsBase ==
    ASSUME Base, NEW d \in Devices, NEW k \in 0 .. BlockSize, WriteFails(d, k)
    PROVE  Base'
  <1> USE DEF Base
  <1>1. /\ wpc[d] = "run" /\ fp[d] # 0
        /\ wpc' = [wpc EXCEPT ![d] = "end"]
        /\ UNCHANGED <<phase, now, status, row, repaired, hdr, fp, idxfp, length, serial, rest,
                       firstwrite, track, got, todo, visited, joined>>
    BY DEF WriteFails, catalogue, repair
  <1>2. HeaderSize \in Nat /\ BlockSize \in Nat /\ k \in Nat /\ 0 \notin Files
    BY RecordingAssumption
  <1>3. /\ fp[d] \in Files /\ length[d] \in Nat /\ length[d] < BlockSize
        /\ length[d] = FileLength(fp[d])
        /\ head[d] \in Headers /\ idx[d] \in Headers \cup {NoIndex} /\ got[d] \in Nat
    BY <1>1 DEF TypeOK, FitsBlock
  <1>4. length[d] + k <= BlockSize
    <2>1. PICK n \in Chunks : k < Fit(d, n)
      BY DEF WriteFails
    <2>2. n \in Nat
      BY RecordingAssumption
    <2>3. QED
      BY <1>2, <1>3, <2>1, <2>2 DEF Fit
  <1>5. /\ head' \in [Devices -> Headers]
        /\ idx' \in [Devices -> Headers \cup {NoIndex}]
        /\ second' \in [Devices -> Nat]
    BY <1>3, WriteIndexProperties DEF WriteFails
  <1>6. /\ data' \in [Files -> Seq(Bytes)]
        /\ \A f \in Files : f # fp[d] => data'[f] = data[f]
        /\ Len(data'[fp[d]]) = Len(data[fp[d]]) + k
    BY <1>2, <1>3, AppendDataProperties DEF WriteFails
  <1>7. wpc'[d] = "end" /\ \A e \in Devices \ {d} : wpc'[e] = wpc[e]
    BY <1>1 DEF TypeOK
  <1>8. TypeOK'
    BY <1>1, <1>5, <1>6 DEF TypeOK
  <1>9. OpenCoherent'
    BY <1>1, <1>7 DEF OpenCoherent
  <1>10. RestFits'
    BY <1>1, <1>7 DEF RestFits
  <1>11. \A e \in Devices \ {d} : fp[e] # 0 => data'[fp[e]] = data[fp[e]]
    BY <1>3, <1>6 DEF TypeOK, OpenCoherent
  <1>12. RowsCoherent'
    <2>1. idxfp[d]
      BY <1>1 DEF RowsCoherent
    <2>2. QED
      BY <1>1, <1>7, <1>11, <2>1 DEF RowsCoherent
  <1>13. FitsBlock'
    <2>1. length'[d] <= FileLength(fp[d])' /\ FileLength(fp[d])' <= BlockSize
      <3>1. Len(data'[fp[d]]) = Len(data[fp[d]]) + k /\ Len(data[fp[d]]) \in Nat
        BY <1>3, <1>6 DEF TypeOK
      <3>2. length'[d] = length[d] /\ fp'[d] = fp[d]
        BY <1>1
      <3>3. QED
        BY <1>2, <1>3, <1>4, <3>1, <3>2, SMTT(20) DEF FileLength
    <2>2. \A e \in Devices \ {d} : fp'[e] # 0 =>
             /\ length'[e] <= FileLength(fp[e])' /\ FileLength(fp[e])' <= BlockSize
             /\ wpc'[e] = "run" => length'[e] < BlockSize /\ length'[e] = FileLength(fp[e])'
      BY <1>1, <1>7, <1>11 DEF FitsBlock, FileLength
    <2>3. \A f \in Files : status'[f] = "VIDEO" => data'[f] = data[f]
      BY <1>1, <1>6 DEF OpenCoherent
    <2>4. QED
      BY <1>1, <1>7, <2>1, <2>2, <2>3 DEF FitsBlock, FileLength
  <1>14. QED
    BY <1>8, <1>9, <1>10, <1>12, <1>13

\* The row of a file that is closed gets the length its writer counted.
LEMMA CloseFileBase ==
    ASSUME Base, NEW d \in Devices, CloseFile(d)
    PROVE  Base'
  <1> USE DEF Base
  <1>1. /\ phase = "up" /\ wpc[d] \in {"close", "end"} /\ fp[d] # 0
        /\ hdr' = [hdr EXCEPT ![fp[d]] = head[d]]
        /\ status' = [status EXCEPT ![fp[d]] = "VIDEO"]
        /\ row' = [row EXCEPT ![fp[d]].len = length[d]]
        /\ repaired' = repaired \ {fp[d]}
        /\ idx' = IF idxfp[d] THEN [idx EXCEPT ![d] = head[d]] ELSE idx
        /\ fp' = [fp EXCEPT ![d] = 0]
        /\ idxfp' = [idxfp EXCEPT ![d] = FALSE]
        /\ wpc' = [wpc EXCEPT ![d] = IF wpc[d] = "close" THEN "open" ELSE "idle"]
        /\ UNCHANGED <<phase, now, data, length, head, second, serial, rest, firstwrite, track,
                       got, todo, visited, joined>>
    BY DEF CloseFile, repair
  <1>2. HeaderSize \in Nat /\ BlockSize \in Nat /\ 0 \notin Files
    BY RecordingAssumption
  <1>3. fp[d] \in Files /\ length[d] \in Nat /\ head[d] \in Headers
    BY <1>1 DEF TypeOK
  <1>4. /\ row' \in [Files -> Rows]
        /\ row'[fp[d]] = [dev |-> row[fp[d]].dev, track |-> row[fp[d]].track,
                          serial |-> row[fp[d]].serial, len |-> length[d]]
        /\ \A f \in Files : f # fp[d] => row'[f] = row[f]
    <2>1. row \in [Files -> Rows] /\ row[fp[d]] \in Rows
      BY <1>3 DEF TypeOK
    <2>2. [row[fp[d]] EXCEPT !.len = length[d]] =
             [dev |-> row[fp[d]].dev, track |-> row[fp[d]].track,
              serial |-> row[fp[d]].serial, len |-> length[d]]
      BY <2>1 DEF Rows
    <2>3. row' = [row EXCEPT ![fp[d]] = [row[fp[d]] EXCEPT !.len = length[d]]]
      BY <1>1
    <2>4. [dev |-> row[fp[d]].dev, track |-> row[fp[d]].track,
           serial |-> row[fp[d]].serial, len |-> length[d]] \in Rows
      BY <1>3, <2>1 DEF Rows
    <2>5. QED
      BY <1>3, <2>1, <2>2, <2>3, <2>4
  <1>5. /\ status' \in [Files -> {"NEW", "ING", "VIDEO"}]
        /\ status'[fp[d]] = "VIDEO"
        /\ \A f \in Files : f # fp[d] => status'[f] = status[f]
    BY <1>1, <1>3 DEF TypeOK
  <1>6. /\ fp' \in [Devices -> Files \cup {0}] /\ fp'[d] = 0
        /\ idxfp' \in [Devices -> BOOLEAN] /\ idxfp'[d] = FALSE
        /\ wpc' \in [Devices -> {"idle", "run", "close", "open", "index", "end"}]
        /\ wpc'[d] = IF wpc[d] = "close" THEN "open" ELSE "idle"
        /\ \A e \in Devices \ {d} : fp'[e] = fp[e] /\ wpc'[e] = wpc[e]
    BY <1>1 DEF TypeOK
  <1>7. \A e \in Devices \ {d} : idxfp'[e] = idxfp[e]
    BY <1>1 DEF TypeOK
  <1>8. TypeOK'
    <2>1. hdr' \in [Files -> Headers] /\ idx' \in [Devices -> Headers \cup {NoIndex}]
      BY <1>1, <1>3 DEF TypeOK
    <2>2. QED
      BY <1>1, <1>4, <1>5, <1>6, <2>1 DEF TypeOK
  <1>9. \A e \in Devices \ {d} : fp[e] # 0 => fp[e] # fp[d] /\ fp[e] \in Files
    BY <1>1 DEF TypeOK, OpenCoherent
  <1>10. OpenCoherent'
    BY <1>1, <1>5, <1>6, <1>9 DEF TypeOK, OpenCoherent
  <1>11. RowsCoherent'
    <2>1. \A f \in Files : row'[f].dev = row[f].dev /\ row'[f].track = row[f].track
                             /\ row'[f].serial = row[f].serial
      BY <1>4
    <2>2. row[fp[d]].dev \in Devices
      BY <1>1 DEF RowsCoherent
    <2>3. \A f \in Files : status'[f] # "NEW" => row'[f].dev \in Devices
      BY <1>5, <2>1, <2>2 DEF RowsCoherent
    <2>4. \A e \in Devices : fp'[e] # 0 => e # d
      BY <1>6
    <2>5. QED
      BY <1>1, <1>6, <1>7, <1>9, <2>1, <2>3, <2>4 DEF RowsCoherent
  <1>12. RestFits'
    BY <1>1, <1>6 DEF RestFits
  <1>13. FitsBlock'
    <2>1. \A e \in Devices : fp'[e] # 0 => e # d
      BY <1>6
    <2>2. row'[fp[d]].len = length[d]
      BY <1>4
    <2>3. \A f \in repaired \ repaired' : f = fp[d]
      BY <1>1
    <2>4. QED
      BY <1>1, <1>4, <1>5, <1>6, <2>1, <2>2, <2>3 DEF FitsBlock, FileLength
  <1>14. QED
    BY <1>8, <1>10, <1>11, <1>12, <1>13

\* A file that is opened is empty, and of no other writer.
LEMMA OpenFileBase ==
    ASSUME Base, NEW d \in Devices, NEW f \in Files, OpenFile(d, f)
    PROVE  Base'
  <1> USE DEF Base
  <1> DEFINE new == [dev |-> d, track |-> track[d], serial |-> serial[d], len |-> 0]
  <1>1. /\ phase = "up" /\ wpc[d] = "open" /\ status[f] # "ING"
        /\ data' = [data EXCEPT ![f] = <<>>]
        /\ hdr' = [hdr EXCEPT ![f] = head[d]]
        /\ status' = [status EXCEPT ![f] = "ING"]
        /\ row' = [row EXCEPT ![f] = new]
        /\ repaired' = repaired \ {f}
        /\ fp' = [fp EXCEPT ![d] = f]
        /\ length' = [length EXCEPT ![d] = HeaderSize]
        /\ wpc' = [wpc EXCEPT ![d] = "index"]
        /\ UNCHANGED <<now, phase, idx, idxfp, head, second, serial, rest, firstwrite, track, got,
                       todo, visited, joined>>
    BY DEF OpenFile, repair
  <1>2. /\ HeaderSize \in Nat /\ BlockSize \in Nat /\ 0 \notin Files /\ HeaderSize < BlockSize
        /\ d \in Nat
    BY RecordingAssumption
  <1>3. new \in Rows
    BY <1>2 DEF TypeOK, Rows
  <1>4. fp[d] = 0 /\ ~idxfp[d]
    BY <1>1 DEF OpenCoherent, RowsCoherent
  <1>5. /\ data' \in [Files -> Seq(Bytes)] /\ data'[f] = <<>>
        /\ \A g \in Files \ {f} : data'[g] = data[g]
    BY <1>1 DEF TypeOK
  <1>6. /\ status' \in [Files -> {"NEW", "ING", "VIDEO"}] /\ status'[f] = "ING"
        /\ \A g \in Files \ {f} : status'[g] = status[g]
    BY <1>1 DEF TypeOK
  <1>7. /\ row' \in [Files -> Rows] /\ row'[f] = new /\ \A g \in Files \ {f} : row'[g] = row[g]
    <2>1. row \in [Files -> Rows]
      BY DEF TypeOK
    <2> HIDE DEF new
    <2>2. QED
      BY <1>1, <1>3, <2>1
  <1>8. /\ fp' \in [Devices -> Files \cup {0}] /\ fp'[d] = f
        /\ \A e \in Devices \ {d} : fp'[e] = fp[e]
    BY <1>1 DEF TypeOK
  <1>9. /\ length' \in [Devices -> Nat] /\ length'[d] = HeaderSize
        /\ \A e \in Devices \ {d} : length'[e] = length[e]
    BY <1>1, <1>2 DEF TypeOK
  <1>10. /\ wpc' \in [Devices -> {"idle", "run", "close", "open", "index", "end"}]
         /\ wpc'[d] = "index" /\ \A e \in Devices \ {d} : wpc'[e] = wpc[e]
    BY <1>1 DEF TypeOK
  <1>11. hdr' \in [Files -> Headers]
    BY <1>1 DEF TypeOK
  <1>12. TypeOK'
    BY <1>1, <1>5, <1>6, <1>7, <1>8, <1>9, <1>10, <1>11 DEF TypeOK
  <1>13. \A e \in Devices \ {d} : fp[e] # 0 => fp[e] \in Files \ {f}
    BY <1>1 DEF TypeOK, OpenCoherent
  <1>14. OpenCoherent'
    <2>1. \A e \in Devices : fp'[e] # 0 =>
             status'[fp'[e]] = "ING" /\ wpc'[e] \in {"run", "close", "index", "end"}
      BY <1>6, <1>8, <1>10, <1>13 DEF OpenCoherent
    <2>2. \A e \in Devices : wpc'[e] \in {"close", "index"} => fp'[e] # 0
      BY <1>2, <1>8, <1>10 DEF OpenCoherent
    <2>3. \A e, c \in Devices : fp'[e] # 0 /\ fp'[e] = fp'[c] => e = c
      BY <1>8, <1>13 DEF OpenCoherent
    <2>4. \A g \in todo' : status'[g] = "ING"
      BY <1>1 DEF OpenCoherent
    <2>5. QED
      BY <1>1, <2>1, <2>2, <2>3, <2>4 DEF OpenCoherent
  <1>15. RowsCoherent'
    <2>1. \A e \in Devices \ {d} : fp[e] # 0 => row'[fp[e]] = row[fp[e]]
                                             /\ data'[fp[e]] = data[fp[e]]
      BY <1>5, <1>7, <1>13
    <2>2. new.dev = d /\ new.track = track[d] /\ new.serial = serial[d]
      OBVIOUS
    <2> HIDE DEF new
    <2>3. \A g \in Files : status'[g] # "NEW" => row'[g].dev \in Devices
      BY <1>6, <1>7, <2>2 DEF RowsCoherent
    <2>4. \A e \in Devices : fp'[e] # 0 => row'[fp'[e]].dev = e /\ row'[fp'[e]].track = track'[e]
      BY <1>1, <1>7, <1>8, <2>1, <2>2 DEF RowsCoherent
    <2>5. \A e \in Devices : idxfp'[e] => fp'[e] # 0
      BY <1>1, <1>4, <1>8 DEF RowsCoherent
    <2>6. \A e \in Devices : fp'[e] # 0 /\ ~idxfp'[e] =>
             data'[fp'[e]] = <<>> /\ wpc'[e] \in {"index", "end"}
      BY <1>1, <1>5, <1>8, <1>10, <2>1 DEF RowsCoherent
    <2>7. \A e \in Devices : wpc'[e] = "index" => e = d \/ fp[e] # 0
      BY <1>10 DEF OpenCoherent
    <2>8. \A e \in Devices : wpc'[e] = "index" =>
             /\ ~idxfp'[e] /\ length'[e] = HeaderSize
             /\ row'[fp'[e]].serial = serial'[e]
      BY <1>1, <1>4, <1>7, <1>8, <1>9, <1>10, <2>1, <2>2, <2>7 DEF RowsCoherent
    <2>9. QED
      BY <2>3, <2>4, <2>5, <2>6, <2>8 DEF RowsCoherent
  <1>16. RestFits'
    BY <1>1, <1>10 DEF RestFits
  <1>17. FitsBlock'
    <2>1. \A e \in Devices \ {d} : fp[e] # 0 => data'[fp[e]] = data[fp[e]]
      BY <1>5, <1>13
    <2>2. FileLength(f)' = HeaderSize
      BY <1>2, <1>5 DEF FileLength
    <2>3. \A e \in Devices \ {d} : fp'[e] # 0 =>
             /\ length'[e] <= FileLength(fp[e])' /\ FileLength(fp[e])' <= BlockSize
             /\ wpc'[e] = "run" => length'[e] < BlockSize /\ length'[e] = FileLength(fp[e])'
      BY <1>8, <1>9, <1>10, <2>1 DEF FitsBlock, FileLength
    <2>4. \A g \in Files : status'[g] = "VIDEO" => g # f
      BY <1>6
    <2>5. QED
      BY <1>1, <1>2, <1>5, <1>6, <1>7, <1>8, <1>9, <1>10, <2>2, <2>3, <2>4
         DEF FitsBlock, FileLength
  <1>18. QED
    BY <1>12, <1>14, <1>15, <1>16, <1>17

\* The rest of a buffer is the first data of a file, and fits into it.
LEMMA OpenIndexBase ==
    ASSUME Base, NEW d \in Devices, NEW k \in 0 .. BlockSize, OpenIndex(d, k)
    PROVE  Base'
  <1> USE DEF Base
  <1>1. /\ phase = "up" /\ wpc[d] = "index" /\ k <= rest[d]
        /\ idxfp' = [idxfp EXCEPT ![d] = TRUE]
        /\ serial' = [serial EXCEPT ![d] = @ + 1]
        /\ length' = [length EXCEPT ![d] = IF k = rest[d] THEN @ + k ELSE @]
        /\ rest' = [rest EXCEPT ![d] = 0] /\ firstwrite' = [firstwrite EXCEPT ![d] = 0]
        /\ wpc' = [wpc EXCEPT ![d] = IF k = rest[d] THEN "run" ELSE "end"]
        /\ UNCHANGED <<now, phase, status, row, repaired, hdr, fp, track, got, todo, visited,
                       joined>>
    BY DEF OpenIndex, catalogue, repair
  <1>2. HeaderSize \in Nat /\ BlockSize \in Nat /\ k \in Nat /\ 0 \notin Files
    BY RecordingAssumption
  <1>3. /\ fp[d] \in Files /\ fp[d] # 0 /\ length[d] = HeaderSize /\ data[fp[d]] = <<>>
        /\ rest[d] \in Nat /\ firstwrite[d] \in Nat /\ got[d] \in Nat
        /\ rest[d] + firstwrite[d] <= got[d] /\ rest[d] < BlockSize - HeaderSize
    BY <1>1 DEF TypeOK, OpenCoherent, RowsCoherent, RestFits
  <1>4. Fresh(d) \in Headers /\ Blank \in Headers
    <2>1. d \in Nat /\ track[d] \in Nat /\ serial[d] \in Nat
      BY RecordingAssumption DEF TypeOK
    <2>2. QED
      BY <2>1 DEF Fresh, Identity, Blank, Headers, Ids, Entries
  <1>5. /\ head' \in [Devices -> Headers]
        /\ idx' \in [Devices -> Headers \cup {NoIndex}]
        /\ second' \in [Devices -> Nat]
    BY <1>2, <1>3, <1>4, WriteIndexProperties DEF OpenIndex
  <1>6. /\ data' \in [Files -> Seq(Bytes)]
        /\ \A f \in Files : f # fp[d] => data'[f] = data[f]
        /\ Len(data'[fp[d]]) = Len(data[fp[d]]) + k
    <2>1. got[d] - rest[d] \in Nat /\ got[d] - rest[d] - firstwrite[d] \in Nat
      BY <1>3
    <2>2. AppendData(d, k, got[d] - rest[d], got[d] - rest[d] - firstwrite[d])
      BY DEF OpenIndex
    <2>3. QED
      BY <1>2, <1>3, <2>1, <2>2, AppendDataProperties
  <1>7. /\ wpc' \in [Devices -> {"idle", "run", "close", "open", "index", "end"}]
        /\ wpc'[d] = (IF k = rest[d] THEN "run" ELSE "end")
        /\ \A e \in Devices \ {d} : wpc'[e] = wpc[e]
    BY <1>1 DEF TypeOK
  <1>8. idxfp' \in [Devices -> BOOLEAN] /\ idxfp'[d]
    BY <1>1 DEF TypeOK
  <1>9. \A e \in Devices \ {d} : idxfp'[e] = idxfp[e]
    BY <1>1 DEF TypeOK
  <1>10. /\ length' \in [Devices -> Nat] /\ length'[d] = IF k = rest[d] THEN HeaderSize + k ELSE HeaderSize
         /\ \A e \in Devices \ {d} : length'[e] = length[e]
    BY <1>1, <1>2, <1>3 DEF TypeOK
  <1>11. /\ rest' \in [Devices -> Nat] /\ rest'[d] = 0 /\ firstwrite' \in [Devices -> Nat]
         /\ \A e \in Devices \ {d} : rest'[e] = rest[e] /\ firstwrite'[e] = firstwrite[e]
    BY <1>1 DEF TypeOK
  <1>12. /\ serial' \in [Devices -> Nat]
         /\ \A e \in Devices \ {d} : serial'[e] = serial[e]
    BY <1>1 DEF TypeOK
  <1>13. TypeOK'
    BY <1>1, <1>5, <1>6, <1>7, <1>8, <1>10, <1>11, <1>12 DEF TypeOK
  <1>14. OpenCoherent'
    BY <1>1, <1>3, <1>7 DEF OpenCoherent
  <1>15. RestFits'
    BY <1>1, <1>2, <1>3, <1>7, <1>11 DEF RestFits
  <1>16. \A e \in Devices \ {d} : fp[e] # 0 => data'[fp[e]] = data[fp[e]]
    BY <1>3, <1>6 DEF TypeOK, OpenCoherent
  <1>17. RowsCoherent'
    BY <1>1, <1>3, <1>7, <1>8, <1>9, <1>10, <1>12, <1>16 DEF RowsCoherent
  <1>18. FitsBlock'
    <2>1. FileLength(fp[d])' = HeaderSize + k
      <3>1. Len(data'[fp[d]]) = k
        BY <1>2, <1>3, <1>6
      <3>2. QED
        BY <1>1, <3>1 DEF FileLength
    <2>2. \A e \in Devices \ {d} : fp'[e] # 0 =>
             /\ length'[e] <= FileLength(fp[e])' /\ FileLength(fp[e])' <= BlockSize
             /\ wpc'[e] = "run" => length'[e] < BlockSize /\ length'[e] = FileLength(fp[e])'
      BY <1>1, <1>7, <1>10, <1>16 DEF FitsBlock, FileLength
    <2>3. \A f \in Files : status'[f] = "VIDEO" => data'[f] = data[f]
      BY <1>1, <1>3, <1>6 DEF OpenCoherent
    <2>4. \A f \in Files : status'[f] = "VIDEO" /\ f \notin repaired' =>
             row'[f].len <= FileLength(f)' /\ FileLength(f)' <= BlockSize
      BY <1>1, <2>3 DEF FitsBlock, FileLength
    <2>5. /\ length'[d] <= HeaderSize + k /\ HeaderSize + k < BlockSize
          /\ wpc'[d] = "run" => length'[d] < BlockSize /\ length'[d] = HeaderSize + k
      BY <1>1, <1>2, <1>3, <1>7, <1>10
    <2>6. QED
      <3>1. \A e \in Devices : fp'[e] # 0 =>
               /\ length'[e] <= FileLength(fp[e])' /\ FileLength(fp[e])' <= BlockSize
               /\ wpc'[e] = "run" => length'[e] < BlockSize /\ length'[e] = FileLength(fp[e])'
        <4>1. HeaderSize + k <= BlockSize
          BY <1>2, <2>5
        <4>2. QED
          BY <2>1, <2>2, <2>5, <4>1
      <3>2. QED
        BY <2>4, <3>1 DEF FitsBlock, FileLength
  <1>19. QED
    BY <1>13, <1>14, <1>15, <1>17, <1>18

\* A crash leaves the beginning of an open file, and all of any other.
LEMMA CrashKeepsData ==
    ASSUME Base, Crash
    PROVE  /\ data' \in [Files -> Seq(Bytes)]
           /\ \A f \in Files : status[f] # "ING" => data'[f] = data[f]
           /\ \A f \in Files : \A k \in DOMAIN data'[f] :
                 k \in DOMAIN data[f] /\ data'[f][k] = data[f][k]
  <1> USE DEF Base
  <1>1. PICK lost \in [Devices -> 0 .. Unflushed] :
            data' = [f \in Files |->
                IF \E d \in Devices : fp[d] = f
                THEN LET d == CHOOSE d \in Devices : fp[d] = f
                     IN  Cut(data[f], Len(data[f]) - lost[d])
                ELSE data[f]]
    BY DEF Crash
  <1>2. ASSUME NEW f \in Files
        PROVE  /\ data'[f] \in Seq(Bytes) /\ (status[f] # "ING" => data'[f] = data[f])
               /\ \A k \in DOMAIN data'[f] : k \in DOMAIN data[f] /\ data'[f][k] = data[f][k]
    <2>1. data[f] \in Seq(Bytes) /\ Len(data[f]) \in Nat
      BY DEF TypeOK
    <2>2. CASE \E d \in Devices : fp[d] = f
      <3> DEFINE e == CHOOSE d \in Devices : fp[d] = f
      <3>1. e \in Devices /\ fp[e] = f
        BY <2>2
      <3>2. data'[f] = Cut(data[f], Len(data[f]) - lost[e])
        BY <1>1, <2>2
      <3> HIDE DEF e
      <3>3. Len(data[f]) - lost[e] \in Int
        <4>1. lost[e] \in 0 .. Unflushed
          BY <1>1, <3>1
        <4>2. lost[e] \in Int
          BY <4>1, RecordingAssumption
        <4>3. QED
          BY <2>1, <4>2
      <3>4. status[f] = "ING"
        BY <3>1, RecordingAssumption DEF OpenCoherent
      <3>5. QED
        BY <2>1, <3>2, <3>3, <3>4, CutProperties
    <2>3. CASE ~\E d \in Devices : fp[d] = f
      BY <1>1, <2>1, <2>3
    <2>4. QED
      BY <2>2, <2>3
  <1>3. DOMAIN data' = Files /\ data' = [f \in Files |-> data'[f]]
    BY <1>1
  <1>4. QED
    BY <1>2, <1>3

\* What else a crash changes.
LEMMA CrashStep ==
    ASSUME Crash
    PROVE  /\ phase' = "down"
           /\ wpc' = [d \in Devices |-> "idle"]
           /\ fp' = [d \in Devices |-> 0]
           /\ idxfp' = [d \in Devices |-> FALSE]
           /\ length' = [d \in Devices |-> 0]
           /\ head' = [d \in Devices |-> Blank]
           /\ second' = [d \in Devices |-> 0]
           /\ serial' = [d \in Devices |-> 0]
           /\ rest' = [d \in Devices |-> 0] /\ firstwrite' = [d \in Devices |-> 0]
           /\ todo' = {} /\ visited' = 0 /\ joined' = NoIndex
           /\ UNCHANGED <<now, status, row, repaired, hdr, idx, track, got>>
  BY DEF Crash, catalogue

\* A crash closes the open files; only those may be shorter.
LEMMA CrashBase == Base /\ Crash => Base'
  <1> SUFFICES ASSUME Base, Crash PROVE Base'
    OBVIOUS
  <1> USE DEF Base
  <1>1. data' \in [Files -> Seq(Bytes)] /\ \A f \in Files : status[f] # "ING" => data'[f] = data[f]
    BY CrashKeepsData
  <1>2. Blank \in Headers
    BY DEF Blank, Headers, Ids, Entries
  <1>3. TypeOK'
    <2>1. /\ phase' = "down" /\ todo' = {} /\ visited' = 0 /\ joined' = NoIndex
          /\ UNCHANGED <<now, status, row, repaired, hdr, idx, track, got>>
      BY CrashStep
    <2>2. /\ wpc' \in [Devices -> {"idle", "run", "close", "open", "index", "end"}]
          /\ fp' \in [Devices -> Files \cup {0}]
          /\ idxfp' \in [Devices -> BOOLEAN]
          /\ length' \in [Devices -> Nat] /\ head' \in [Devices -> Headers]
          /\ second' \in [Devices -> Nat] /\ serial' \in [Devices -> Nat]
          /\ rest' \in [Devices -> Nat] /\ firstwrite' \in [Devices -> Nat]
      <3>1. /\ wpc' = [d \in Devices |-> "idle"] /\ fp' = [d \in Devices |-> 0]
            /\ idxfp' = [d \in Devices |-> FALSE] /\ length' = [d \in Devices |-> 0]
            /\ head' = [d \in Devices |-> Blank] /\ second' = [d \in Devices |-> 0]
            /\ serial' = [d \in Devices |-> 0] /\ rest' = [d \in Devices |-> 0]
            /\ firstwrite' = [d \in Devices |-> 0]
        BY CrashStep
      <3>2. QED
        BY <1>2, <3>1
    <2>3. QED
      BY <1>1, <2>1, <2>2 DEF TypeOK
  <1>4. OpenCoherent' /\ RowsCoherent'
    BY CrashStep DEF OpenCoherent, RowsCoherent
  <1>5. RestFits'
    BY CrashStep, RecordingAssumption DEF RestFits
  <1>6. FitsBlock'
    BY <1>1, CrashStep DEF FitsBlock, FileLength
  <1>7. QED
    BY <1>3, <1>4, <1>5, <1>6

\* What repair_db gathers is the length of a header.
LEMMA JoinedType ==
    ASSUME joined \in Headers \cup {NoIndex}, NEW i \in Headers
    PROVE  Joined(i) \in Headers
  <1>1. FarFuture \in Nat /\ MaxIndex \in Int
    BY RecordingAssumption DEF FarFuture
  <1>2. CASE joined = NoIndex
    BY <1>2 DEF Joined
  <1>3. CASE joined # NoIndex
    <2> DEFINE own == <<[t |-> FarFuture, off |-> i.owner.serial]>>
               all == (joined.index \o own) \o i.index
    <2>1. /\ joined \in Headers /\ joined.index \in Seq(Entries) /\ i.index \in Seq(Entries)
          /\ i.owner.serial \in Nat
      BY <1>3 DEF Headers, Ids
    <2>2. own \in Seq(Entries)
      BY <1>1, <2>1 DEF Entries
    <2>3. Joined(i) = [joined EXCEPT !.index = Cut(all, MaxIndex)]
      BY <1>3 DEF Joined
    <2> HIDE DEF own
    <2>4. all \in Seq(Entries)
      BY <2>1, <2>2, ConcatProperties
    <2> HIDE DEF all
    <2>5. Cut(all, MaxIndex) \in Seq(Entries)
      BY <1>1, <2>4, CutProperties
    <2>6. QED
      BY <2>1, <2>3, <2>5 DEF Headers
  <1>4. QED
    BY <1>2, <1>3

\* What a step of repair_db does to the rows and the headers: it leaves all but one
\* alone, and that one is finished or left in use.
RowRepaired(f) ==
    /\ status' \in [Files -> {"NEW", "ING", "VIDEO"}]
    /\ row' \in [Files -> Rows]
    /\ hdr' \in [Files -> Headers]
    /\ joined' \in Headers \cup {NoIndex}
    /\ \A g \in Files : /\ row'[g].dev = row[g].dev /\ row'[g].track = row[g].track
                        /\ row'[g].serial = row[g].serial
    /\ \A g \in Files \ {f} : row'[g] = row[g] /\ status'[g] = status[g] /\ hdr'[g] = hdr[g]
    /\ \/ UNCHANGED <<status, row, repaired, hdr>>
       \/ status'[f] = "VIDEO" /\ repaired' = repaired \cup {f}

\* repair_db runs alone, and visits only rows that are in use.
LEMMA RepairRowStep ==
    ASSUME Base, NEW f \in Files, RepairRow(f)
    PROVE  /\ phase = "repair" /\ f \in todo /\ status[f] = "ING"
           /\ \A d \in Devices : fp[d] = 0 /\ wpc[d] = "idle"
           /\ UNCHANGED <<now, phase, data, idx, wpc, fp, idxfp, length, head, second, serial,
                          rest, firstwrite, track, got>>
           /\ RowRepaired(f)
  <1> USE DEF Base
  <1> DEFINE i == idx[row[f].dev]
  <1>1. /\ phase = "repair" /\ f \in todo /\ status[f] = "ING"
        /\ row[f].dev \in Devices
        /\ i \in Headers \cup {NoIndex}
        /\ \A d \in Devices : fp[d] = 0 /\ wpc[d] = "idle"
    BY DEF RepairRow, TypeOK, OpenCoherent, RowsCoherent
  <1>2. UNCHANGED <<now, phase, data, idx, wpc, fp, idxfp, length, head, second, serial, rest,
                    firstwrite, track, got>>
    BY DEF RepairRow, writer
  <1>3. RowRepaired(f)
    <2>1. joined \in Headers \cup {NoIndex}
      BY DEF TypeOK
    <2>2. CASE i = NoIndex /\ UNCHANGED <<catalogue, hdr>>
      <3>1. joined' \in {NoIndex, joined}
        BY <1>1, <2>2 DEF RepairRow
      <3>2. QED
        BY <2>1, <2>2, <3>1 DEF TypeOK, catalogue, RowRepaired
    <2>3. CASE i # NoIndex /\ status' = [status EXCEPT ![f] = "VIDEO"]
      <3>1. i \in Headers
        BY <1>1, <2>3
      <3>2. Joined(i) \in Headers
        BY <2>1, <3>1, JoinedType
      <3> DEFINE part == \/ /\ \E junk \in Uninitialised :
                                  hdr' = [hdr EXCEPT ![f] =
                                      [Joined(i) EXCEPT !.index = Cut(@ \o junk, MaxIndex)]]
                            /\ row' = [row EXCEPT ![f].len = LastOffset(i)]
                         \/ /\ row' = [row EXCEPT ![f].len = 0]
                            /\ UNCHANGED hdr
      <3>3. part /\ repaired' = repaired \cup {f} /\ joined' \in {NoIndex, Joined(i)}
        BY <2>3 DEF RepairRow
      <3>4. hdr' \in [Files -> Headers] /\ \A g \in Files \ {f} : hdr'[g] = hdr[g]
        <4>1. CASE UNCHANGED hdr
          BY <4>1 DEF TypeOK
        <4>2. ASSUME NEW junk \in Uninitialised,
                     hdr' = [hdr EXCEPT ![f] =
                                [Joined(i) EXCEPT !.index = Cut(@ \o junk, MaxIndex)]]
              PROVE  hdr' \in [Files -> Headers] /\ \A g \in Files \ {f} : hdr'[g] = hdr[g]
          <5>1. MaxIndex \in Int /\ FarFuture \in Nat
            BY RecordingAssumption DEF FarFuture
          <5>2. junk \in Seq(Entries)
            <6>1. [t |-> FarFuture, off |-> 0] \in Entries
              BY <5>1 DEF Entries
            <6>2. junk = <<>> \/ junk = <<[t |-> FarFuture, off |-> 0]>>
              BY <4>2 DEF Uninitialised
            <6> DEFINE far == [t |-> FarFuture, off |-> 0]
            <6> HIDE DEF far
            <6>3. far \in Entries /\ (junk = <<>> \/ junk = <<far>>)
              BY <6>1, <6>2 DEF far
            <6>4. <<far>> \in Seq(Entries) /\ <<>> \in Seq(Entries)
              BY <6>3
            <6>5. QED
              BY <6>3, <6>4
          <5>3. Joined(i).index \in Seq(Entries)
            BY <3>2 DEF Headers
          <5>4. Joined(i).index \o junk \in Seq(Entries)
            BY <5>2, <5>3, ConcatProperties
          <5>5. Cut(Joined(i).index \o junk, MaxIndex) \in Seq(Entries)
            BY <5>1, <5>4, CutProperties
          <5>6. [Joined(i) EXCEPT !.index = Cut(@ \o junk, MaxIndex)] \in Headers
            BY <3>2, <5>5 DEF Headers
          <5>7. hdr \in [Files -> Headers]
            BY DEF TypeOK
          <5>8. QED
            BY <4>2, <5>6, <5>7
        <4>3. QED
          BY <3>3, <4>1, <4>2
      <3>5. PICK n \in Nat : row' = [row EXCEPT ![f].len = n]
        <4>1. LastOffset(i) \in Nat
          <5>1. i.index \in Seq(Entries)
            BY <3>1 DEF Headers
          <5>2. CASE i.index = <<>>
            BY <5>2 DEF LastOffset
          <5>3. CASE i.index # <<>>
            <6>1. i.index[Len(i.index)] \in Entries
              <7>1. Len(i.index) \in 1 .. Len(i.index)
                BY <5>1, <5>3, EmptySeq
              <7>2. QED
                BY <5>1, <7>1, ElementOfSeq
            <6>2. QED
              BY <5>3, <6>1 DEF LastOffset, Entries
          <5>4. QED
            BY <5>2, <5>3
        <4>2. QED
          BY <3>3, <4>1
      <3>6. /\ row' \in [Files -> Rows]
            /\ row'[f].dev = row[f].dev /\ row'[f].track = row[f].track
            /\ row'[f].serial = row[f].serial
            /\ \A g \in Files \ {f} : row'[g] = row[g]
        <4>1. row \in [Files -> Rows] /\ row[f] \in Rows
          BY DEF TypeOK
        <4>2. /\ [row[f] EXCEPT !.len = n] \in Rows
              /\ [row[f] EXCEPT !.len = n].dev = row[f].dev
              /\ [row[f] EXCEPT !.len = n].track = row[f].track
              /\ [row[f] EXCEPT !.len = n].serial = row[f].serial
          BY <4>1 DEF Rows
        <4>3. row' = [row EXCEPT ![f] = [row[f] EXCEPT !.len = n]]
          BY <3>5
        <4>4. QED
          BY <4>1, <4>2, <4>3
      <3>7. /\ status' \in [Files -> {"NEW", "ING", "VIDEO"}] /\ status'[f] = "VIDEO"
            /\ \A g \in Files \ {f} : status'[g] = status[g]
        BY <2>3 DEF TypeOK
      <3>8. QED
        BY <3>2, <3>3, <3>4, <3>6, <3>7 DEF RowRepaired
    <2>4. QED
      BY <2>2, <2>3 DEF RepairRow
  <1>4. QED
    BY <1>1, <1>2, <1>3

\* repair_db finishes a row that was in use, and remembers that it did.
LEMMA RepairRowBase ==
    ASSUME Base, NEW f \in Files, RepairRow(f)
    PROVE  Base'
  <1> USE DEF Base
  <1>1. /\ phase = "repair" /\ f \in todo /\ status[f] = "ING"
        /\ \A d \in Devices : fp[d] = 0 /\ wpc[d] = "idle"
        /\ UNCHANGED <<now, phase, data, idx, wpc, fp, idxfp, length, head, second, serial, rest,
                       firstwrite, track, got>>
    BY RepairRowStep
  <1>2. RowRepaired(f)
    BY RepairRowStep
  <1>3. /\ visited' \in Nat
        /\ todo' = IF RepairAgain THEN {g \in Files : status'[g] = "ING"} ELSE todo \ {f}
    BY DEF RepairRow, TypeOK
  <1>4. TypeOK'
    <2>1. todo' \subseteq Files
      BY <1>3 DEF TypeOK
    <2>2. repaired' \subseteq Files
      BY <1>2 DEF TypeOK, RowRepaired
    <2>3. QED
      BY <1>1, <1>2, <1>3, <2>1, <2>2 DEF TypeOK, RowRepaired
  <1>5. OpenCoherent'
    <2>1. \A g \in todo' : status'[g] = "ING"
      BY <1>2, <1>3 DEF TypeOK, OpenCoherent, RowRepaired
    <2>2. \A d \in Devices : fp'[d] = 0 /\ wpc'[d] = "idle"
      BY <1>1
    <2>3. QED
      BY <1>1, <2>1, <2>2 DEF OpenCoherent
  <1>6. RowsCoherent'
    BY <1>1, <1>2 DEF RowsCoherent, RowRepaired
  <1>7. RestFits'
    BY <1>1 DEF RestFits
  <1>8. FitsBlock'
    BY <1>1, <1>2 DEF FitsBlock, FileLength, RowRepaired
  <1>9. QED
    BY <1>4, <1>5, <1>6, <1>7, <1>8

\* Every step keeps Base.
LEMMA NextBase == Base /\ [Next]_vars => Base'
  <1> SUFFICES ASSUME Base, [Next]_vars PROVE Base'
    OBVIOUS
  <1>1. CASE QuietStep
    BY <1>1, QuietBase
  <1>2. CASE Crash
    BY <1>2, CrashBase
  <1>3. CASE \E f \in Files : RepairRow(f)
    BY <1>3, RepairRowBase
  <1>4. ASSUME NEW d \in Devices, Writer(d) PROVE Base'
    BY <1>1, <1>4, ReceiveBase, WriteFailsBase, CloseFileBase, OpenFileBase, OpenIndexBase
       DEF Writer, QuietStep
  <1>5. CASE UNCHANGED vars
    BY <1>5 DEF vars, catalogue, disk, writer, repair, Base, TypeOK, OpenCoherent, RowsCoherent,
                RestFits, FitsBlock, FileLength
  <1>6. QED
    BY <1>1, <1>2, <1>3, <1>4, <1>5 DEF Next, Repair, QuietStep

\* The state of every recording is of its types, and who has which file open is
\* agreed on by the writers, the catalogue and repair_db.
THEOREM BaseAlways == Spec => []Base
  <1>1. QED
    BY InitBase, NextBase, PTL DEF Spec

\* No file outgrows its block, whatever the buffers, the failing writes and the
\* crashes (data_writer.cpp writer_file).
THEOREM FitsBlockAlways == Spec => []FitsBlock
  <1>1. Base => FitsBlock
    BY DEF Base
  <1>2. QED
    BY <1>1, BaseAlways, PTL
-------------------------------------------------------------------------------
(* Indexing: the index of a file tells its seconds apart.                  *)

\* Indexing is IndexExact and more.
LEMMA IndexingIsExact == Indexing => IndexExact
  BY DEF Indexing, OpenExact, ClosedExact, ExactFor, IndexExact, Indexed, FileLength

\* Bytes of the second now are added to s, after the second last of which its index
\* h is exact; the first of a new second get an entry at the end of s.  Then the
\* new index g is exact for the new bytes z.
LEMMA GrownExact ==
    ASSUME NEW h \in Headers, NEW g \in Headers, NEW s \in Seq(Bytes), NEW z \in Seq(Bytes),
           NEW n \in Nat, NEW t \in Nat, NEW last \in Nat, last <= t,
           Len(z) = Len(s) + n,
           \A k \in 1 .. Len(s) : z[k] = s[k],
           \A k \in Len(s) + 1 .. Len(s) + n : z[k].at = t,
           last = t => g = h,
           last # t => /\ Len(h.index) < MaxIndex
                       /\ Len(g.index) = Len(h.index) + 1
                       /\ \A j \in 1 .. Len(h.index) : g.index[j] = h.index[j]
                       /\ g.index[Len(h.index) + 1] = [t |-> t, off |-> HeaderSize + Len(s)],
           ExactFor(h, s), UpTo(last, h, s)
    PROVE  ExactFor(g, z) /\ UpTo(t, g, z)
  <1>1. /\ HeaderSize \in Nat /\ MaxIndex \in Nat /\ Len(s) \in Nat /\ Len(z) \in Nat
        /\ h.index \in Seq(Entries) /\ g.index \in Seq(Entries)
        /\ Len(h.index) \in Nat /\ Len(g.index) \in Nat
        /\ DOMAIN s = 1 .. Len(s) /\ DOMAIN z = 1 .. Len(z)
        /\ DOMAIN h.index = 1 .. Len(h.index) /\ DOMAIN g.index = 1 .. Len(g.index)
    BY RecordingAssumption DEF Headers
  <1>2. \A k \in DOMAIN z :
           \/ z[k] = s[k] /\ k \in DOMAIN s
           \/ z[k].at = t /\ k \in Nat /\ k > Len(s)
    BY <1>1
  <1>3. \A j \in DOMAIN g.index :
           \/ j \in DOMAIN h.index /\ g.index[j] = h.index[j]
           \/ last # t /\ g.index[j].t = t /\ g.index[j].off = HeaderSize + Len(s)
    <2>1. CASE last = t
      BY <2>1
    <2>2. CASE last # t
      <3> DEFINE new == [t |-> t, off |-> HeaderSize + Len(s)]
      <3>1. new.t = t /\ new.off = HeaderSize + Len(s)
        OBVIOUS
      <3>2. g.index[Len(h.index) + 1] = new
        BY <2>2
      <3> HIDE DEF new
      <3>3. \A j \in 1 .. Len(h.index) + 1 : j \in 1 .. Len(h.index) \/ j = Len(h.index) + 1
        BY <1>1
      <3>4. QED
        BY <1>1, <2>2, <3>1, <3>2, <3>3
    <2>3. QED
      BY <2>1, <2>2
  <1>4. \A j \in DOMAIN h.index : j \in DOMAIN g.index /\ g.index[j] = h.index[j]
    BY <1>1, SMTT(20)
  <1>5. \A k \in DOMAIN s : s[k].at \in Nat /\ s[k].at <= last
    <2>1. \A k \in DOMAIN s : s[k] \in Bytes
      BY <1>1, ElementOfSeq
    <2>2. QED
      BY <2>1 DEF UpTo, Bytes
  <1>6. \A j \in DOMAIN h.index : /\ h.index[j].t \in Nat /\ h.index[j].t <= last
                                  /\ h.index[j].off \in HeaderSize .. HeaderSize + Len(s)
    <2>1. \A j \in DOMAIN h.index : h.index[j] \in Entries
      BY <1>1, ElementOfSeq
    <2>2. QED
      BY <2>1 DEF UpTo, Entries, ExactFor
  <1>7. last # t => /\ Len(h.index) + 1 \in DOMAIN g.index
                    /\ g.index[Len(h.index) + 1].t = t
    BY <1>1
  <1>8. Len(g.index) <= MaxIndex
    BY <1>1 DEF ExactFor
  <1>9. ASSUME NEW i \in DOMAIN g.index
        PROVE  /\ g.index[i].off \in HeaderSize .. HeaderSize + Len(z)
               /\ \A k \in DOMAIN z :
                     z[k].at >= g.index[i].t <=> HeaderSize + k - 1 >= g.index[i].off
    <2>1. CASE i \in DOMAIN h.index /\ g.index[i] = h.index[i]
      <3>1. \A k \in DOMAIN s : s[k].at >= h.index[i].t <=> HeaderSize + k - 1 >= h.index[i].off
        BY <2>1 DEF ExactFor
      <3>2. h.index[i].off \in HeaderSize .. HeaderSize + Len(z)
        BY <1>1, <1>6, <2>1
      <3>3. ASSUME NEW k \in DOMAIN z
            PROVE  z[k].at >= h.index[i].t <=> HeaderSize + k - 1 >= h.index[i].off
        <4>1. CASE z[k] = s[k] /\ k \in DOMAIN s
          BY <3>1, <4>1
        <4>2. CASE z[k].at = t /\ k \in Nat /\ k > Len(s)
          <5>1. /\ h.index[i].t \in Nat /\ h.index[i].t <= last
                /\ h.index[i].off \in Nat /\ h.index[i].off <= HeaderSize + Len(s)
            BY <1>1, <1>6, <2>1, SMTT(20)
          <5>2. z[k].at >= h.index[i].t
            BY <4>2, <5>1
          <5>3. HeaderSize + k - 1 >= h.index[i].off
            BY <1>1, <4>2, <5>1, SMTT(20)
          <5>4. QED
            BY <5>2, <5>3
        <4>3. QED
          BY <1>2, <4>1, <4>2
      <3>4. QED
        BY <2>1, <3>2, <3>3
    <2>2. CASE last # t /\ g.index[i].t = t /\ g.index[i].off = HeaderSize + Len(s)
      <3>1. HeaderSize + Len(s) \in HeaderSize .. HeaderSize + Len(z)
        BY <1>1
      <3>2. ASSUME NEW k \in DOMAIN z
            PROVE  z[k].at >= t <=> HeaderSize + k - 1 >= HeaderSize + Len(s)
        <4>1. CASE z[k] = s[k] /\ k \in DOMAIN s
          BY <1>1, <1>5, <2>2, <4>1, SMTT(20)
        <4>2. CASE z[k].at = t /\ k \in Nat /\ k > Len(s)
          BY <1>1, <4>2
        <4>3. QED
          BY <1>2, <4>1, <4>2
      <3>3. QED
        BY <2>2, <3>1, <3>2
    <2>3. QED
      BY <1>3, <2>1, <2>2
  <1>10. z # <<>> => z[1].at = t \/ \E i \in DOMAIN g.index : g.index[i].t = t
    <2>1. CASE last # t
      BY <1>7, <2>1
    <2>2. CASE last = t /\ s # <<>>
      <3>1. z[1] = s[1]
        BY <1>1, <2>2
      <3>2. QED
        BY <2>2, <3>1 DEF UpTo
    <2>3. CASE s = <<>> /\ z # <<>>
      <3>1. Len(s) = 0 /\ 1 \in DOMAIN z
        BY <1>1, <2>3
      <3>2. QED
        BY <1>1, <1>2, <3>1
    <2>4. QED
      BY <2>1, <2>2, <2>3
  <1>11. ASSUME NEW k \in DOMAIN z, z[k].at > z[1].at
         PROVE  \E i \in DOMAIN g.index : g.index[i].t = z[k].at
    <2>1. CASE z[k] = s[k] /\ k \in DOMAIN s
      <3>1. z[1] = s[1]
        BY <1>1, <2>1
      <3>2. PICK i \in DOMAIN h.index : h.index[i].t = s[k].at
        BY <1>11, <2>1, <3>1 DEF ExactFor
      <3>3. QED
        BY <1>4, <2>1, <3>2
    <2>2. CASE z[k].at = t /\ k \in Nat /\ k > Len(s)
      <3>1. z # <<>> /\ z[1].at # t
        BY <1>1, <1>11, <2>2
      <3>2. QED
        BY <1>10, <2>2, <3>1
    <2>3. QED
      BY <1>2, <2>1, <2>2
  <1>12. ExactFor(g, z)
    BY <1>8, <1>9, <1>11 DEF ExactFor
  <1>13. \A k \in DOMAIN z : z[k].at <= t
    BY <1>2, <1>5
  <1>14. \A i \in DOMAIN g.index : g.index[i].t <= t
    BY <1>3, <1>6, SMTT(20)
  <1>15. QED
    BY <1>10, <1>12, <1>13, <1>14 DEF UpTo

\* An open file that a step does not write stays exact, if the step does not bring
\* its writer back to "run".
LEMMA OpenExactKept ==
    ASSUME NEW e \in Devices, OpenExact(e),
           now \in Nat, now' \in Nat, second[e] \in Nat, now <= now',
           second'[e] = second[e],
           wpc'[e] = "run" /\ idxfp'[e] => wpc[e] = "run",
           idxfp'[e] => /\ idxfp[e] /\ head'[e] = head[e] /\ fp'[e] = fp[e]
                        /\ data'[fp[e]] = data[fp[e]]
                        /\ RowIdentity(fp[e])' = RowIdentity(fp[e])
    PROVE  OpenExact(e)'
  <1>1. second'[e] <= now'
    BY DEF OpenExact
  <1>2. ASSUME idxfp'[e]
        PROVE  /\ head'[e].owner = RowIdentity(fp[e])'
               /\ ExactFor(head'[e], data'[fp[e]])
               /\ wpc'[e] = "run" => UpTo(second'[e], head'[e], data'[fp[e]])
    BY <1>2 DEF OpenExact
  <1>3. idxfp'[e] => fp'[e] = fp[e]
    OBVIOUS
  <1>4. QED
    BY <1>1, <1>2, <1>3 DEF OpenExact, RowIdentity

\* A finished file that a step neither writes nor finishes stays exact.
LEMMA ClosedExactKept ==
    ASSUME NEW f \in Files, ClosedExact(f),
           status'[f] = "VIDEO" /\ f \notin repaired' /\ data'[f] # <<>> =>
              /\ status[f] = "VIDEO" /\ f \notin repaired /\ data'[f] = data[f]
              /\ hdr'[f] = hdr[f] /\ RowIdentity(f)' = RowIdentity(f)
    PROVE  ClosedExact(f)'
  BY DEF ClosedExact, RowIdentity

\* A writer that goes on in its file keeps it exact.
LEMMA GrownOpenExact ==
    ASSUME Base, NEW d \in Devices, OpenExact(d), wpc[d] = "run", fp[d] # 0, ~IndexFull(d),
           WriteIndex(d, head[d], idx[d], length[d]),
           NEW n \in Nat, AppendData(d, n, got[d], got[d]), UNCHANGED <<now, row, fp, idxfp>>
    PROVE  OpenExact(d)'
  <1> USE DEF Base
  <1>1. /\ fp[d] \in Files /\ idxfp[d] /\ length[d] \in Nat
        /\ length[d] = HeaderSize + Len(data[fp[d]])
        /\ head[d] \in Headers /\ idx[d] \in Headers \cup {NoIndex} /\ got[d] \in Nat
        /\ second[d] \in Nat /\ now \in Nat /\ data[fp[d]] \in Seq(Bytes)
    <2>1. fp[d] \in Files
      BY DEF TypeOK
    <2>2. idxfp[d] /\ length[d] = HeaderSize + Len(data[fp[d]])
      BY DEF FitsBlock, FileLength, RowsCoherent
    <2>3. QED
      BY <2>1, <2>2 DEF TypeOK
  <1>2. /\ head'[d] \in Headers /\ second'[d] = now
        /\ head'[d].owner = head[d].owner
        /\ second[d] = now => head'[d] = head[d]
        /\ second[d] # now =>
              /\ Len(head'[d].index) = Len(head[d].index) + 1
              /\ \A j \in 1 .. Len(head[d].index) : head'[d].index[j] = head[d].index[j]
              /\ head'[d].index[Len(head[d].index) + 1] = [t |-> now, off |-> length[d]]
    BY <1>1, WriteIndexProperties, SMTT(40)
  <1>3. /\ data'[fp[d]] \in Seq(Bytes)
        /\ Len(data'[fp[d]]) = Len(data[fp[d]]) + n
        /\ \A k \in 1 .. Len(data[fp[d]]) : data'[fp[d]][k] = data[fp[d]][k]
        /\ \A k \in Len(data[fp[d]]) + 1 .. Len(data[fp[d]]) + n : data'[fp[d]][k].at = now
    <2>1. /\ TypeOK /\ fp[d] \in Files /\ n \in Nat /\ got[d] \in Nat
          /\ AppendData(d, n, got[d], got[d])
      BY <1>1
    <2>2. data' \in [Files -> Seq(Bytes)]
      BY <2>1, AppendDataProperties
    <2>3. QED
      BY <2>1, <2>2, AppendDataProperties
  <1>4. second[d] # now => Len(head[d].index) < MaxIndex
    <2>1. head[d].index \in Seq(Entries)
      BY <1>1 DEF Headers
    <2>2. Len(head[d].index) \in Nat
      BY <2>1
    <2>3. MaxIndex \in Nat
      BY RecordingAssumption
    <2>4. QED
      BY <2>2, <2>3 DEF IndexFull
  <1>5. /\ second[d] <= now /\ head[d].owner = RowIdentity(fp[d])
        /\ ExactFor(head[d], data[fp[d]]) /\ UpTo(second[d], head[d], data[fp[d]])
    BY <1>1 DEF OpenExact
  <1> DEFINE h == head[d]
             g == head'[d]
             s == data[fp[d]]
             z == data'[fp[d]]
  <1>6. ExactFor(g, z) /\ UpTo(now, g, z)
    <2>1. /\ h \in Headers /\ g \in Headers /\ s \in Seq(Bytes) /\ z \in Seq(Bytes)
          /\ Len(z) = Len(s) + n
          /\ \A k \in 1 .. Len(s) : z[k] = s[k]
          /\ \A k \in Len(s) + 1 .. Len(s) + n : z[k].at = now
          /\ second[d] = now => g = h
          /\ second[d] # now =>
                /\ Len(h.index) < MaxIndex
                /\ Len(g.index) = Len(h.index) + 1
                /\ \A j \in 1 .. Len(h.index) : g.index[j] = h.index[j]
                /\ g.index[Len(h.index) + 1] = [t |-> now, off |-> HeaderSize + Len(s)]
          /\ ExactFor(h, s) /\ UpTo(second[d], h, s)
      BY <1>1, <1>2, <1>3, <1>4, <1>5
    <2> HIDE DEF h, g, s, z
    <2>2. QED
      BY <1>1, <1>5, <2>1, GrownExact
  <1> HIDE DEF h, g, s, z
  <1>7. fp'[d] = fp[d] /\ now' = now /\ RowIdentity(fp[d])' = RowIdentity(fp[d])
    BY DEF RowIdentity
  <1>8. g.owner = RowIdentity(fp[d])
    BY <1>2, <1>5 DEF g
  <1>9. QED
    BY <1>1, <1>2, <1>6, <1>7, <1>8 DEF OpenExact, RowIdentity, g, z

\* Indexing holds at first.
LEMMA InitIndexing == Init => Indexing
  <1> SUFFICES ASSUME Init PROVE Indexing
    OBVIOUS
  <1>1. \A d \in Devices : OpenExact(d)
    BY DEF Init, OpenExact
  <1>2. \A f \in Files : ClosedExact(f)
    BY DEF Init, ClosedExact
  <1>3. QED
    BY <1>1, <1>2 DEF Indexing

\* A quiet step leaves the bytes, the headers and the seconds of the writers alone.
LEMMA QuietIndexing == Base /\ Indexing /\ QuietStep => Indexing'
  <1> SUFFICES ASSUME Base, Indexing, QuietStep PROVE Indexing'
    OBVIOUS
  <1>1. UNCHANGED <<status, row, repaired, data, hdr, fp, idxfp, head, second>>
    BY DEF QuietStep, Tick, Restart, RepairDone, StartWriter, EndWriter, EndClosed, catalogue,
           disk, writer, repair
  <1>2. now \in Nat /\ now' \in Nat /\ now <= now' /\ second \in [Devices -> Nat]
    <2>1. now \in Nat /\ second \in [Devices -> Nat]
      BY DEF Base, TypeOK
    <2>2. now' = now \/ now' = now + 1
      BY DEF QuietStep, Tick, Restart, RepairDone, StartWriter, EndWriter, EndClosed
    <2>3. QED
      BY <2>1, <2>2
  <1>3. \A e \in Devices : wpc'[e] = "run" /\ idxfp[e] => wpc[e] = "run"
    <2>1. wpc \in [Devices -> {"idle", "run", "close", "open", "index", "end"}]
      BY DEF Base, TypeOK
    <2>2. \A e \in Devices : idxfp[e] => wpc[e] # "idle"
      BY DEF Base, RowsCoherent, OpenCoherent
    <2>3. QED
      BY <2>1, <2>2 DEF QuietStep, Tick, Restart, RepairDone, StartWriter, EndWriter, EndClosed,
                        writer
  <1>4. ASSUME NEW e \in Devices PROVE OpenExact(e)'
    <2>1. OpenExact(e) /\ second[e] \in Nat
      BY <1>2 DEF Indexing
    <2>2. RowIdentity(fp[e])' = RowIdentity(fp[e])
      BY <1>1 DEF RowIdentity
    <2>3. QED
      BY <1>1, <1>2, <1>3, <2>1, <2>2, OpenExactKept
  <1>5. ASSUME NEW f \in Files PROVE ClosedExact(f)'
    <2>1. ClosedExact(f)
      BY DEF Indexing
    <2>2. RowIdentity(f)' = RowIdentity(f)
      BY <1>1 DEF RowIdentity
    <2>3. QED
      BY <1>1, <2>1, <2>2, ClosedExactKept
  <1>6. QED
    BY <1>4, <1>5 DEF Indexing

\* A buffer is written with the entry of its second, or waits for the next file.
LEMMA ReceiveIndexing ==
    ASSUME Base, Indexing, NEW d \in Devices, NEW n \in Chunks, Receive(d, n)
    PROVE  Indexing'
  <1>1. /\ wpc[d] = "run"
        /\ UNCHANGED <<now, status, row, repaired, fp, idxfp>>
    BY DEF Receive, catalogue
  <1>2. /\ now \in Nat /\ second \in [Devices -> Nat] /\ head \in [Devices -> Headers]
        /\ wpc \in [Devices -> {"idle", "run", "close", "open", "index", "end"}]
        /\ fp \in [Devices -> Files \cup {0}] /\ n \in Nat
    BY RecordingAssumption DEF Base, TypeOK
  <1>3. \A f \in Files : RowIdentity(f)' = RowIdentity(f)
    BY <1>1 DEF RowIdentity
  <1>4. \A e \in Devices : OpenExact(e)
    BY DEF Indexing
  <1>5. \A e \in Devices : idxfp[e] => fp[e] \in Files /\ fp[e] # 0
    BY <1>2 DEF Base, RowsCoherent
  <1>6. CASE ReceiveFirst(d, n) \/ ReceiveIndexFull(d, n)
    <2>1. UNCHANGED <<data, hdr, head>>
      BY <1>6 DEF ReceiveFirst, ReceiveIndexFull, disk
    <2>2. /\ wpc'[d] # "run" /\ second'[d] \in {second[d], now}
          /\ \A e \in Devices \ {d} : wpc'[e] = wpc[e] /\ second'[e] = second[e]
      <3>1. CASE ReceiveFirst(d, n)
        BY <1>2, <3>1 DEF ReceiveFirst
      <3>2. CASE ReceiveIndexFull(d, n)
        BY <1>2, <3>2 DEF ReceiveIndexFull
      <3>3. QED
        BY <1>6, <3>1, <3>2
    <2>3. ASSUME NEW e \in Devices \ {d} PROVE OpenExact(e)'
      BY <1>1, <1>2, <1>3, <1>4, <1>5, <2>1, <2>2, OpenExactKept
    <2>4. OpenExact(d)'
      <3>1. second'[d] <= now
        BY <1>2, <1>4, <2>2 DEF OpenExact
      <3>2. QED
        BY <1>1, <1>3, <1>4, <1>5, <2>1, <2>2, <3>1 DEF OpenExact, RowIdentity
    <2>5. ASSUME NEW f \in Files PROVE ClosedExact(f)'
      BY <1>1, <1>3, <2>1, ClosedExactKept DEF Indexing
    <2>6. QED
      BY <2>3, <2>4, <2>5 DEF Indexing
  <1>7. CASE ReceiveInto(d, n)
    <2>1. /\ fp[d] # 0 /\ ~IndexFull(d) /\ UNCHANGED hdr
          /\ WriteIndex(d, head[d], idx[d], length[d])
          /\ AppendData(d, Fit(d, n), got[d], got[d])
      BY <1>7 DEF ReceiveInto
    <2>2. Fit(d, n) \in Nat
      <3>1. length[d] \in Nat /\ length[d] < BlockSize
        BY <1>1, <2>1 DEF Base, FitsBlock, TypeOK
      <3>2. QED
        BY <1>2, <3>1, RecordingAssumption DEF Fit
    <2>3. OpenExact(d)'
      BY <1>1, <1>4, <2>1, <2>2, GrownOpenExact
    <2>4. /\ fp[d] \in Files /\ idx[d] \in Headers \cup {NoIndex} /\ got[d] \in Nat
          /\ length[d] \in Nat
      BY <2>1 DEF Base, TypeOK
    <2>5. \A e \in Devices \ {d} : head'[e] = head[e] /\ second'[e] = second[e]
      BY <1>2, <2>1, <2>4, WriteIndexProperties DEF Base
    <2>6. \A f \in Files : f # fp[d] => data'[f] = data[f]
      BY <2>1, <2>2, <2>4, AppendDataProperties DEF Base
    <2>7. \A e \in Devices \ {d} : wpc'[e] = wpc[e]
      BY <1>2, <1>7 DEF ReceiveInto
    <2>8. ASSUME NEW e \in Devices \ {d} PROVE OpenExact(e)'
      <3>1. idxfp[e] => fp[e] # fp[d]
        BY <1>5, <2>8 DEF Base, OpenCoherent
      <3>2. QED
        BY <1>1, <1>2, <1>3, <1>4, <1>5, <2>5, <2>6, <2>7, <3>1, OpenExactKept
    <2>9. ASSUME NEW f \in Files PROVE ClosedExact(f)'
      <3>1. status[f] = "VIDEO" => f # fp[d]
        BY <2>1 DEF Base, OpenCoherent
      <3>2. QED
        BY <1>1, <1>3, <2>1, <2>6, <3>1, ClosedExactKept DEF Indexing
    <2>10. QED
      BY <2>3, <2>8, <2>9 DEF Indexing
  <1>8. QED
    BY <1>6, <1>7 DEF Receive

\* Also a write that fails has the entry of its second.
LEMMA WriteFailsIndexing ==
    ASSUME Base, Indexing, NEW d \in Devices, NEW k \in 0 .. BlockSize, WriteFails(d, k)
    PROVE  Indexing'
  <1>1. /\ wpc[d] = "run" /\ fp[d] # 0 /\ ~IndexFull(d)
        /\ WriteIndex(d, head[d], idx[d], length[d])
        /\ AppendData(d, k, got[d], got[d])
        /\ wpc' = [wpc EXCEPT ![d] = "end"]
        /\ UNCHANGED <<now, status, row, repaired, hdr, fp, idxfp>>
    BY DEF WriteFails, catalogue
  <1>2. /\ now \in Nat /\ second \in [Devices -> Nat] /\ head \in [Devices -> Headers]
        /\ wpc \in [Devices -> {"idle", "run", "close", "open", "index", "end"}]
        /\ fp \in [Devices -> Files \cup {0}] /\ k \in Nat
        /\ fp[d] \in Files /\ idx[d] \in Headers \cup {NoIndex} /\ got[d] \in Nat
        /\ length[d] \in Nat
    BY <1>1, RecordingAssumption DEF Base, TypeOK
  <1>3. \A f \in Files : RowIdentity(f)' = RowIdentity(f)
    BY <1>1 DEF RowIdentity
  <1>4. \A e \in Devices : OpenExact(e)
    BY DEF Indexing
  <1>5. \A e \in Devices : idxfp[e] => fp[e] \in Files /\ fp[e] # 0
    BY <1>2 DEF Base, RowsCoherent
  <1>6. OpenExact(d)'
    BY <1>1, <1>2, <1>4, GrownOpenExact
  <1>7. \A e \in Devices \ {d} : head'[e] = head[e] /\ second'[e] = second[e]
    BY <1>1, <1>2, WriteIndexProperties DEF Base
  <1>8. \A f \in Files : f # fp[d] => data'[f] = data[f]
    BY <1>1, <1>2, AppendDataProperties DEF Base
  <1>9. \A e \in Devices \ {d} : wpc'[e] = wpc[e]
    BY <1>1, <1>2
  <1>10. ASSUME NEW e \in Devices \ {d} PROVE OpenExact(e)'
    <2>1. idxfp[e] => fp[e] # fp[d]
      BY <1>5, <1>10 DEF Base, OpenCoherent
    <2>2. QED
      BY <1>1, <1>2, <1>3, <1>4, <1>5, <1>7, <1>8, <1>9, <2>1, OpenExactKept
  <1>11. ASSUME NEW f \in Files PROVE ClosedExact(f)'
    <2>1. status[f] = "VIDEO" => f # fp[d]
      BY <1>1 DEF Base, OpenCoherent
    <2>2. QED
      BY <1>1, <1>3, <1>8, <2>1, ClosedExactKept DEF Indexing
  <1>12. QED
    BY <1>6, <1>10, <1>11 DEF Indexing

\* close_file makes the header in memory, which is exact, that of the file.
LEMMA CloseFileIndexing ==
    ASSUME Base, Indexing, NEW d \in Devices, CloseFile(d)
    PROVE  Indexing'
  <1>1. /\ fp[d] # 0
        /\ hdr' = [hdr EXCEPT ![fp[d]] = head[d]]
        /\ status' = [status EXCEPT ![fp[d]] = "VIDEO"]
        /\ row' = [row EXCEPT ![fp[d]].len = length[d]]
        /\ repaired' = repaired \ {fp[d]}
        /\ fp' = [fp EXCEPT ![d] = 0]
        /\ idxfp' = [idxfp EXCEPT ![d] = FALSE]
        /\ wpc' = [wpc EXCEPT ![d] = IF wpc[d] = "close" THEN "open" ELSE "idle"]
        /\ UNCHANGED <<now, data, head, second>>
    BY DEF CloseFile
  <1>2. /\ now \in Nat /\ second \in [Devices -> Nat] /\ head \in [Devices -> Headers]
        /\ hdr \in [Files -> Headers] /\ status \in [Files -> {"NEW", "ING", "VIDEO"}]
        /\ wpc \in [Devices -> {"idle", "run", "close", "open", "index", "end"}]
        /\ fp \in [Devices -> Files \cup {0}] /\ idxfp \in [Devices -> BOOLEAN]
        /\ fp[d] \in Files /\ row \in [Files -> Rows]
    BY <1>1 DEF Base, TypeOK
  <1>3. \A f \in Files : RowIdentity(f)' = RowIdentity(f)
    <2>1. row[fp[d]] \in Rows
      BY <1>2
    <2>2. /\ [row[fp[d]] EXCEPT !.len = length[d]].dev = row[fp[d]].dev
          /\ [row[fp[d]] EXCEPT !.len = length[d]].track = row[fp[d]].track
          /\ [row[fp[d]] EXCEPT !.len = length[d]].serial = row[fp[d]].serial
      BY <2>1 DEF Rows
    <2>3. row' = [row EXCEPT ![fp[d]] = [row[fp[d]] EXCEPT !.len = length[d]]]
      BY <1>1
    <2>4. \A f \in Files : row'[f] = IF f = fp[d] THEN [row[fp[d]] EXCEPT !.len = length[d]]
                                                ELSE row[f]
      BY <1>2, <2>3
    <2>5. QED
      BY <2>2, <2>4 DEF RowIdentity
  <1>4. \A e \in Devices : OpenExact(e)
    BY DEF Indexing
  <1>5. \A e \in Devices : idxfp[e] => fp[e] \in Files
    BY <1>2 DEF Base, RowsCoherent
  <1>6. /\ \A e \in Devices \ {d} : fp'[e] = fp[e] /\ wpc'[e] = wpc[e] /\ idxfp'[e] = idxfp[e]
        /\ ~idxfp'[d]
    BY <1>1, <1>2
  <1>7. ASSUME NEW e \in Devices PROVE OpenExact(e)'
    <2>1. CASE e = d
      BY <1>1, <1>4, <1>6, <2>1 DEF OpenExact
    <2>2. CASE e # d
      BY <1>1, <1>2, <1>3, <1>4, <1>5, <1>6, <2>2, OpenExactKept
    <2>3. QED
      BY <2>1, <2>2
  <1>8. ASSUME NEW f \in Files PROVE ClosedExact(f)'
    <2>1. CASE f = fp[d]
      <3>1. data[f] # <<>> => idxfp[d]
        BY <1>1, <2>1 DEF Base, RowsCoherent
      <3>2. hdr'[f] = head[d] /\ data'[f] = data[f] /\ RowIdentity(f)' = RowIdentity(f)
        BY <1>1, <1>2, <1>3, <2>1
      <3>3. idxfp[d] => head[d].owner = RowIdentity(f) /\ ExactFor(head[d], data[f])
        BY <1>4, <2>1 DEF OpenExact
      <3>4. QED
        BY <3>1, <3>2, <3>3 DEF ClosedExact, RowIdentity
    <2>2. CASE f # fp[d]
      <3>1. /\ hdr'[f] = hdr[f] /\ status'[f] = status[f] /\ data'[f] = data[f]
            /\ f \in repaired' <=> f \in repaired
        BY <1>1, <1>2, <2>2
      <3>2. QED
        BY <1>3, <3>1, ClosedExactKept DEF Indexing
    <2>3. QED
      BY <2>1, <2>2
  <1>9. QED
    BY <1>7, <1>8 DEF Indexing

\* A file that is opened is no longer finished, and is not open in another writer.
LEMMA OpenFileIndexing ==
    ASSUME Base, Indexing, NEW d \in Devices, NEW f \in Files, OpenFile(d, f)
    PROVE  Indexing'
  <1> DEFINE new == [dev |-> d, track |-> track[d], serial |-> serial[d], len |-> 0]
  <1>1. /\ wpc[d] = "open" /\ status[f] # "ING"
        /\ data' = [data EXCEPT ![f] = <<>>]
        /\ hdr' = [hdr EXCEPT ![f] = head[d]]
        /\ status' = [status EXCEPT ![f] = "ING"]
        /\ row' = [row EXCEPT ![f] = new]
        /\ repaired' = repaired \ {f}
        /\ fp' = [fp EXCEPT ![d] = f]
        /\ wpc' = [wpc EXCEPT ![d] = "index"]
        /\ UNCHANGED <<now, idxfp, head, second>>
    BY DEF OpenFile
  <1> HIDE DEF new
  <1>2. /\ now \in Nat /\ second \in [Devices -> Nat]
        /\ hdr \in [Files -> Headers] /\ status \in [Files -> {"NEW", "ING", "VIDEO"}]
        /\ wpc \in [Devices -> {"idle", "run", "close", "open", "index", "end"}]
        /\ fp \in [Devices -> Files \cup {0}] /\ row \in [Files -> Rows]
        /\ data \in [Files -> Seq(Bytes)]
    BY DEF Base, TypeOK
  <1>3. /\ \A e \in Devices \ {d} : fp'[e] = fp[e] /\ wpc'[e] = wpc[e]
        /\ \A g \in Files \ {f} : /\ data'[g] = data[g] /\ hdr'[g] = hdr[g]
                                  /\ status'[g] = status[g] /\ row'[g] = row[g]
                                  /\ g \in repaired' <=> g \in repaired
        /\ status'[f] = "ING"
    BY <1>1, <1>2
  <1>4. ~idxfp[d] /\ \A e \in Devices : idxfp[e] => fp[e] \in Files \ {f}
    <2>1. fp[d] = 0
      BY <1>1 DEF Base, OpenCoherent
    <2>2. \A e \in Devices : idxfp[e] => fp[e] # 0
      BY DEF Base, RowsCoherent
    <2>3. \A e \in Devices : fp[e] # 0 => fp[e] \in Files \ {f}
      BY <1>1, <1>2 DEF Base, OpenCoherent
    <2>4. QED
      BY <2>1, <2>2, <2>3
  <1>5. \A e \in Devices : OpenExact(e)
    BY DEF Indexing
  <1>6. \A g \in Files \ {f} : RowIdentity(g)' = RowIdentity(g)
    BY <1>3 DEF RowIdentity
  <1>7. ASSUME NEW e \in Devices PROVE OpenExact(e)'
    <2>1. CASE e = d
      BY <1>1, <1>4, <1>5, <2>1 DEF OpenExact
    <2>2. CASE e # d
      BY <1>1, <1>2, <1>3, <1>4, <1>5, <1>6, <2>2, OpenExactKept
    <2>3. QED
      BY <2>1, <2>2
  <1>8. ASSUME NEW g \in Files PROVE ClosedExact(g)'
    <2>1. CASE g = f
      BY <1>3, <2>1 DEF ClosedExact
    <2>2. CASE g # f
      BY <1>3, <1>6, <2>2, ClosedExactKept DEF Indexing
    <2>3. QED
      BY <2>1, <2>2
  <1>9. QED
    BY <1>7, <1>8 DEF Indexing

\* A new file begins with the identity of its row, no entry, or that of the second
\* in which its first bytes are written.
LEMMA OpenIndexIndexing ==
    ASSUME Base, Indexing, NEW d \in Devices, NEW k \in 0 .. BlockSize, OpenIndex(d, k)
    PROVE  Indexing'
  <1>1. /\ wpc[d] = "index" /\ k <= rest[d]
        /\ WriteIndex(d, Fresh(d), Blank, length[d])
        /\ AppendData(d, k, got[d] - rest[d], got[d] - rest[d] - firstwrite[d])
        /\ idxfp' = [idxfp EXCEPT ![d] = TRUE]
        /\ wpc' = [wpc EXCEPT ![d] = IF k = rest[d] THEN "run" ELSE "end"]
        /\ UNCHANGED <<now, status, row, repaired, hdr, fp>>
    BY DEF OpenIndex, catalogue
  <1>2. /\ now \in Nat /\ second \in [Devices -> Nat] /\ head \in [Devices -> Headers]
        /\ wpc \in [Devices -> {"idle", "run", "close", "open", "index", "end"}]
        /\ fp \in [Devices -> Files \cup {0}] /\ idxfp \in [Devices -> BOOLEAN]
        /\ data \in [Files -> Seq(Bytes)] /\ k \in Nat
    BY RecordingAssumption DEF Base, TypeOK
  <1>3. /\ fp[d] \in Files /\ fp[d] # 0 /\ ~idxfp[d] /\ length[d] = HeaderSize
        /\ length[d] \in Nat /\ data[fp[d]] = <<>> /\ got[d] - rest[d] \in Nat
        /\ got[d] - rest[d] - firstwrite[d] \in Nat
    <2>1. fp[d] \in Files /\ fp[d] # 0 /\ ~idxfp[d] /\ length[d] = HeaderSize
      BY <1>1, <1>2 DEF Base, OpenCoherent, RowsCoherent
    <2>2. /\ rest[d] \in Nat /\ got[d] \in Nat /\ firstwrite[d] \in Nat
          /\ rest[d] + firstwrite[d] <= got[d] /\ HeaderSize \in Nat
      BY <1>1, RecordingAssumption DEF Base, TypeOK, RestFits
    <2>3. data[fp[d]] = <<>>
      BY <2>1 DEF Base, RowsCoherent
    <2>4. QED
      BY <2>1, <2>2, <2>3
  <1>4. Fresh(d) \in Headers /\ Blank \in Headers /\ Fresh(d).index = <<>>
    <2>1. d \in Nat /\ track[d] \in Nat /\ serial[d] \in Nat
      BY RecordingAssumption DEF Base, TypeOK
    <2>2. QED
      BY <2>1 DEF Fresh, Identity, Blank, Headers, Ids, Entries
  <1>5. Fresh(d).owner = RowIdentity(fp[d])
    <2>1. row[fp[d]].dev = d /\ row[fp[d]].track = track[d] /\ row[fp[d]].serial = serial[d]
      BY <1>1, <1>3 DEF Base, RowsCoherent
    <2>2. QED
      BY <2>1 DEF Fresh, Identity, RowIdentity
  <1>6. /\ head'[d] \in Headers /\ second'[d] = now
        /\ \A e \in Devices \ {d} : head'[e] = head[e] /\ second'[e] = second[e]
        /\ head'[d].owner = Fresh(d).owner
        /\ second[d] = now => head'[d] = Fresh(d)
        /\ second[d] # now =>
              /\ Len(head'[d].index) = Len(Fresh(d).index) + 1
              /\ \A j \in 1 .. Len(Fresh(d).index) : head'[d].index[j] = Fresh(d).index[j]
              /\ head'[d].index[Len(Fresh(d).index) + 1] = [t |-> now, off |-> length[d]]
    <2>1. TypeOK /\ Blank \in Headers \cup {NoIndex} /\ length[d] \in Nat /\ Fresh(d) \in Headers
          /\ WriteIndex(d, Fresh(d), Blank, length[d])
      BY <1>1, <1>3, <1>4 DEF Base
    <2>2. QED
      BY <2>1, WriteIndexProperties
  <1>7. /\ data'[fp[d]] \in Seq(Bytes)
        /\ \A f \in Files : f # fp[d] => data'[f] = data[f]
        /\ Len(data'[fp[d]]) = Len(data[fp[d]]) + k
        /\ \A j \in 1 .. Len(data[fp[d]]) : data'[fp[d]][j] = data[fp[d]][j]
        /\ \A j \in Len(data[fp[d]]) + 1 .. Len(data[fp[d]]) + k : data'[fp[d]][j].at = now
    <2>1. TypeOK /\ fp[d] \in Files /\ k \in Nat
      BY <1>1, <1>2, <1>3 DEF Base
    <2>2. got[d] - rest[d] \in Nat /\ got[d] - rest[d] - firstwrite[d] \in Nat
      BY <1>1, <1>2, <1>3 DEF Base, TypeOK, RestFits
    <2>3. AppendData(d, k, got[d] - rest[d], got[d] - rest[d] - firstwrite[d])
      BY <1>1
    <2>4. /\ Appended(data[fp[d]], data'[fp[d]], k, got[d] - rest[d],
                      got[d] - rest[d] - firstwrite[d])
          /\ \A f \in Files : f # fp[d] => data'[f] = data[f]
      BY <2>1, <2>2, <2>3, AppendDataAppends
    <2>5. QED
      BY <2>4 DEF Appended
  <1>8. \A e \in Devices : OpenExact(e)
    BY DEF Indexing
  <1> DEFINE h == Fresh(d)
             g == head'[d]
             s == data[fp[d]]
             z == data'[fp[d]]
  <1>9. ExactFor(g, z) /\ UpTo(now, g, z)
    <2>1. /\ h \in Headers /\ g \in Headers /\ s \in Seq(Bytes) /\ z \in Seq(Bytes)
          /\ Len(z) = Len(s) + k
          /\ \A j \in 1 .. Len(s) : z[j] = s[j]
          /\ \A j \in Len(s) + 1 .. Len(s) + k : z[j].at = now
          /\ second[d] = now => g = h
          /\ second[d] # now =>
                /\ Len(g.index) = Len(h.index) + 1
                /\ \A j \in 1 .. Len(h.index) : g.index[j] = h.index[j]
          /\ s = <<>> /\ h.index = <<>>
      BY <1>2, <1>3, <1>4, <1>6, <1>7
    <2>2. second[d] # now => g.index[Len(h.index) + 1] = [t |-> now, off |-> HeaderSize + Len(s)]
      <3>1. HeaderSize + Len(s) = length[d]
        BY <1>3, RecordingAssumption
      <3>2. QED
        BY <1>6, <3>1
    <2>3. second[d] <= now /\ second[d] \in Nat
      BY <1>2, <1>8 DEF OpenExact
    <2> HIDE DEF h, g, s, z
    <2>4. ExactFor(h, s) /\ UpTo(second[d], h, s) /\ Len(h.index) < MaxIndex
      <3>1. /\ Len(h.index) = 0 /\ DOMAIN h.index = {} /\ DOMAIN s = {} /\ Len(s) = 0
            /\ MaxIndex \in Nat /\ 0 < MaxIndex
        BY <2>1, RecordingAssumption
      <3>2. QED
        BY <2>1, <3>1 DEF ExactFor, UpTo
    <2>5. QED
      <3>1. now \in Nat /\ k \in Nat
        BY <1>2
      <3>2. /\ h \in Headers /\ g \in Headers /\ s \in Seq(Bytes) /\ z \in Seq(Bytes)
            /\ Len(z) = Len(s) + k
            /\ \A j \in 1 .. Len(s) : z[j] = s[j]
            /\ \A j \in Len(s) + 1 .. Len(s) + k : z[j].at = now
            /\ second[d] = now => g = h
        BY <2>1
      <3>3. second[d] # now =>
               /\ Len(h.index) < MaxIndex
               /\ Len(g.index) = Len(h.index) + 1
               /\ \A j \in 1 .. Len(h.index) : g.index[j] = h.index[j]
               /\ g.index[Len(h.index) + 1] = [t |-> now, off |-> HeaderSize + Len(s)]
        BY <2>1, <2>2, <2>4
      <3>4. ExactFor(h, s) /\ UpTo(second[d], h, s)
        BY <2>4
      <3>5. QED
        BY <2>3, <3>1, <3>2, <3>3, <3>4, GrownExact
  <1>10. OpenExact(d)'
    <2>1. fp'[d] = fp[d] /\ now' = now /\ RowIdentity(fp[d])' = RowIdentity(fp[d])
      BY <1>1 DEF RowIdentity
    <2> HIDE DEF h, g, s, z
    <2>2. g.owner = RowIdentity(fp[d])
      BY <1>5, <1>6 DEF g
    <2>3. QED
      BY <1>2, <1>6, <1>9, <2>1, <2>2 DEF OpenExact, RowIdentity, g, z
  <1>11. \A e \in Devices \ {d} : wpc'[e] = wpc[e] /\ idxfp'[e] = idxfp[e]
    BY <1>1, <1>2
  <1>12. ASSUME NEW e \in Devices \ {d} PROVE OpenExact(e)'
    <2>1. idxfp[e] => fp[e] # fp[d] /\ fp[e] \in Files
      BY <1>2, <1>12 DEF Base, RowsCoherent, OpenCoherent
    <2>2. RowIdentity(fp[e])' = RowIdentity(fp[e])
      BY <1>1 DEF RowIdentity
    <2>3. QED
      <3>1. /\ now \in Nat /\ now' = now /\ second[e] \in Nat /\ OpenExact(e)
            /\ second'[e] = second[e] /\ head'[e] = head[e] /\ fp'[e] = fp[e]
            /\ wpc'[e] = wpc[e] /\ idxfp'[e] = idxfp[e]
        BY <1>1, <1>2, <1>6, <1>8, <1>11
      <3>2. idxfp[e] => data'[fp[e]] = data[fp[e]]
        BY <1>7, <2>1
      <3>3. QED
        BY <2>2, <3>1, <3>2, OpenExactKept
  <1>13. ASSUME NEW f \in Files PROVE ClosedExact(f)'
    <2>1. status[f] = "VIDEO" => f # fp[d]
      BY <1>3 DEF Base, OpenCoherent
    <2>2. RowIdentity(f)' = RowIdentity(f)
      BY <1>1 DEF RowIdentity
    <2>3. QED
      BY <1>1, <1>7, <2>1, <2>2, ClosedExactKept DEF Indexing
  <1>14. QED
    BY <1>10, <1>12, <1>13 DEF Indexing

\* After a crash no file is open, and the finished ones are as they were.
LEMMA CrashIndexing == Base /\ Indexing /\ Crash => Indexing'
  <1> SUFFICES ASSUME Base, Indexing, Crash PROVE Indexing'
    OBVIOUS
  <1>1. /\ idxfp' = [d \in Devices |-> FALSE] /\ second' = [d \in Devices |-> 0]
        /\ UNCHANGED <<now, status, row, repaired, hdr>>
    BY CrashStep
  <1>2. now \in Nat
    BY DEF Base, TypeOK
  <1>3. \A e \in Devices : OpenExact(e)'
    BY <1>1, <1>2 DEF OpenExact
  <1>4. ASSUME NEW f \in Files PROVE ClosedExact(f)'
    <2>1. status[f] = "VIDEO" => data'[f] = data[f]
      BY CrashKeepsData
    <2>2. RowIdentity(f)' = RowIdentity(f)
      BY <1>1 DEF RowIdentity
    <2>3. QED
      BY <1>1, <2>1, <2>2, ClosedExactKept DEF Indexing
  <1>5. QED
    BY <1>3, <1>4 DEF Indexing

\* repair_db changes no header but that of a file that was in use.
LEMMA RepairRowIndexing ==
    ASSUME Base, Indexing, NEW f \in Files, RepairRow(f)
    PROVE  Indexing'
  <1>1. /\ status[f] = "ING" /\ RowRepaired(f)
        /\ \A d \in Devices : fp[d] = 0 /\ wpc[d] = "idle"
        /\ UNCHANGED <<now, data, wpc, fp, idxfp, head, second>>
    BY RepairRowStep
  <1>2. now \in Nat /\ \A e \in Devices : second[e] \in Nat
    BY DEF Base, TypeOK
  <1>3. ASSUME NEW e \in Devices PROVE OpenExact(e)'
    <2>1. ~idxfp[e]
      BY <1>1 DEF Base, RowsCoherent
    <2>2. QED
      BY <1>1, <1>2, <2>1, OpenExactKept DEF Indexing
  <1>4. ASSUME NEW g \in Files PROVE ClosedExact(g)'
    <2>1. /\ status'[g] = "VIDEO" /\ g \notin repaired' =>
                status[g] = "VIDEO" /\ g \notin repaired /\ hdr'[g] = hdr[g]
          /\ RowIdentity(g)' = RowIdentity(g)
      BY <1>1 DEF RowRepaired, RowIdentity
    <2>2. QED
      BY <1>1, <2>1, ClosedExactKept DEF Indexing
  <1>5. QED
    BY <1>3, <1>4 DEF Indexing

\* Every step keeps Indexing.
LEMMA NextIndexing == Base /\ Indexing /\ [Next]_vars => Indexing'
  <1> SUFFICES ASSUME Base, Indexing, [Next]_vars PROVE Indexing'
    OBVIOUS
  <1>1. CASE QuietStep
    BY <1>1, QuietIndexing
  <1>2. CASE Crash
    BY <1>2, CrashIndexing
  <1>3. CASE \E f \in Files : RepairRow(f)
    BY <1>3, RepairRowIndexing
  <1>4. ASSUME NEW d \in Devices, Writer(d) PROVE Indexing'
    BY <1>1, <1>4, ReceiveIndexing, WriteFailsIndexing, CloseFileIndexing, OpenFileIndexing,
       OpenIndexIndexing DEF Writer, QuietStep
  <1>5. CASE UNCHANGED vars
    BY <1>5 DEF vars, catalogue, disk, writer, repair, Indexing, OpenExact, ClosedExact,
                RowIdentity
  <1>6. QED
    BY <1>1, <1>2, <1>3, <1>4, <1>5 DEF Next, Repair, QuietStep

\* The index of every open file is exact up to the second its writer is in, and that
\* of every file a writer has finished is exact.
THEOREM IndexingAlways == Spec => []Indexing
  <1>1. QED
    BY InitIndexing, NextIndexing, BaseAlways, PTL DEF Spec

\* The header by which playback seeks is the file's own and its index is exact,
\* whatever second, full block or full index made the writer change files
\* (data_writer.cpp write_index, re_open_idx and close_file).
THEOREM IndexExactAlways == Spec => []IndexExact
  <1>1. QED
    BY IndexingIsExact, IndexingAlways, PTL
-------------------------------------------------------------------------------
(* Streaming: the files of a track hold its bytes in their order.          *)

\* The positions of the bytes of s follow each other.
InRow(s) == \A k \in DOMAIN s : s[k].pos = s[1].pos + k - 1

\* n bytes from position from on are added to s, which ends with the byte before:
\* then the positions of the new bytes z follow each other as well.
LEMMA GrownInRow ==
    ASSUME NEW s \in Seq(Bytes), NEW z, NEW n \in Nat, NEW from \in Nat, NEW first,
           Appended(s, z, n, from, first),
           InRow(s), s # <<>> => from = s[Len(s)].pos + 1
    PROVE  /\ InRow(z)
           /\ s # <<>> => z # <<>> /\ z[1] = s[1]
           /\ s = <<>> /\ z # <<>> => z[1].pos = from
           /\ n > 0 => z # <<>>
           /\ z # <<>> => from + n = z[Len(z)].pos + 1
  <1>0. /\ z \in Seq(Bytes) /\ Len(z) = Len(s) + n
        /\ \A k \in 1 .. Len(s) : z[k] = s[k]
        /\ \A k \in Len(s) + 1 .. Len(s) + n : z[k].pos = from + k - Len(s) - 1
    BY DEF Appended
  <1>1. /\ Len(s) \in Nat /\ Len(z) \in Nat /\ DOMAIN s = 1 .. Len(s) /\ DOMAIN z = 1 .. Len(z)
        /\ s # <<>> <=> Len(s) > 0
        /\ z # <<>> <=> Len(z) > 0
    BY <1>0
  <1>2. \A k \in DOMAIN s : s[k].pos \in Nat
    <2>1. \A k \in DOMAIN s : s[k] \in Bytes
      BY <1>1, ElementOfSeq
    <2>2. QED
      BY <2>1 DEF Bytes
  <1>3. s # <<>> => z # <<>> /\ z[1] = s[1]
    BY <1>0, <1>1
  <1>4. n > 0 => z # <<>>
    BY <1>0, <1>1
  <1>5. s = <<>> /\ z # <<>> => z[1].pos = from
    BY <1>0, <1>1
  <1>6. s # <<>> => s[1].pos \in Nat /\ from = s[1].pos + Len(s)
    <2>1. ASSUME s # <<>> PROVE s[Len(s)].pos = s[1].pos + Len(s) - 1 /\ s[1].pos \in Nat
      BY <1>1, <1>2, <2>1 DEF InRow
    <2>2. QED
      BY <1>1, <2>1
  <1>7. ASSUME NEW k \in DOMAIN z
        PROVE  z[k].pos = z[1].pos + k - 1
    <2>1. CASE k \in DOMAIN s
      <3>1. z[k] = s[k] /\ z[1] = s[1]
        BY <1>0, <1>1, <1>3, <2>1
      <3>2. QED
        BY <2>1, <3>1 DEF InRow
    <2>2. CASE k \notin DOMAIN s
      <3>1. z[k].pos = from + k - Len(s) - 1
        BY <1>0, <1>1, <2>2
      <3>2. CASE s # <<>>
        BY <1>1, <1>3, <1>6, <3>1, <3>2
      <3>3. CASE s = <<>>
        BY <1>1, <1>5, <3>1, <3>3
      <3>4. QED
        BY <3>2, <3>3
    <2>3. QED
      BY <2>1, <2>2
  <1>8. z # <<>> => from + n = z[Len(z)].pos + 1
    <2>1. ASSUME z # <<>> PROVE z[Len(z)].pos = z[1].pos + Len(z) - 1
      BY <1>1, <1>7, <2>1
    <2>2. CASE s # <<>>
      <3>1. s[1].pos \in Nat /\ from = s[1].pos + Len(s) /\ z[1] = s[1] /\ Len(z) = Len(s) + n
        BY <1>0, <1>3, <1>6, <2>2
      <3>2. z[Len(z)].pos = s[1].pos + Len(z) - 1
        BY <1>3, <2>1, <2>2, <3>1
      <3>3. Len(s) \in Nat /\ Len(z) \in Nat
        BY <1>1
      <3> DEFINE a == s[1].pos
                 b == z[Len(z)].pos
                 l == Len(s)
                 m == Len(z)
      <3>4. a \in Nat /\ from = a + l /\ m = l + n /\ b = a + m - 1 /\ l \in Nat /\ m \in Nat
        BY <3>1, <3>2, <3>3
      <3> HIDE DEF a, b, l, m
      <3>5. from + n = b + 1
        BY <3>4
      <3>6. QED
        BY <3>5 DEF b
    <2>3. CASE s = <<>> /\ z # <<>>
      <3>1. Len(s) = 0
        BY <1>1, <2>3
      <3>2. QED
        BY <1>0, <1>1, <1>5, <2>1, <2>3, <3>1
    <2>4. QED
      BY <2>2, <2>3
  <1>9. QED
    BY <1>3, <1>4, <1>5, <1>7, <1>8 DEF InRow

\* A step that leaves camera e and its files alone.
Untouched(e) ==
    /\ wpc'[e] = wpc[e] /\ fp'[e] = fp[e] /\ serial'[e] = serial[e] /\ track'[e] = track[e]
    /\ got'[e] = got[e] /\ rest'[e] = rest[e] /\ length'[e] = length[e] /\ head'[e] = head[e]
    /\ fp[e] # 0 => data'[fp[e]] = data[fp[e]] /\ row'[fp[e]] = row[fp[e]]
    /\ \A f \in Files : status'[f] # "NEW" /\ row'[f].dev = e =>
          /\ status'[f] = status[f] /\ row'[f] = row[f] /\ (f \in repaired' => f \in repaired)
          /\ hdr'[f] = hdr[f] /\ data'[f] = data[f]

\* It leaves the stream of e alone.
LEMMA UntouchedKept ==
    ASSUME NEW e \in Devices, Numbered(e), GoesOn(e), Untouched(e),
           wpc[e] \in {"close", "index"} => fp[e] # 0
    PROVE  Numbered(e)' /\ GoesOn(e)'
  <1>1. ASSUME NEW f \in Files, InTrack(f, e)'
        PROVE  /\ InTrack(f, e) /\ status'[f] = status[f] /\ row'[f] = row[f]
               /\ (f \in repaired' => f \in repaired) /\ hdr'[f] = hdr[f] /\ data'[f] = data[f]
    BY <1>1 DEF InTrack, Untouched
  <1>2. Numbered(e)'
    <2>1. \A f \in Files : status'[f] # "NEW" /\ row'[f].dev = e => row'[f].track <= track'[e]
      BY DEF Untouched, Numbered
    <2>2. ASSUME NEW f \in Files, InTrack(f, e)'
          PROVE  /\ wpc'[e] \in {"run", "open", "close"} => row'[f].serial < serial'[e]
                 /\ fp'[e] # 0 => row'[f].serial < row'[fp'[e]].serial \/ f = fp'[e]
      BY <1>1, <2>2 DEF Untouched, Numbered
    <2>3. fp'[e] # 0 /\ wpc'[e] \in {"run", "close"} => row'[fp'[e]].serial + 1 = serial'[e]
      BY DEF Untouched, Numbered
    <2>4. QED
      BY <2>1, <2>2, <2>3 DEF Numbered
  <1>3. ASSUME NEW s \in Nat, Begins(e, s)'
        PROVE  Continues(e, s)'
    <2>1. Begins(e, s)
      BY <1>3 DEF Untouched, Begins
    <2>2. Continues(e, s)
      BY <2>1 DEF GoesOn
    <2>3. NextByte(e)' = NextByte(e)
      BY DEF Untouched, NextByte
    <2>4. QED
      BY <1>1, <2>2, <2>3 DEF Continues
  <1>4. NextByte(e)' = NextByte(e)
    BY DEF Untouched, NextByte
  <1>5. QED
    BY <1>2, <1>3, <1>4 DEF Untouched, GoesOn

\* The next bytes of its track go into the file a writer has open: that file goes on
\* where it ended, or where the file before it ended.
LEMMA GrownStream ==
    ASSUME Base, Gapless, NEW d \in Devices, fp[d] # 0,
           data[fp[d]] # <<>> => NextByte(d) = data[fp[d]][Len(data[fp[d]])].pos + 1,
           data[fp[d]] = <<>> => Continues(d, row[fp[d]].serial),
           NEW n \in Nat, NextByte(d) \in Nat, NEW first \in Nat, AppendData(d, n, NextByte(d), first),
           UNCHANGED <<status, row, repaired, hdr, fp>>
    PROVE  /\ Gapless'
           /\ n > 0 => data'[fp[d]] # <<>>
           /\ data[fp[d]] # <<>> => data'[fp[d]] # <<>>
           /\ data'[fp[d]] # <<>> =>
                 NextByte(d) + n = data'[fp[d]][Len(data'[fp[d]])].pos + 1
  <1> DEFINE s == data[fp[d]]
             z == data'[fp[d]]
             from == NextByte(d)
  <1>1. fp[d] \in Files /\ s \in Seq(Bytes) /\ status[fp[d]] = "ING"
    BY DEF Base, TypeOK, OpenCoherent
  <1>2. /\ Appended(s, z, n, from, first)
        /\ \A f \in Files : f # fp[d] => data'[f] = data[f]
    <2>1. TypeOK
      BY DEF Base
    <2>2. QED
      BY <1>1, <2>1, AppendDataAppends
  <1>3. InRow(s)
    BY <1>1 DEF Gapless, InRow
  <1>4. s # <<>> => from = s[Len(s)].pos + 1
    OBVIOUS
  <1>5. /\ InRow(z)
        /\ s # <<>> => z # <<>> /\ z[1] = s[1]
        /\ s = <<>> /\ z # <<>> => z[1].pos = from
        /\ n > 0 => z # <<>>
        /\ z # <<>> => from + n = z[Len(z)].pos + 1
    <2> HIDE DEF s, z, from
    <2>1. from \in Nat
      BY DEF from
    <2>2. QED
      BY <1>1, <1>2, <1>3, <1>4, <2>1, GrownInRow
  <1>6. \A f \in Files : \A k \in DOMAIN data'[f] : data'[f][k].pos = data'[f][1].pos + k - 1
    <2>1. ASSUME NEW f \in Files PROVE InRow(data'[f])
      <3>1. CASE f = fp[d]
        BY <1>5, <3>1
      <3>2. CASE f # fp[d]
        BY <1>2, <3>2 DEF Gapless, InRow
      <3>3. QED
        BY <3>1, <3>2
    <2>2. QED
      BY <2>1 DEF InRow
  <1>7. ASSUME NEW f \in Files, status'[f] # "NEW", row'[f].serial = 0, data'[f] # <<>>
        PROVE  data'[f][1].pos = 0
    <2>1. CASE f # fp[d]
      BY <1>2, <1>7, <2>1 DEF Gapless
    <2>2. CASE f = fp[d] /\ s # <<>>
      BY <1>1, <1>5, <1>7, <2>2 DEF Gapless
    <2>3. CASE f = fp[d] /\ s = <<>>
      <3>1. NextByte(d) = 0
        BY <1>7, <2>3 DEF Continues
      <3>2. QED
        BY <1>5, <1>7, <2>3, <3>1
    <2>4. QED
      BY <2>1, <2>2, <2>3
  <1>8. ASSUME NEW f \in Files, NEW g \in Files, Follows(f, g)'
        PROVE  /\ status'[f] = "VIDEO" /\ f \notin repaired'
               /\ row'[f].len = BlockSize \/ Len(hdr'[f].index) = MaxIndex
               /\ data'[f] # <<>>
               /\ data'[g] # <<>> => data'[g][1].pos = data'[f][Len(data'[f])].pos + 1
    <2>1. Follows(f, g)
      BY <1>8 DEF Follows
    <2>2. /\ status[f] = "VIDEO" /\ f \notin repaired
          /\ row[f].len = BlockSize \/ Len(hdr[f].index) = MaxIndex
          /\ data[f] # <<>>
          /\ data[g] # <<>> => data[g][1].pos = data[f][Len(data[f])].pos + 1
      BY <2>1 DEF Gapless
    <2>3. data'[f] = data[f]
      BY <1>1, <1>2, <2>2
    <2>4. data'[g] # <<>> => data'[g][1].pos = data'[f][Len(data'[f])].pos + 1
      <3>1. CASE g # fp[d]
        BY <1>2, <2>2, <2>3, <3>1
      <3>2. CASE g = fp[d] /\ s # <<>>
        BY <1>5, <2>2, <2>3, <3>2
      <3>3. CASE g = fp[d] /\ s = <<>>
        <4>1. InTrack(f, d) /\ row[f].serial + 1 = row[fp[d]].serial
          <5>1. row[fp[d]].dev = d /\ row[fp[d]].track = track[d]
            BY DEF Base, RowsCoherent
          <5>2. QED
            BY <2>1, <3>3, <5>1 DEF Follows, InTrack
        <4>2. NextByte(d) = data[f][Len(data[f])].pos + 1
          BY <3>3, <4>1 DEF Continues
        <4>3. QED
          BY <1>5, <2>3, <3>3, <4>2
      <3>4. QED
        BY <3>1, <3>2, <3>3
    <2>5. QED
      BY <2>2, <2>3, <2>4
  <1>9. Gapless'
    BY <1>6, <1>7, <1>8 DEF Gapless
  <1>10. QED
    BY <1>5, <1>9

\* Streaming holds at first.
LEMMA InitStreaming == Init => Streaming
  <1> SUFFICES ASSUME Init PROVE Streaming
    OBVIOUS
  <1>1. /\ \A d \in Devices : wpc[d] = "idle" /\ fp[d] = 0
        /\ \A f \in Files : status[f] = "NEW" /\ data[f] = <<>>
    BY DEF Init
  <1>2. \A d \in Devices : Numbered(d) /\ GoesOn(d)
    BY <1>1 DEF Numbered, InTrack, GoesOn, Begins
  <1>3. Gapless
    BY <1>1 DEF Gapless, Follows
  <1>4. QED
    BY <1>2, <1>3 DEF Streaming

\* A quiet step leaves the files alone; a writer that begins records a new track.
LEMMA QuietStreaming == Base /\ Streaming /\ QuietStep => Streaming'
  <1> SUFFICES ASSUME Base, Streaming, QuietStep PROVE Streaming'
    OBVIOUS
  <1>1. UNCHANGED <<status, row, repaired, data, hdr, fp, length, head, rest>>
    BY DEF QuietStep, Tick, Restart, RepairDone, StartWriter, EndWriter, EndClosed, catalogue,
           disk, writer, repair
  <1>2. Gapless'
    BY <1>1 DEF Streaming, Gapless, Follows
  <1>3. /\ wpc \in [Devices -> {"idle", "run", "close", "open", "index", "end"}]
        /\ serial \in [Devices -> Nat] /\ track \in [Devices -> Nat] /\ got \in [Devices -> Nat]
    BY DEF Base, TypeOK
  <1>4. \A e \in Devices : /\ Numbered(e) /\ GoesOn(e)
                           /\ wpc[e] \in {"close", "index"} => fp[e] # 0
    BY DEF Base, OpenCoherent, Streaming
  <1>5. CASE Tick \/ Restart \/ RepairDone
    <2>1. UNCHANGED <<wpc, serial, track, got>>
      BY <1>5 DEF Tick, Restart, RepairDone, writer
    <2>2. \A e \in Devices : Untouched(e)
      BY <1>1, <2>1 DEF Untouched
    <2>3. QED
      BY <1>2, <1>4, <2>2, UntouchedKept DEF Streaming
  <1>6. ASSUME NEW d \in Devices, EndWriter(d) \/ EndClosed(d) PROVE Streaming'
    <2>1. /\ UNCHANGED <<serial, track, got>>
          /\ wpc'[d] \in {"end", "idle"} /\ \A e \in Devices \ {d} : wpc'[e] = wpc[e]
      <3>1. CASE EndWriter(d)
        BY <1>3, <3>1 DEF EndWriter, writer
      <3>2. CASE EndClosed(d)
        BY <1>3, <3>2 DEF EndClosed, writer
      <3>3. QED
        BY <1>6, <3>1, <3>2
    <2>2. \A e \in Devices \ {d} : Untouched(e)
      BY <1>1, <2>1 DEF Untouched
    <2>3. Numbered(d)' /\ GoesOn(d)'
      BY <1>1, <1>4, <2>1 DEF Numbered, InTrack, GoesOn, Begins
    <2>4. QED
      BY <1>2, <1>4, <2>2, <2>3, UntouchedKept DEF Streaming
  <1>7. ASSUME NEW d \in Devices, StartWriter(d) PROVE Streaming'
    <2>1. /\ wpc[d] = "idle" /\ wpc'[d] = "run" /\ track'[d] = track[d] + 1 /\ serial'[d] = 0
          /\ got'[d] = 0
          /\ \A e \in Devices \ {d} : /\ wpc'[e] = wpc[e] /\ track'[e] = track[e]
                                      /\ serial'[e] = serial[e] /\ got'[e] = got[e]
      BY <1>3, <1>7 DEF StartWriter
    <2>2. fp[d] = 0
      BY <2>1 DEF Base, OpenCoherent
    <2>3. \A e \in Devices \ {d} : Untouched(e)
      BY <1>1, <2>1 DEF Untouched
    <2>4. \A f \in Files : status[f] # "NEW" /\ row[f].dev = d =>
             row[f].track \in Nat /\ row[f].track <= track[d]
      <3>1. \A f \in Files : row[f].track \in Nat
        BY DEF Base, TypeOK, Rows
      <3>2. QED
        BY <1>4, <3>1 DEF Numbered
    <2>5. \A f \in Files : ~InTrack(f, d)'
      BY <1>1, <1>3, <2>1, <2>4 DEF InTrack
    <2>6. Numbered(d)'
      BY <1>1, <1>3, <2>1, <2>2, <2>4, <2>5 DEF Numbered
    <2>7. GoesOn(d)'
      BY <1>1, <2>1, <2>2 DEF GoesOn, Begins
    <2>8. QED
      BY <1>2, <1>4, <2>3, <2>6, <2>7, UntouchedKept DEF Streaming
  <1>8. QED
    BY <1>5, <1>6, <1>7 DEF QuietStep

\* Only camera d and its open file change.
LEMMA OthersUntouched ==
    ASSUME Base, NEW d \in Devices, UNCHANGED <<status, row, repaired, hdr, fp, track>>,
           \A e \in Devices \ {d} :
              /\ wpc'[e] = wpc[e] /\ serial'[e] = serial[e] /\ got'[e] = got[e]
              /\ rest'[e] = rest[e] /\ length'[e] = length[e] /\ head'[e] = head[e],
           \A f \in Files : f # fp[d] => data'[f] = data[f]
    PROVE  \A e \in Devices \ {d} : Untouched(e)
  <1> SUFFICES ASSUME NEW e \in Devices \ {d} PROVE Untouched(e)
    OBVIOUS
  <1>1. fp[e] # 0 => fp[e] \in Files /\ fp[e] # fp[d]
    BY DEF Base, TypeOK, OpenCoherent
  <1>2. \A f \in Files : row[f].dev = e /\ f = fp[d] => FALSE
    <2>1. fp[d] \in Files => row[fp[d]].dev = d
      BY RecordingAssumption DEF Base, RowsCoherent
    <2>2. QED
      BY <2>1
  <1>3. QED
    BY <1>1, <1>2 DEF Untouched

\* What each camera's stream is about is of its types.
LEMMA StreamTypes ==
    ASSUME Base, NEW d \in Devices
    PROVE  /\ got[d] \in Nat /\ rest[d] \in Nat /\ serial[d] \in Nat /\ track[d] \in Nat
           /\ \A f \in Files : row[f].serial \in Nat /\ row[f].track \in Nat
           /\ wpc[d] \in {"close", "index"} => fp[d] # 0
           /\ fp[d] # 0 => fp[d] \in Files /\ InTrack(fp[d], d)
  <1>1. got[d] \in Nat /\ rest[d] \in Nat /\ serial[d] \in Nat /\ track[d] \in Nat
    BY DEF Base, TypeOK
  <1>2. \A f \in Files : row[f].serial \in Nat /\ row[f].track \in Nat
    BY DEF Base, TypeOK, Rows
  <1>3. wpc[d] \in {"close", "index"} => fp[d] # 0
    BY DEF Base, OpenCoherent
  <1>4. fp[d] # 0 => fp[d] \in Files /\ InTrack(fp[d], d)
    <2>1. fp[d] # 0 => fp[d] \in Files
      BY DEF Base, TypeOK
    <2>2. QED
      BY <2>1 DEF Base, OpenCoherent, RowsCoherent, InTrack
  <1>5. QED
    BY <1>1, <1>2, <1>3, <1>4

\* The bytes of a buffer go on where the track ends; what does not fit waits for the
\* next file.
LEMMA ReceiveStreaming ==
    ASSUME Base, Indexing, Streaming, NEW d \in Devices, NEW n \in Chunks, Receive(d, n)
    PROVE  Streaming'
  <1>1. /\ wpc[d] = "run" /\ got' = [got EXCEPT ![d] = @ + n]
        /\ UNCHANGED <<status, row, repaired, fp, track, serial, idxfp>>
    BY DEF Receive, catalogue
  <1>2. /\ wpc \in [Devices -> {"idle", "run", "close", "open", "index", "end"}]
        /\ got \in [Devices -> Nat] /\ rest \in [Devices -> Nat] /\ length \in [Devices -> Nat]
        /\ n \in Nat /\ n > 0
    BY RecordingAssumption DEF Base, TypeOK
  <1>3. /\ Gapless
        /\ \A e \in Devices : /\ Numbered(e) /\ GoesOn(e)
                              /\ wpc[e] \in {"close", "index"} => fp[e] # 0
    BY DEF Base, OpenCoherent, Streaming
  <1>4. got'[d] = got[d] + n /\ \A e \in Devices \ {d} : got'[e] = got[e]
    BY <1>1, <1>2
  <1>5. /\ got[d] \in Nat /\ rest[d] \in Nat /\ serial[d] \in Nat
        /\ \A f \in Files : row[f].serial \in Nat
    BY StreamTypes
  <1>6. CASE ReceiveFirst(d, n)
    <2>1. /\ fp[d] = 0 /\ rest'[d] = n /\ wpc'[d] = "open"
          /\ UNCHANGED <<data, hdr, length, head>>
          /\ \A e \in Devices \ {d} : rest'[e] = rest[e] /\ wpc'[e] = wpc[e]
      BY <1>2, <1>6 DEF ReceiveFirst, disk
    <2>2. got[d] = 0 /\ serial[d] = 0
      BY <1>1, <1>3, <2>1 DEF GoesOn
    <2>3. \A e \in Devices \ {d} : Untouched(e)
      BY <1>1, <1>4, <2>1, OthersUntouched
    <2>4. Numbered(d)'
      BY <1>1, <1>3, <2>1 DEF Numbered, InTrack
    <2>5. NextByte(d)' = 0
      BY <1>2, <1>4, <2>1, <2>2 DEF NextByte
    <2>6. ASSUME NEW s \in Nat, Begins(d, s)' PROVE Continues(d, s)'
      <3>1. s = 0
        BY <1>1, <2>1, <2>2, <2>6 DEF Begins
      <3>2. \A f \in Files : row'[f].serial + 1 # s
        BY <1>1, <1>5, <3>1
      <3>3. QED
        BY <2>5, <3>2 DEF Continues
    <2>7. GoesOn(d)'
      BY <1>1, <2>1, <2>6 DEF GoesOn
    <2>8. Gapless'
      BY <1>1, <1>3, <2>1 DEF Gapless, Follows
    <2>9. QED
      BY <1>3, <2>3, <2>4, <2>7, <2>8, UntouchedKept DEF Streaming
  <1>7. CASE ReceiveIndexFull(d, n)
    <2>1. /\ fp[d] # 0 /\ rest'[d] = n /\ wpc'[d] = "close"
          /\ UNCHANGED <<data, hdr, length, head>>
          /\ \A e \in Devices \ {d} : rest'[e] = rest[e] /\ wpc'[e] = wpc[e]
      BY <1>2, <1>7 DEF ReceiveIndexFull, disk
    <2>2. rest[d] = 0 /\ (data[fp[d]] = <<>> => Len(head[d].index) <= 1)
      BY <1>1, <1>3, <2>1 DEF GoesOn
    <2>3. \A e \in Devices \ {d} : Untouched(e)
      BY <1>1, <1>4, <2>1, OthersUntouched
    <2>4. Numbered(d)'
      BY <1>1, <1>3, <2>1 DEF Numbered, InTrack
    <2>5. NextByte(d)' = NextByte(d)
      BY <1>2, <1>4, <1>5, <2>1, <2>2 DEF NextByte
    <2>6. Len(head[d].index) = MaxIndex /\ data[fp[d]] # <<>>
      <3>1. idxfp[d]
        BY <1>1, <2>1 DEF Base, RowsCoherent
      <3>2. Len(head[d].index) <= MaxIndex
        BY <3>1 DEF Indexing, OpenExact, ExactFor
      <3>3. Len(head[d].index) >= MaxIndex
        BY <1>7 DEF ReceiveIndexFull, IndexFull
      <3>4. Len(head[d].index) \in Nat /\ MaxIndex \in Nat /\ MaxIndex > 1
        <4>1. head[d] \in Headers
          BY DEF Base, TypeOK
        <4>2. QED
          BY <4>1, RecordingAssumption DEF Headers
      <3>5. QED
        BY <2>2, <3>2, <3>3, <3>4
    <2>7. NextByte(d) = data[fp[d]][Len(data[fp[d]])].pos + 1
      BY <1>1, <1>3, <2>1, <2>6 DEF GoesOn
    <2>8. GoesOn(d)'
      BY <1>1, <2>1, <2>5, <2>6, <2>7 DEF GoesOn, Begins
    <2>9. Gapless'
      BY <1>1, <1>3, <2>1 DEF Gapless, Follows
    <2>10. QED
      BY <1>3, <2>3, <2>4, <2>8, <2>9, UntouchedKept DEF Streaming
  <1>8. CASE ReceiveInto(d, n)
    <2>1. /\ fp[d] # 0 /\ ~IndexFull(d) /\ UNCHANGED hdr
          /\ WriteIndex(d, head[d], idx[d], length[d])
          /\ AppendData(d, Fit(d, n), got[d], got[d])
          /\ length' = [length EXCEPT ![d] = @ + Fit(d, n)]
          /\ rest' = [rest EXCEPT ![d] = Left(d, n)]
          /\ wpc' = [wpc EXCEPT ![d] = IF length[d] + n < BlockSize THEN "run" ELSE "close"]
      BY <1>8 DEF ReceiveInto
    <2>2. /\ length[d] \in Nat /\ length[d] < BlockSize /\ BlockSize \in Nat
      BY <1>1, <2>1, RecordingAssumption DEF Base, FitsBlock, TypeOK
    <2>3. /\ Fit(d, n) \in Nat /\ Fit(d, n) > 0
          /\ Left(d, n) = n - Fit(d, n)
          /\ length[d] + n < BlockSize => Fit(d, n) = n
          /\ ~(length[d] + n < BlockSize) => length[d] + Fit(d, n) = BlockSize
      BY <1>2, <2>2 DEF Fit, Left
    <2>4. /\ length'[d] = length[d] + Fit(d, n) /\ rest'[d] = n - Fit(d, n)
          /\ wpc'[d] = (IF length[d] + n < BlockSize THEN "run" ELSE "close")
          /\ \A e \in Devices \ {d} : /\ length'[e] = length[e] /\ rest'[e] = rest[e]
                                      /\ wpc'[e] = wpc[e]
      BY <1>2, <2>1, <2>3
    <2>5. rest[d] = 0 /\ NextByte(d) = got[d]
      <3>1. rest[d] = 0
        BY <1>1, <1>3, <2>1 DEF GoesOn
      <3>2. QED
        BY <1>5, <3>1 DEF NextByte
    <2>6. \A e \in Devices \ {d} : head'[e] = head[e]
      <3>1. TypeOK /\ head[d] \in Headers /\ idx[d] \in Headers \cup {NoIndex}
        BY DEF Base, TypeOK
      <3>2. QED
        BY <2>1, <2>2, <3>1, WriteIndexProperties
    <2>7. \A f \in Files : f # fp[d] => data'[f] = data[f]
      <3>1. TypeOK /\ fp[d] \in Files
        BY <2>1 DEF Base, TypeOK
      <3>2. QED
        BY <1>5, <2>1, <2>3, <3>1, AppendDataProperties
    <2>8. \A e \in Devices \ {d} : Untouched(e)
      BY <1>1, <1>4, <2>1, <2>4, <2>6, <2>7, OthersUntouched
    <2>9. /\ Gapless'
          /\ data'[fp[d]] # <<>>
          /\ NextByte(d) + Fit(d, n) = data'[fp[d]][Len(data'[fp[d]])].pos + 1
      <3>1. data[fp[d]] # <<>> => NextByte(d) = data[fp[d]][Len(data[fp[d]])].pos + 1
        BY <1>1, <1>3, <2>1 DEF GoesOn
      <3>2. data[fp[d]] = <<>> => Continues(d, row[fp[d]].serial)
        <4>1. row[fp[d]].serial \in Nat
          BY <2>1, StreamTypes
        <4>2. data[fp[d]] = <<>> => Begins(d, row[fp[d]].serial)
          BY <1>1, <2>1 DEF Begins
        <4>3. QED
          BY <1>3, <4>1, <4>2 DEF GoesOn
      <3>3. AppendData(d, Fit(d, n), NextByte(d), got[d]) /\ NextByte(d) \in Nat
        BY <1>5, <2>1, <2>5
      <3>4. fp[d] # 0 /\ Gapless /\ UNCHANGED <<status, row, repaired, hdr, fp>>
        BY <1>1, <1>3, <2>1
      <3>5. Fit(d, n) \in Nat /\ got[d] \in Nat /\ Fit(d, n) > 0
        BY <1>5, <2>3
      <3>6. QED
        BY <3>1, <3>2, <3>3, <3>4, <3>5, GrownStream
    <2>10. Numbered(d)'
      <3>1. wpc'[d] \in {"run", "close"}
        BY <2>4
      <3>2. QED
        BY <1>1, <1>3, <3>1 DEF Numbered, InTrack
    <2>11. NextByte(d)' = NextByte(d) + Fit(d, n)
      BY <1>2, <1>4, <1>5, <2>3, <2>4, <2>5 DEF NextByte
    <2>12. GoesOn(d)'
      <3>1. fp'[d] = fp[d] /\ wpc'[d] \in {"run", "close"}
        BY <1>1, <2>4
      <3>2. wpc'[d] = "run" => rest'[d] = 0
        BY <1>2, <2>3, <2>4
      <3>3. wpc'[d] = "close" => length'[d] = BlockSize
        BY <2>3, <2>4
      <3>4. \A s \in Nat : ~Begins(d, s)'
        BY <2>9, <3>1 DEF Begins
      <3>5. QED
        BY <2>1, <2>9, <2>11, <3>1, <3>2, <3>3, <3>4 DEF GoesOn
    <2>13. QED
      BY <1>3, <2>8, <2>9, <2>10, <2>12, UntouchedKept DEF Streaming
  <1>9. QED
    BY <1>6, <1>7, <1>8 DEF Receive

\* Of a write that fails the file holds the first bytes, and its writer ends.
LEMMA WriteFailsStreaming ==
    ASSUME Base, Streaming, NEW d \in Devices, NEW k \in 0 .. BlockSize, WriteFails(d, k)
    PROVE  Streaming'
  <1>1. /\ wpc[d] = "run" /\ fp[d] # 0
        /\ WriteIndex(d, head[d], idx[d], length[d])
        /\ AppendData(d, k, got[d], got[d])
        /\ wpc' = [wpc EXCEPT ![d] = "end"]
        /\ UNCHANGED <<status, row, repaired, hdr, fp, length, serial, rest, track, got>>
    BY DEF WriteFails, catalogue
  <1>2. /\ wpc \in [Devices -> {"idle", "run", "close", "open", "index", "end"}]
        /\ k \in Nat /\ fp[d] \in Files
    BY <1>1, RecordingAssumption DEF Base, TypeOK
  <1>3. /\ Gapless
        /\ \A e \in Devices : /\ Numbered(e) /\ GoesOn(e)
                              /\ wpc[e] \in {"close", "index"} => fp[e] # 0
    BY DEF Base, OpenCoherent, Streaming
  <1>4. got[d] \in Nat /\ rest[d] \in Nat /\ row[fp[d]].serial \in Nat
    BY <1>2, StreamTypes
  <1>5. NextByte(d) = got[d]
    <2>1. rest[d] = 0
      BY <1>1, <1>3 DEF GoesOn
    <2>2. QED
      BY <1>4, <2>1 DEF NextByte
  <1>6. wpc'[d] = "end" /\ \A e \in Devices \ {d} : wpc'[e] = wpc[e]
    BY <1>1, <1>2
  <1>7. \A e \in Devices \ {d} : head'[e] = head[e]
    <2>1. /\ TypeOK /\ head[d] \in Headers /\ idx[d] \in Headers \cup {NoIndex}
          /\ length[d] \in Nat
      BY DEF Base, TypeOK
    <2>2. QED
      BY <1>1, <2>1, WriteIndexProperties
  <1>8. \A f \in Files : f # fp[d] => data'[f] = data[f]
    <2>1. TypeOK
      BY DEF Base
    <2>2. QED
      BY <1>1, <1>2, <1>4, <2>1, AppendDataProperties
  <1>9. \A e \in Devices \ {d} : Untouched(e)
    BY <1>1, <1>6, <1>7, <1>8, OthersUntouched
  <1>10. Gapless'
    <2>1. data[fp[d]] # <<>> => NextByte(d) = data[fp[d]][Len(data[fp[d]])].pos + 1
      BY <1>1, <1>3 DEF GoesOn
    <2>2. data[fp[d]] = <<>> => Continues(d, row[fp[d]].serial)
      <3>1. data[fp[d]] = <<>> => Begins(d, row[fp[d]].serial)
        BY <1>1 DEF Begins
      <3>2. QED
        BY <1>3, <1>4, <3>1 DEF GoesOn
    <2>3. AppendData(d, k, NextByte(d), got[d]) /\ NextByte(d) \in Nat
      BY <1>1, <1>4, <1>5
    <2>4. /\ fp[d] # 0 /\ Gapless /\ UNCHANGED <<status, row, repaired, hdr, fp>>
          /\ k \in Nat /\ got[d] \in Nat
      BY <1>1, <1>2, <1>3, <1>4
    <2>5. QED
      BY <2>1, <2>2, <2>3, <2>4, GrownStream
  <1>11. Numbered(d)'
    BY <1>1, <1>3, <1>6 DEF Numbered, InTrack
  <1>12. GoesOn(d)'
    BY <1>6 DEF GoesOn, Begins
  <1>13. QED
    BY <1>3, <1>9, <1>10, <1>11, <1>12, UntouchedKept DEF Streaming

\* A file is left for the next one when it is full, and the next one goes on there.
LEMMA CloseFileStreaming ==
    ASSUME Base, Streaming, NEW d \in Devices, CloseFile(d)
    PROVE  Streaming'
  <1>1. /\ wpc[d] \in {"close", "end"} /\ fp[d] # 0
        /\ hdr' = [hdr EXCEPT ![fp[d]] = head[d]]
        /\ status' = [status EXCEPT ![fp[d]] = "VIDEO"]
        /\ row' = [row EXCEPT ![fp[d]].len = length[d]]
        /\ repaired' = repaired \ {fp[d]}
        /\ fp' = [fp EXCEPT ![d] = 0]
        /\ wpc' = [wpc EXCEPT ![d] = IF wpc[d] = "close" THEN "open" ELSE "idle"]
        /\ UNCHANGED <<data, length, head, serial, rest, track, got>>
    BY DEF CloseFile
  <1>2. /\ wpc \in [Devices -> {"idle", "run", "close", "open", "index", "end"}]
        /\ fp \in [Devices -> Files \cup {0}] /\ fp[d] \in Files
        /\ hdr \in [Files -> Headers] /\ status \in [Files -> {"NEW", "ING", "VIDEO"}]
        /\ row \in [Files -> Rows]
    BY <1>1 DEF Base, TypeOK
  <1>3. /\ Gapless
        /\ \A e \in Devices : /\ Numbered(e) /\ GoesOn(e)
                              /\ wpc[e] \in {"close", "index"} => fp[e] # 0
    BY DEF Base, OpenCoherent, Streaming
  <1>4. /\ got[d] \in Nat /\ rest[d] \in Nat /\ serial[d] \in Nat
        /\ \A f \in Files : row[f].serial \in Nat
    BY StreamTypes
  <1>5. /\ hdr'[fp[d]] = head[d] /\ status'[fp[d]] = "VIDEO" /\ status[fp[d]] = "ING"
        /\ \A f \in Files \ {fp[d]} : hdr'[f] = hdr[f] /\ status'[f] = status[f]
    BY <1>1, <1>2 DEF Base, OpenCoherent
  <1>6. /\ fp'[d] = 0 /\ wpc'[d] = (IF wpc[d] = "close" THEN "open" ELSE "idle")
        /\ \A e \in Devices \ {d} : fp'[e] = fp[e] /\ wpc'[e] = wpc[e]
    BY <1>1, <1>2
  <1>7. /\ row'[fp[d]].len = length[d]
        /\ \A f \in Files : /\ row'[f].dev = row[f].dev /\ row'[f].track = row[f].track
                            /\ row'[f].serial = row[f].serial
        /\ \A f \in Files \ {fp[d]} : row'[f] = row[f]
    <2>1. row[fp[d]] \in Rows
      BY <1>2
    <2>2. /\ [row[fp[d]] EXCEPT !.len = length[d]].dev = row[fp[d]].dev
          /\ [row[fp[d]] EXCEPT !.len = length[d]].track = row[fp[d]].track
          /\ [row[fp[d]] EXCEPT !.len = length[d]].serial = row[fp[d]].serial
          /\ [row[fp[d]] EXCEPT !.len = length[d]].len = length[d]
      BY <2>1 DEF Rows
    <2>3. row' = [row EXCEPT ![fp[d]] = [row[fp[d]] EXCEPT !.len = length[d]]]
      BY <1>1
    <2>4. \A f \in Files : row'[f] = IF f = fp[d] THEN [row[fp[d]] EXCEPT !.len = length[d]]
                                                ELSE row[f]
      BY <1>2, <2>3
    <2>5. QED
      BY <1>2, <2>2, <2>4
  <1>8. ASSUME NEW e \in Devices \ {d} PROVE Untouched(e)
    <2>1. fp[e] # 0 => fp[e] \in Files \ {fp[d]}
      BY <1>1, <1>2 DEF Base, OpenCoherent
    <2>2. row[fp[d]].dev = d
      BY <1>1 DEF Base, RowsCoherent
    <2>3. QED
      BY <1>1, <1>5, <1>6, <1>7, <2>1, <2>2 DEF Untouched
  <1>9. Gapless'
    <2>1. \A f \in Files : status'[f] # "NEW" <=> status[f] # "NEW"
      BY <1>5
    <2>2. ASSUME NEW f \in Files, NEW g \in Files, Follows(f, g)'
          PROVE  /\ status'[f] = "VIDEO" /\ f \notin repaired'
                 /\ row'[f].len = BlockSize \/ Len(hdr'[f].index) = MaxIndex
                 /\ data'[f] # <<>>
                 /\ data'[g] # <<>> => data'[g][1].pos = data'[f][Len(data'[f])].pos + 1
      <3>1. Follows(f, g)
        BY <1>7, <2>1, <2>2 DEF Follows
      <3>2. f # fp[d]
        BY <1>3, <1>5, <3>1 DEF Gapless
      <3>3. QED
        BY <1>1, <1>3, <1>5, <1>7, <3>1, <3>2 DEF Gapless
    <2>3. QED
      BY <1>1, <1>3, <1>7, <2>1, <2>2 DEF Gapless
  <1>10. \A f \in Files : InTrack(f, d)' => InTrack(f, d)
    BY <1>1, <1>5, <1>7 DEF InTrack
  <1>11. Numbered(d)'
    <2>1. \A f \in Files : status'[f] # "NEW" /\ row'[f].dev = d => row'[f].track <= track'[d]
      BY <1>1, <1>3, <1>5, <1>7 DEF Numbered
    <2>2. wpc'[d] \in {"run", "open", "close"} => wpc[d] = "close"
      BY <1>1, <1>6
    <2>3. \A f \in Files : InTrack(f, d)' /\ wpc[d] = "close" => row'[f].serial < serial'[d]
      BY <1>1, <1>3, <1>7, <1>10 DEF Numbered
    <2>4. QED
      BY <1>6, <2>1, <2>2, <2>3 DEF Numbered
  <1>12. NextByte(d)' = NextByte(d)
    BY <1>1 DEF NextByte
  <1>13. ASSUME NEW s \in Nat, Begins(d, s)' PROVE Continues(d, s)'
    <2>1. wpc[d] = "close" /\ s = serial[d]
      BY <1>1, <1>6, <1>13 DEF Begins
    <2>2. row[fp[d]].serial + 1 = serial[d]
      BY <1>1, <1>3, <2>1 DEF Numbered
    <2>3. s # 0
      BY <1>2, <1>4, <2>1, <2>2
    <2>4. ASSUME NEW f \in Files, InTrack(f, d)', row'[f].serial + 1 = s
          PROVE  f = fp[d]
      <3>1. InTrack(f, d) /\ row[f].serial = row[fp[d]].serial
        BY <1>2, <1>4, <1>7, <1>10, <2>1, <2>2, <2>4, SMTT(20)
      <3>2. QED
        BY <1>1, <1>2, <1>3, <1>4, <3>1 DEF Numbered
    <2>5. /\ data[fp[d]] # <<>>
          /\ length[d] = BlockSize \/ Len(head[d].index) = MaxIndex
          /\ NextByte(d) = data[fp[d]][Len(data[fp[d]])].pos + 1
      BY <1>1, <1>3, <2>1 DEF GoesOn
    <2>6. QED
      BY <1>1, <1>5, <1>7, <1>12, <2>3, <2>4, <2>5 DEF Continues
  <1>14. GoesOn(d)'
    BY <1>6, <1>13 DEF GoesOn
  <1>15. QED
    BY <1>3, <1>8, <1>9, <1>11, <1>14, UntouchedKept DEF Streaming

\* The file that is opened is the last one of its track, and the one before ends where
\* it begins.
LEMMA OpenFileStreaming ==
    ASSUME Base, Streaming, NEW d \in Devices, NEW f \in Files, OpenFile(d, f)
    PROVE  Streaming'
  <1> DEFINE new == [dev |-> d, track |-> track[d], serial |-> serial[d], len |-> 0]
  <1>1. /\ wpc[d] = "open" /\ status[f] # "ING"
        /\ data' = [data EXCEPT ![f] = <<>>]
        /\ hdr' = [hdr EXCEPT ![f] = head[d]]
        /\ status' = [status EXCEPT ![f] = "ING"]
        /\ row' = [row EXCEPT ![f] = new]
        /\ repaired' = repaired \ {f}
        /\ fp' = [fp EXCEPT ![d] = f]
        /\ length' = [length EXCEPT ![d] = HeaderSize]
        /\ wpc' = [wpc EXCEPT ![d] = "index"]
        /\ UNCHANGED <<head, serial, rest, track, got>>
    BY DEF OpenFile
  <1>2. new.dev = d /\ new.track = track[d] /\ new.serial = serial[d]
    OBVIOUS
  <1> HIDE DEF new
  <1>3. /\ wpc \in [Devices -> {"idle", "run", "close", "open", "index", "end"}]
        /\ fp \in [Devices -> Files \cup {0}] /\ length \in [Devices -> Nat]
        /\ hdr \in [Files -> Headers] /\ status \in [Files -> {"NEW", "ING", "VIDEO"}]
        /\ row \in [Files -> Rows] /\ data \in [Files -> Seq(Bytes)]
    BY DEF Base, TypeOK
  <1>4. /\ Gapless
        /\ \A e \in Devices : /\ Numbered(e) /\ GoesOn(e)
                              /\ wpc[e] \in {"close", "index"} => fp[e] # 0
    BY DEF Base, OpenCoherent, Streaming
  <1>5. /\ serial[d] \in Nat /\ track[d] \in Nat
        /\ \A g \in Files : row[g].serial \in Nat
    BY StreamTypes
  <1>6. /\ data'[f] = <<>> /\ status'[f] = "ING" /\ row'[f] = new
        /\ \A g \in Files \ {f} : /\ data'[g] = data[g] /\ hdr'[g] = hdr[g]
                                  /\ status'[g] = status[g] /\ row'[g] = row[g]
                                  /\ g \in repaired' <=> g \in repaired
    BY <1>1, <1>3
  <1>7. /\ fp'[d] = f /\ f # 0 /\ wpc'[d] = "index"
        /\ \A e \in Devices \ {d} : /\ fp'[e] = fp[e] /\ wpc'[e] = wpc[e]
                                    /\ length'[e] = length[e]
    BY <1>1, <1>3, RecordingAssumption
  <1>8. ASSUME NEW e \in Devices \ {d} PROVE Untouched(e)
    <2>1. fp[e] # 0 => fp[e] \in Files \ {f}
      BY <1>1, <1>3 DEF Base, OpenCoherent
    <2>2. \A g \in Files : row'[g].dev = e => g # f
      BY <1>2, <1>6
    <2>3. QED
      BY <1>1, <1>6, <1>7, <2>1, <2>2 DEF Untouched
  <1>9. \A g \in Files \ {f} : InTrack(g, d)' => InTrack(g, d) /\ row[g].serial < serial[d]
    <2>1. \A g \in Files \ {f} : InTrack(g, d)' => InTrack(g, d)
      BY <1>1, <1>6 DEF InTrack
    <2>2. QED
      BY <1>1, <1>4, <2>1 DEF Numbered
  <1>10. Continues(d, serial[d])
    BY <1>1, <1>4, <1>5 DEF GoesOn, Begins
  <1>11. Numbered(d)'
    <2>1. \A g \in Files : status'[g] # "NEW" /\ row'[g].dev = d => row'[g].track <= track'[d]
      <3>1. track'[d] = track[d] /\ track[d] <= track[d]
        BY <1>1, <1>5
      <3>2. \A g \in Files \ {f} : status[g] # "NEW" /\ row[g].dev = d => row[g].track <= track[d]
        BY <1>4 DEF Numbered
      <3>3. QED
        BY <1>2, <1>6, <3>1, <3>2
    <2>2. \A g \in Files : InTrack(g, d)' => row'[g].serial < row'[f].serial \/ g = f
      BY <1>2, <1>6, <1>9
    <2>3. QED
      BY <1>7, <2>1, <2>2 DEF Numbered
  <1>12. ASSUME NEW s \in Nat, Begins(d, s)' PROVE Continues(d, s)'
    <2>1. s = serial[d]
      BY <1>2, <1>6, <1>7, <1>12 DEF Begins
    <2>2. NextByte(d)' = NextByte(d)
      BY <1>1 DEF NextByte
    <2>3. \A g \in Files : InTrack(g, d)' /\ row'[g].serial + 1 = s => g # f
      BY <1>2, <1>5, <1>6, <2>1
    <2>4. QED
      BY <1>6, <1>9, <1>10, <2>1, <2>2, <2>3 DEF Continues
  <1>13. GoesOn(d)'
    BY <1>7, <1>12 DEF GoesOn
  <1>14. ASSUME NEW a \in Files, NEW b \in Files, Follows(a, b)'
         PROVE  /\ status'[a] = "VIDEO" /\ a \notin repaired'
                /\ row'[a].len = BlockSize \/ Len(hdr'[a].index) = MaxIndex
                /\ data'[a] # <<>>
                /\ data'[b] # <<>> => data'[b][1].pos = data'[a][Len(data'[a])].pos + 1
    <2>1. CASE a # f /\ b # f
      <3>1. Follows(a, b)
        BY <1>6, <1>14, <2>1 DEF Follows
      <3>2. QED
        BY <1>4, <1>6, <2>1, <3>1 DEF Gapless
    <2>2. CASE a # f /\ b = f
      <3>1. InTrack(a, d)' /\ row'[a].serial + 1 = serial[d]
        BY <1>1, <1>2, <1>6, <1>14, <2>2 DEF Follows, InTrack
      <3>2. InTrack(a, d) /\ row[a].serial + 1 = serial[d]
        BY <1>6, <1>9, <2>2, <3>1
      <3>3. QED
        BY <1>6, <1>10, <2>2, <3>2 DEF Continues
    <2>3. CASE a = f
      <3>1. b # f
        BY <1>2, <1>5, <1>6, <1>14, <2>3 DEF Follows
      <3>2. InTrack(b, d)' /\ row'[b].serial = serial[d] + 1
        BY <1>1, <1>2, <1>6, <1>14, <2>3, <3>1 DEF Follows, InTrack
      <3>3. row[b].serial < serial[d] /\ row'[b].serial = row[b].serial
        BY <1>6, <1>9, <3>1, <3>2
      <3>4. QED
        BY <1>5, <3>2, <3>3
    <2>4. QED
      BY <2>1, <2>2, <2>3
  <1>15. Gapless'
    <2>1. \A g \in Files : \A k \in DOMAIN data'[g] :
             data'[g][k].pos = data'[g][1].pos + k - 1
      <3>1. DOMAIN data'[f] = {}
        BY <1>6
      <3>2. QED
        BY <1>4, <1>6, <3>1 DEF Gapless
    <2>2. \A g \in Files : status'[g] # "NEW" /\ row'[g].serial = 0 /\ data'[g] # <<>> =>
             data'[g][1].pos = 0
      BY <1>4, <1>6 DEF Gapless
    <2>3. QED
      BY <1>14, <2>1, <2>2 DEF Gapless
  <1>16. QED
    BY <1>4, <1>8, <1>11, <1>13, <1>15, UntouchedKept DEF Streaming

\* The rest of a buffer goes into the new file, which then is the last one.
LEMMA OpenIndexStreaming ==
    ASSUME Base, Streaming, NEW d \in Devices, NEW k \in 0 .. BlockSize, OpenIndex(d, k)
    PROVE  Streaming'
  <1>1. /\ wpc[d] = "index" /\ k <= rest[d]
        /\ WriteIndex(d, Fresh(d), Blank, length[d])
        /\ AppendData(d, k, NextByte(d), NextByte(d) - firstwrite[d])
        /\ serial' = [serial EXCEPT ![d] = @ + 1]
        /\ length' = [length EXCEPT ![d] = IF k = rest[d] THEN @ + k ELSE @]
        /\ rest' = [rest EXCEPT ![d] = 0]
        /\ wpc' = [wpc EXCEPT ![d] = IF k = rest[d] THEN "run" ELSE "end"]
        /\ UNCHANGED <<status, row, repaired, hdr, fp, track, got>>
    BY DEF OpenIndex, catalogue, NextByte
  <1>2. /\ wpc \in [Devices -> {"idle", "run", "close", "open", "index", "end"}]
        /\ serial \in [Devices -> Nat] /\ length \in [Devices -> Nat]
        /\ rest \in [Devices -> Nat] /\ k \in Nat
    BY RecordingAssumption DEF Base, TypeOK
  <1>3. /\ Gapless
        /\ \A e \in Devices : /\ Numbered(e) /\ GoesOn(e)
                              /\ wpc[e] \in {"close", "index"} => fp[e] # 0
    BY DEF Base, OpenCoherent, Streaming
  <1>4. /\ fp[d] # 0 /\ fp[d] \in Files /\ data[fp[d]] = <<>>
        /\ row[fp[d]].serial = serial[d] /\ InTrack(fp[d], d)
    <2>1. fp[d] # 0 /\ ~idxfp[d] /\ row[fp[d]].serial = serial[d]
      BY <1>1, <1>3 DEF Base, RowsCoherent
    <2>2. data[fp[d]] = <<>>
      BY <2>1 DEF Base, RowsCoherent
    <2>3. QED
      BY <2>1, <2>2, StreamTypes
  <1>5. /\ got[d] \in Nat /\ rest[d] \in Nat /\ serial[d] \in Nat
        /\ \A f \in Files : row[f].serial \in Nat
    BY StreamTypes
  <1>6. NextByte(d) \in Nat /\ NextByte(d) - firstwrite[d] \in Nat
    <2>1. rest[d] + firstwrite[d] <= got[d] /\ firstwrite[d] \in Nat
      BY <1>1 DEF Base, RestFits, TypeOK
    <2>2. QED
      BY <1>5, <2>1 DEF NextByte
  <1>7. /\ serial'[d] = serial[d] + 1 /\ rest'[d] = 0
        /\ wpc'[d] = (IF k = rest[d] THEN "run" ELSE "end")
        /\ \A e \in Devices \ {d} : /\ serial'[e] = serial[e] /\ rest'[e] = rest[e]
                                    /\ wpc'[e] = wpc[e]
    BY <1>1, <1>2
  <1>8. \A e \in Devices \ {d} : length'[e] = length[e]
    BY <1>1, <1>2
  <1>9. Fresh(d) \in Headers /\ Blank \in Headers /\ Fresh(d).index = <<>>
    <2>1. d \in Nat /\ track[d] \in Nat /\ serial[d] \in Nat
      BY RecordingAssumption, StreamTypes
    <2>2. QED
      BY <2>1 DEF Fresh, Identity, Blank, Headers, Ids, Entries
  <1>10. /\ \A e \in Devices \ {d} : head'[e] = head[e]
         /\ second[d] = now => head'[d] = Fresh(d)
         /\ second[d] # now => Len(head'[d].index) = Len(Fresh(d).index) + 1
    <2>1. TypeOK /\ Blank \in Headers \cup {NoIndex} /\ length[d] \in Nat
      BY <1>9 DEF Base, TypeOK
    <2>2. QED
      BY <1>1, <1>9, <2>1, WriteIndexProperties
  <1>11. Len(head'[d].index) <= 1
    <2>1. Len(Fresh(d).index) = 0
      BY <1>9
    <2>2. CASE second[d] = now
      BY <1>10, <2>1, <2>2
    <2>3. CASE second[d] # now
      <3>1. Len(head'[d].index) = Len(Fresh(d).index) + 1
        BY <1>10, <2>3
      <3>2. QED
        BY <2>1, <3>1
    <2>4. QED
      BY <2>2, <2>3
  <1>12. \A f \in Files : f # fp[d] => data'[f] = data[f]
    <2>1. TypeOK
      BY DEF Base
    <2>2. QED
      BY <1>1, <1>2, <1>4, <1>6, <2>1, AppendDataProperties
  <1>13. \A e \in Devices \ {d} : Untouched(e)
    <2>1. \A e \in Devices \ {d} : got'[e] = got[e]
      BY <1>1
    <2>2. QED
      BY <1>1, <1>7, <1>8, <1>10, <1>12, <2>1, OthersUntouched
  <1>14. Continues(d, serial[d])
    BY <1>1, <1>3, <1>4, <1>5 DEF GoesOn, Begins
  <1>15. /\ Gapless'
         /\ data'[fp[d]] # <<>> =>
               NextByte(d) + k = data'[fp[d]][Len(data'[fp[d]])].pos + 1
         /\ k > 0 => data'[fp[d]] # <<>>
    BY <1>1, <1>2, <1>3, <1>4, <1>6, <1>14, GrownStream
  <1>16. Numbered(d)'
    <2>1. \A f \in Files : InTrack(f, d)' => InTrack(f, d)
      BY <1>1 DEF InTrack
    <2>2. \A f \in Files : InTrack(f, d) => row[f].serial < serial[d] \/ f = fp[d]
      BY <1>3, <1>4 DEF Numbered
    <2>3. \A f \in Files : InTrack(f, d)' => row'[f].serial < serial'[d]
      BY <1>1, <1>4, <1>5, <1>7, <2>1, <2>2
    <2>4. \A f \in Files : status'[f] # "NEW" /\ row'[f].dev = d => row'[f].track <= track'[d]
      BY <1>1, <1>3 DEF Numbered
    <2>5. \A f \in Files : InTrack(f, d)' /\ fp'[d] # 0 =>
             row'[f].serial < row'[fp'[d]].serial \/ f = fp'[d]
      BY <1>1, <1>4, <2>1, <2>2
    <2>6. row'[fp'[d]].serial + 1 = serial'[d]
      BY <1>1, <1>4, <1>7
    <2>7. QED
      BY <2>3, <2>4, <2>5, <2>6 DEF Numbered
  <1>17. NextByte(d)' = got[d] /\ NextByte(d) = got[d] - rest[d]
    BY <1>1, <1>5, <1>7 DEF NextByte
  <1>18. ASSUME NEW s \in Nat, Begins(d, s)' PROVE Continues(d, s)'
    <2>1. /\ wpc'[d] = "run" /\ data'[fp[d]] = <<>> /\ s = serial[d]
      BY <1>1, <1>4, <1>7, <1>18 DEF Begins
    <2>2. k = 0 /\ rest[d] = 0
      BY <1>2, <1>7, <1>15, <2>1
    <2>3. NextByte(d)' = NextByte(d)
      BY <1>5, <1>17, <2>2
    <2>4. \A f \in Files : InTrack(f, d)' /\ row'[f].serial + 1 = s =>
             InTrack(f, d) /\ row[f].serial + 1 = s /\ f # fp[d]
      BY <1>1, <1>4, <1>5, <2>1 DEF InTrack
    <2>5. QED
      BY <1>1, <1>12, <1>14, <2>1, <2>3, <2>4 DEF Continues
  <1>19. data'[fp[d]] # <<>> /\ wpc'[d] = "run" =>
            NextByte(d)' = data'[fp[d]][Len(data'[fp[d]])].pos + 1
    <2>1. ASSUME wpc'[d] = "run" PROVE k = rest[d]
      BY <1>7, <2>1
    <2>2. k = rest[d] => NextByte(d) + k = got[d]
      BY <1>2, <1>5, <1>17
    <2>3. QED
      BY <1>15, <1>17, <2>1, <2>2
  <1>20. GoesOn(d)'
    BY <1>1, <1>4, <1>7, <1>11, <1>18, <1>19 DEF GoesOn
  <1>21. QED
    BY <1>3, <1>13, <1>15, <1>16, <1>20, UntouchedKept DEF Streaming

\* After a crash no writer goes on, and what is missing is at the end of a file that
\* has no file after it.
LEMMA CrashStreaming == Base /\ Streaming /\ Crash => Streaming'
  <1> SUFFICES ASSUME Base, Streaming, Crash PROVE Streaming'
    OBVIOUS
  <1>1. /\ \A d \in Devices : wpc'[d] = "idle" /\ fp'[d] = 0
        /\ UNCHANGED <<status, row, repaired, hdr, track>>
    BY CrashStep
  <1>2. /\ \A f \in Files : status[f] # "ING" => data'[f] = data[f]
        /\ \A f \in Files : \A k \in DOMAIN data'[f] :
              k \in DOMAIN data[f] /\ data'[f][k] = data[f][k]
        /\ data' \in [Files -> Seq(Bytes)]
    BY CrashKeepsData
  <1>3. Gapless /\ \A e \in Devices : Numbered(e) /\ GoesOn(e)
    BY DEF Streaming
  <1>4. ASSUME NEW d \in Devices PROVE Numbered(d)' /\ GoesOn(d)'
    BY <1>1, <1>3 DEF Numbered, InTrack, GoesOn, Begins
  <1>5. \A f \in Files : data'[f] # <<>> => data'[f][1] = data[f][1] /\ data[f] # <<>>
    <2>1. ASSUME NEW f \in Files, data'[f] # <<>>
          PROVE  data'[f][1] = data[f][1] /\ data[f] # <<>>
      <3>1. 1 \in DOMAIN data'[f]
        <4>1. data'[f] \in Seq(Bytes)
          BY <1>2
        <4>2. QED
          BY <2>1, <4>1, EmptySeq
      <3>2. 1 \in DOMAIN data[f] /\ data'[f][1] = data[f][1]
        BY <1>2, <3>1
      <3>3. QED
        BY <3>2
    <2>2. QED
      BY <2>1
  <1>6. \A f \in Files : \A k \in DOMAIN data'[f] : data'[f][k].pos = data'[f][1].pos + k - 1
    <2>1. ASSUME NEW f \in Files, NEW k \in DOMAIN data'[f]
          PROVE  data'[f][k].pos = data'[f][1].pos + k - 1
      <3>1. data'[f] # <<>>
        BY <2>1
      <3>2. QED
        BY <1>2, <1>3, <1>5, <2>1, <3>1 DEF Gapless
    <2>2. QED
      BY <2>1
  <1>7. \A f \in Files : status'[f] # "NEW" /\ row'[f].serial = 0 /\ data'[f] # <<>> =>
           data'[f][1].pos = 0
    BY <1>1, <1>3, <1>5 DEF Gapless
  <1>8. ASSUME NEW f \in Files, NEW g \in Files, Follows(f, g)'
        PROVE  /\ status'[f] = "VIDEO" /\ f \notin repaired'
               /\ row'[f].len = BlockSize \/ Len(hdr'[f].index) = MaxIndex
               /\ data'[f] # <<>>
               /\ data'[g] # <<>> => data'[g][1].pos = data'[f][Len(data'[f])].pos + 1
    <2>1. Follows(f, g)
      BY <1>1, <1>8 DEF Follows
    <2>2. status[f] = "VIDEO"
      BY <1>3, <2>1 DEF Gapless
    <2>3. data'[f] = data[f]
      BY <1>2, <2>2
    <2>4. QED
      BY <1>1, <1>3, <1>5, <2>1, <2>3 DEF Gapless
  <1>9. QED
    BY <1>4, <1>6, <1>7, <1>8 DEF Streaming, Gapless

\* repair_db finishes no file that has a file after it.
LEMMA RepairRowStreaming ==
    ASSUME Base, Streaming, NEW f \in Files, RepairRow(f)
    PROVE  Streaming'
  <1>1. /\ status[f] = "ING" /\ RowRepaired(f)
        /\ \A d \in Devices : fp[d] = 0 /\ wpc[d] = "idle"
        /\ UNCHANGED <<data, wpc, fp, track>>
    BY RepairRowStep
  <1>2. Gapless /\ \A e \in Devices : Numbered(e) /\ GoesOn(e)
    BY DEF Streaming
  <1>3. /\ \A g \in Files : /\ row'[g].dev = row[g].dev /\ row'[g].track = row[g].track
                            /\ row'[g].serial = row[g].serial
                            /\ status'[g] # "NEW" <=> status[g] # "NEW"
        /\ \A g \in Files \ {f} : /\ row'[g] = row[g] /\ status'[g] = status[g]
                                  /\ hdr'[g] = hdr[g] /\ (g \in repaired' => g \in repaired)
    BY <1>1 DEF RowRepaired
  <1>4. ASSUME NEW d \in Devices PROVE Numbered(d)' /\ GoesOn(d)'
    BY <1>1, <1>2, <1>3 DEF Numbered, InTrack, GoesOn, Begins
  <1>5. ASSUME NEW a \in Files, NEW b \in Files, Follows(a, b)'
        PROVE  /\ status'[a] = "VIDEO" /\ a \notin repaired'
               /\ row'[a].len = BlockSize \/ Len(hdr'[a].index) = MaxIndex
               /\ data'[a] # <<>>
               /\ data'[b] # <<>> => data'[b][1].pos = data'[a][Len(data'[a])].pos + 1
    <2>1. Follows(a, b)
      BY <1>3, <1>5 DEF Follows
    <2>2. status[a] = "VIDEO"
      BY <1>2, <2>1 DEF Gapless
    <2>3. a # f
      BY <1>1, <2>2
    <2>4. QED
      BY <1>1, <1>2, <1>3, <2>1, <2>3 DEF Gapless
  <1>6. Gapless'
    BY <1>1, <1>2, <1>3, <1>5 DEF Gapless
  <1>7. QED
    BY <1>4, <1>6 DEF Streaming

\* Every step keeps Streaming.
LEMMA NextStreaming == Base /\ Indexing /\ Streaming /\ [Next]_vars => Streaming'
  <1> SUFFICES ASSUME Base, Indexing, Streaming, [Next]_vars PROVE Streaming'
    OBVIOUS
  <1>1. CASE QuietStep
    BY <1>1, QuietStreaming
  <1>2. CASE Crash
    BY <1>2, CrashStreaming
  <1>3. CASE \E f \in Files : RepairRow(f)
    BY <1>3, RepairRowStreaming
  <1>4. ASSUME NEW d \in Devices, Writer(d) PROVE Streaming'
    BY <1>1, <1>4, ReceiveStreaming, WriteFailsStreaming, CloseFileStreaming, OpenFileStreaming,
       OpenIndexStreaming DEF Writer, QuietStep
  <1>5. CASE UNCHANGED vars
    <2>1. \A e \in Devices : Untouched(e)
      BY <1>5 DEF vars, catalogue, disk, writer, Untouched
    <2>2. \A e \in Devices : /\ Numbered(e) /\ GoesOn(e)
                             /\ wpc[e] \in {"close", "index"} => fp[e] # 0
      BY DEF Base, OpenCoherent, Streaming
    <2>3. Gapless'
      BY <1>5 DEF vars, catalogue, disk, Streaming, Gapless, Follows
    <2>4. QED
      BY <2>1, <2>2, <2>3, UntouchedKept DEF Streaming
  <1>6. QED
    BY <1>1, <1>2, <1>3, <1>4, <1>5 DEF Next, Repair, QuietStep

-------------------------------------------------------------------------------
(* Tearing: only behind a full block are bytes not in their places.        *)

\* A step that writes nothing, and changes no file that another one follows.
LEMMA TornKept ==
    ASSUME Base, Torn,
           \A f \in Files : data'[f] \in Seq(Bytes),
           \A f \in Files : \A k \in DOMAIN data'[f] :
              k \in DOMAIN data[f] /\ data'[f][k] = data[f][k] /\ row'[f].serial = row[f].serial,
           \A f, g \in Files : Follows(f, g)' /\ data'[g] # <<>> =>
              Follows(f, g) /\ row'[f].len = row[f].len
    PROVE  Torn'
  <1>1. ASSUME NEW f \in Files, NEW k \in DOMAIN data'[f], Shift(f, k)' # 0
        PROVE  /\ Shift(f, k)' > 0 /\ row'[f].serial # 0
               /\ \A j \in 1 .. k : Shift(f, j)' = Shift(f, k)'
    <2>1. DOMAIN data'[f] = 1 .. Len(data'[f]) /\ Len(data'[f]) \in Nat
      OBVIOUS
    <2>2. k \in DOMAIN data[f] /\ Shift(f, k)' = Shift(f, k)
      BY DEF Shift
    <2>3. \A j \in 1 .. k : Shift(f, j)' = Shift(f, j)
      <3> TAKE j \in 1 .. k
      <3>1. j \in DOMAIN data'[f]
        BY <2>1
      <3>2. QED
        BY <3>1 DEF Shift
    <2>4. /\ Shift(f, k) > 0 /\ row[f].serial # 0
          /\ \A j \in 1 .. k : Shift(f, j) = Shift(f, k)
      BY <1>1, <2>2 DEF Torn
    <2>5. QED
      BY <2>2, <2>3, <2>4
  <1>2. ASSUME NEW f \in Files, NEW g \in Files, Follows(f, g)', data'[g] # <<>>, Shift(g, 1)' # 0
        PROVE  row'[f].len = BlockSize
    <2>1. 1 \in DOMAIN data'[g]
      BY <1>2
    <2>2. Shift(g, 1)' = Shift(g, 1) /\ 1 \in DOMAIN data[g]
      BY <2>1 DEF Shift
    <2>3. Follows(f, g) /\ row'[f].len = row[f].len /\ data[g] # <<>>
      BY <1>2, <2>2
    <2>4. QED
      BY <1>2, <2>2, <2>3 DEF Torn
  <1>3. QED
    BY <1>1, <1>2 DEF Torn

\* What a camera writes is in its place, or the first data of a file behind a full one.
LEMMA TornGrown ==
    ASSUME Base, Torn, NEW d \in Devices, NEW g \in Files, fp[d] = g, UNCHANGED <<status, row>>,
           NEW n \in Nat, NEW from \in Nat, NEW first \in Nat, AppendData(d, n, from, first),
           \/ first = from
           \/ /\ data[g] = <<>> /\ first < from /\ row[g].serial # 0
              /\ \A f \in Files : Follows(f, g) => row[f].len = BlockSize
    PROVE  Torn'
  <1> DEFINE s == data[g]
  <1>1. s \in Seq(Bytes) /\ Len(s) \in Nat
    BY DEF Base, TypeOK
  <1>2. /\ \A f \in Files : data'[f] \in Seq(Bytes)
        /\ \A f \in Files : f # g => data'[f] = data[f]
        /\ Len(data'[g]) = Len(s) + n
        /\ \A k \in 1 .. Len(s) : data'[g][k] = s[k]
        /\ \A k \in Len(s) + 1 .. Len(s) + n : /\ data'[g][k].pos = from + k - Len(s) - 1
                                               /\ data'[g][k].is = first + k - Len(s) - 1
    <2>1. TypeOK /\ fp[d] \in Files
      BY DEF Base
    <2>2. /\ Appended(data[fp[d]], data'[fp[d]], n, from, first)
          /\ \A f \in Files : f # fp[d] => data'[f] = data[f]
          /\ \A f \in Files : data'[f] \in Seq(Bytes)
      BY <2>1, AppendDataAppends
    <2>3. QED
      BY <2>2 DEF s, Appended
  <1>3. \A k \in Len(s) + 1 .. Len(s) + n : Shift(g, k)' = from - first
    <2> HIDE DEF s
    <2> TAKE k \in Len(s) + 1 .. Len(s) + n
    <2>1. k \in Int /\ Len(s) \in Int
      BY <1>1
    <2>2. data'[g][k].pos - data'[g][k].is = from - first
      BY <1>2, <2>1
    <2>3. QED
      BY <2>2 DEF Shift
  <1>4. \A k \in 1 .. Len(s) : Shift(g, k)' = Shift(g, k)
    BY <1>2 DEF Shift
  <1>5. \A f \in Files : f # g => \A k \in DOMAIN data[f] : Shift(f, k)' = Shift(f, k)
    BY <1>2 DEF Shift
  <1> HIDE DEF s
  <1>6. ASSUME NEW f \in Files, NEW k \in DOMAIN data'[f], Shift(f, k)' # 0
        PROVE  /\ Shift(f, k)' > 0 /\ row'[f].serial # 0
               /\ \A j \in 1 .. k : Shift(f, j)' = Shift(f, k)'
    <2>1. CASE f # g
      <3>1. k \in DOMAIN data[f] /\ DOMAIN data[f] = 1 .. Len(data[f]) /\ Len(data[f]) \in Nat
        BY <1>2, <2>1 DEF Base, TypeOK
      <3>2. \A j \in 1 .. k : j \in DOMAIN data[f]
        BY <3>1
      <3>3. /\ Shift(f, k) > 0 /\ row[f].serial # 0
            /\ \A j \in 1 .. k : Shift(f, j) = Shift(f, k)
        BY <1>5, <1>6, <2>1, <3>1 DEF Torn
      <3>4. QED
        BY <1>5, <2>1, <3>1, <3>2, <3>3
    <2>2. CASE f = g /\ k <= Len(s)
      <3>1. k \in 1 .. Len(s) /\ \A j \in 1 .. k : j \in 1 .. Len(s)
        BY <1>1, <1>2, <2>2
      <3>2. k \in DOMAIN data[f]
        BY <1>1, <2>2, <3>1 DEF s
      <3>3. /\ Shift(f, k) > 0 /\ row[f].serial # 0
            /\ \A j \in 1 .. k : Shift(f, j) = Shift(f, k)
        BY <1>4, <1>6, <2>2, <3>1, <3>2 DEF Torn
      <3>4. QED
        BY <1>4, <2>2, <3>1, <3>3
    <2>3. CASE f = g /\ ~(k <= Len(s))
      <3>1. k \in Len(s) + 1 .. Len(s) + n
        BY <1>1, <1>2, <2>3
      <3>2. from - first # 0
        BY <1>3, <1>6, <2>3, <3>1
      <3>3. s = <<>> /\ first < from /\ row[g].serial # 0
        BY <3>2 DEF s
      <3>4. Len(s) = 0
        BY <3>3
      <3>5. \A j \in 1 .. k : Shift(g, j)' = from - first
        BY <1>3, <3>1, <3>4
      <3>6. QED
        BY <1>3, <2>3, <3>1, <3>3, <3>5
    <2>4. QED
      BY <2>1, <2>2, <2>3
  <1>7. ASSUME NEW f \in Files, NEW h \in Files, Follows(f, h)', data'[h] # <<>>, Shift(h, 1)' # 0
        PROVE  row'[f].len = BlockSize
    <2>1. Follows(f, h)
      BY <1>7 DEF Follows
    <2>2. CASE h # g
      <3>1. data[h] # <<>> /\ 1 \in DOMAIN data[h]
        BY <1>2, <1>7, <2>2 DEF Base, TypeOK
      <3>2. QED
        BY <1>5, <1>7, <2>1, <2>2, <3>1 DEF Torn
    <2>3. CASE h = g /\ s # <<>>
      <3>1. 1 \in 1 .. Len(s)
        BY <1>1, <2>3
      <3>2. QED
        BY <1>4, <1>7, <2>1, <2>3, <3>1 DEF Torn, s
    <2>4. CASE h = g /\ s = <<>>
      <3>1. Len(s) = 0 /\ 1 \in DOMAIN data'[h]
        BY <1>2, <1>7, <2>4
      <3>2. 1 \in Len(s) + 1 .. Len(s) + n
        BY <1>2, <2>4, <3>1
      <3>3. from - first # 0
        BY <1>3, <1>7, <2>4, <3>2
      <3>4. QED
        BY <2>1, <2>4, <3>3 DEF s
    <2>5. QED
      BY <2>2, <2>3, <2>4
  <1>8. QED
    BY <1>6, <1>7 DEF Torn

\* A step that leaves camera e and its files alone leaves its split buffer alone.
LEMMA TornBeforeKept ==
    ASSUME NEW e \in Devices, TornBefore(e),
           wpc'[e] = wpc[e], length'[e] = length[e], serial'[e] = serial[e],
           firstwrite'[e] = firstwrite[e],
           \A f \in Files : InTrack(f, e)' => InTrack(f, e) /\ row'[f] = row[f]
    PROVE  TornBefore(e)'
  BY DEF TornBefore

\* Tearing holds at first: nothing is written.
LEMMA InitTearing == Init => Tearing
  BY DEF Init, Tearing, TornBefore, Torn, Follows

\* The steps that neither write nor change a row.
LEMMA QuietTearing ==
    ASSUME Tearing, UNCHANGED <<status, row, data>>,
           \A e \in Devices :
              \/ /\ wpc'[e] = wpc[e] /\ length'[e] = length[e] /\ serial'[e] = serial[e]
                 /\ firstwrite'[e] = firstwrite[e] /\ track'[e] = track[e]
              \/ wpc'[e] \in {"idle", "run", "end"}
    PROVE  Tearing'
  <1>1. Torn'
    BY DEF Tearing, Torn, Shift, Follows
  <1>2. ASSUME NEW e \in Devices PROVE TornBefore(e)'
    BY DEF Tearing, TornBefore, InTrack
  <1>3. QED
    BY <1>1, <1>2 DEF Tearing

\* A buffer is torn where its end does not fit, and then the file is full.
LEMMA ReceiveTearing ==
    ASSUME Base, Tearing, NEW d \in Devices, NEW n \in Chunks, Receive(d, n)
    PROVE  Tearing'
  <1>1. /\ wpc[d] = "run"
        /\ UNCHANGED <<status, row, fp, track, serial>>
    BY DEF Receive, catalogue
  <1>2. /\ wpc \in [Devices -> {"idle", "run", "close", "open", "index", "end"}]
        /\ length \in [Devices -> Nat] /\ firstwrite \in [Devices -> Nat]
        /\ got[d] \in Nat /\ n \in Nat /\ n > 0 /\ BlockSize \in Nat
    BY RecordingAssumption DEF Base, TypeOK
  <1>3. Torn /\ \A e \in Devices : TornBefore(e)
    BY DEF Tearing
  <1>4. \A f \in Files : \A e \in Devices : InTrack(f, e)' => InTrack(f, e) /\ row'[f] = row[f]
    BY <1>1 DEF InTrack
  <1>5. CASE ReceiveFirst(d, n) \/ ReceiveIndexFull(d, n)
    <2>1. /\ firstwrite'[d] = 0 /\ UNCHANGED <<data, length>>
          /\ \A e \in Devices \ {d} : wpc'[e] = wpc[e] /\ firstwrite'[e] = firstwrite[e]
      BY <1>2, <1>5 DEF ReceiveFirst, ReceiveIndexFull, disk
    <2>2. TornBefore(d)'
      BY <2>1 DEF TornBefore
    <2>3. \A e \in Devices \ {d} : TornBefore(e)'
      BY <1>1, <1>3, <1>4, <2>1, TornBeforeKept
    <2>4. Torn'
      BY <1>1, <1>3, <2>1 DEF Torn, Shift, Follows
    <2>5. QED
      BY <2>2, <2>3, <2>4 DEF Tearing
  <1>6. CASE ReceiveInto(d, n)
    <2>1. /\ fp[d] # 0
          /\ AppendData(d, Fit(d, n), got[d], got[d])
          /\ length' = [length EXCEPT ![d] = @ + Fit(d, n)]
          /\ firstwrite' = [firstwrite EXCEPT ![d] = IF Left(d, n) = 0 THEN 0 ELSE Fit(d, n)]
          /\ wpc' = [wpc EXCEPT ![d] = IF length[d] + n < BlockSize THEN "run" ELSE "close"]
      BY <1>6 DEF ReceiveInto
    <2>2. length[d] \in Nat /\ length[d] < BlockSize
      BY <1>1, <1>2, <2>1 DEF Base, FitsBlock
    <2>3. /\ Fit(d, n) \in Nat
          /\ Left(d, n) # 0 => length[d] + Fit(d, n) = BlockSize
      BY <1>2, <2>2 DEF Fit, Left
    <2>4. /\ length'[d] = length[d] + Fit(d, n)
          /\ firstwrite'[d] # 0 => Left(d, n) # 0
          /\ wpc'[d] \in {"run", "close"}
          /\ \A e \in Devices \ {d} : /\ length'[e] = length[e] /\ firstwrite'[e] = firstwrite[e]
                                      /\ wpc'[e] = wpc[e]
      BY <1>2, <2>1
    <2>5. TornBefore(d)'
      BY <2>3, <2>4 DEF TornBefore
    <2>6. \A e \in Devices \ {d} : TornBefore(e)'
      BY <1>1, <1>3, <1>4, <2>4, TornBeforeKept
    <2>7. fp[d] \in Files
      BY <2>1 DEF Base, TypeOK
    <2>8. Torn'
      BY <1>1, <1>2, <1>3, <2>1, <2>3, <2>7, TornGrown
    <2>9. QED
      BY <2>5, <2>6, <2>8 DEF Tearing
  <1>7. QED
    BY <1>5, <1>6 DEF Receive

\* A write that fails leaves the beginning of a buffer where it belongs.
LEMMA WriteFailsTearing ==
    ASSUME Base, Tearing, NEW d \in Devices, NEW k \in 0 .. BlockSize, WriteFails(d, k)
    PROVE  Tearing'
  <1>1. /\ fp[d] # 0 /\ AppendData(d, k, got[d], got[d])
        /\ wpc' = [wpc EXCEPT ![d] = "end"]
        /\ UNCHANGED <<status, row, length, serial, firstwrite, track>>
    BY DEF WriteFails, catalogue
  <1>2. /\ wpc \in [Devices -> {"idle", "run", "close", "open", "index", "end"}]
        /\ k \in Nat /\ fp[d] \in Files /\ got[d] \in Nat
    BY <1>1, RecordingAssumption DEF Base, TypeOK
  <1>3. Torn'
    <2>1. Torn
      BY DEF Tearing
    <2>2. QED
      BY <1>1, <1>2, <2>1, TornGrown
  <1>4. TornBefore(d)'
    BY <1>1, <1>2 DEF TornBefore
  <1>5. \A e \in Devices \ {d} : TornBefore(e)'
    BY <1>1, <1>2 DEF Tearing, TornBefore, InTrack
  <1>6. QED
    BY <1>3, <1>4, <1>5 DEF Tearing

\* The file that is closed for a split buffer is the last one, and is full.
LEMMA CloseFileTearing ==
    ASSUME Base, Streaming, Tearing, NEW d \in Devices, CloseFile(d)
    PROVE  Tearing'
  <1>1. /\ fp[d] # 0 /\ wpc[d] \in {"close", "end"}
        /\ status' = [status EXCEPT ![fp[d]] = "VIDEO"]
        /\ row' = [row EXCEPT ![fp[d]].len = length[d]]
        /\ wpc' = [wpc EXCEPT ![d] = IF wpc[d] = "close" THEN "open" ELSE "idle"]
        /\ UNCHANGED <<data, length, serial, firstwrite, track>>
    BY DEF CloseFile
  <1>2. /\ wpc \in [Devices -> {"idle", "run", "close", "open", "index", "end"}]
        /\ status \in [Files -> {"NEW", "ING", "VIDEO"}] /\ row \in [Files -> Rows]
        /\ fp[d] \in Files /\ data \in [Files -> Seq(Bytes)] /\ serial[d] \in Nat
        /\ \A f \in Files : row[f].serial \in Nat
    BY <1>1 DEF Base, TypeOK, Rows
  <1>3. status[fp[d]] = "ING" /\ row[fp[d]].dev = d
    BY <1>1 DEF Base, OpenCoherent, RowsCoherent
  <1>4. /\ \A f \in Files : /\ row'[f].dev = row[f].dev /\ row'[f].track = row[f].track
                            /\ row'[f].serial = row[f].serial
                            /\ status'[f] # "NEW" <=> status[f] # "NEW"
        /\ \A f \in Files \ {fp[d]} : row'[f] = row[f]
        /\ row'[fp[d]].len = length[d]
    BY <1>1, <1>2, <1>3 DEF Rows
  <1>5. Torn'
    <2>1. ASSUME NEW f \in Files, NEW g \in Files, Follows(f, g)'
          PROVE  Follows(f, g) /\ row'[f].len = row[f].len
      <3>1. Follows(f, g)
        BY <1>4, <2>1 DEF Follows
      <3>2. status[f] = "VIDEO"
        BY <3>1 DEF Streaming, Gapless
      <3>3. QED
        BY <1>3, <1>4, <3>1, <3>2
    <2>2. QED
      BY <1>1, <1>2, <1>4, <2>1, TornKept DEF Tearing
  <1>6. TornBefore(d)'
    <2>1. CASE wpc[d] = "end"
      BY <1>1, <1>2, <2>1 DEF TornBefore
    <2>2. CASE wpc[d] = "close"
      <3>1. wpc'[d] = "open"
        BY <1>1, <1>2, <2>2
      <3>2. row[fp[d]].serial + 1 = serial[d] /\ serial[d] # 0
        BY <1>1, <1>2, <2>2 DEF Streaming, Numbered
      <3>3. \A f \in Files : InTrack(f, d)' => InTrack(f, d)
        BY <1>1, <1>4 DEF InTrack
      <3>4. \A f \in Files : InTrack(f, d) => row[f].serial < row[fp[d]].serial \/ f = fp[d]
        BY <1>1 DEF Streaming, Numbered
      <3>5. \A f \in Files : InTrack(f, d)' /\ row'[f].serial + 1 = serial[d] => f = fp[d]
        BY <1>2, <1>4, <3>2, <3>3, <3>4
      <3>6. firstwrite[d] # 0 => length[d] = BlockSize
        BY <2>2 DEF Tearing, TornBefore
      <3>7. QED
        BY <1>1, <1>4, <3>1, <3>2, <3>5, <3>6 DEF TornBefore
    <2>3. QED
      BY <1>1, <2>1, <2>2
  <1>7. ASSUME NEW e \in Devices \ {d} PROVE TornBefore(e)'
    <2>1. wpc'[e] = wpc[e]
      BY <1>1, <1>2
    <2>2. \A f \in Files : InTrack(f, e)' => InTrack(f, e) /\ row'[f] = row[f]
      BY <1>1, <1>3, <1>4 DEF InTrack
    <2>3. TornBefore(e)
      BY DEF Tearing
    <2>4. QED
      BY <1>1, <2>1, <2>2, <2>3, TornBeforeKept
  <1>8. QED
    BY <1>5, <1>6, <1>7 DEF Tearing

\* The file that is opened has no byte yet, and none follows it.
LEMMA OpenFileTearing ==
    ASSUME Base, Streaming', Tearing, NEW d \in Devices, NEW f \in Files, OpenFile(d, f)
    PROVE  Tearing'
  <1> DEFINE new == [dev |-> d, track |-> track[d], serial |-> serial[d], len |-> 0]
  <1>1. /\ wpc[d] = "open"
        /\ data' = [data EXCEPT ![f] = <<>>]
        /\ status' = [status EXCEPT ![f] = "ING"]
        /\ row' = [row EXCEPT ![f] = new]
        /\ length' = [length EXCEPT ![d] = HeaderSize]
        /\ wpc' = [wpc EXCEPT ![d] = "index"]
        /\ UNCHANGED <<serial, firstwrite, track>>
    BY DEF OpenFile
  <1>2. new.dev = d /\ new.track = track[d] /\ new.serial = serial[d]
    OBVIOUS
  <1> HIDE DEF new
  <1>3. /\ wpc \in [Devices -> {"idle", "run", "close", "open", "index", "end"}]
        /\ length \in [Devices -> Nat] /\ serial[d] \in Nat
        /\ status \in [Files -> {"NEW", "ING", "VIDEO"}]
        /\ row \in [Files -> Rows] /\ data \in [Files -> Seq(Bytes)]
    BY DEF Base, TypeOK
  <1>4. /\ data'[f] = <<>> /\ status'[f] = "ING" /\ row'[f] = new
        /\ \A g \in Files \ {f} : /\ data'[g] = data[g] /\ status'[g] = status[g]
                                  /\ row'[g] = row[g]
    BY <1>1, <1>3
  <1>5. Torn'
    <2>1. \A g \in Files : data'[g] \in Seq(Bytes)
      <3>1. data'[f] \in Seq(Bytes)
        BY <1>4, EmptySeq
      <3>2. QED
        BY <1>3, <1>4, <3>1
    <2>2. \A g \in Files : \A k \in DOMAIN data'[g] :
             k \in DOMAIN data[g] /\ data'[g][k] = data[g][k] /\ row'[g].serial = row[g].serial
      <3>1. DOMAIN data'[f] = {}
        BY <1>4
      <3>2. QED
        BY <1>4, <3>1
    <2>3. ASSUME NEW a \in Files, NEW b \in Files, Follows(a, b)', data'[b] # <<>>
          PROVE  Follows(a, b) /\ row'[a].len = row[a].len
      <3>1. status'[a] = "VIDEO"
        BY <2>3 DEF Streaming, Gapless
      <3>2. a # f /\ b # f
        BY <1>4, <2>3, <3>1
      <3>3. QED
        BY <1>4, <2>3, <3>2 DEF Follows
    <2>4. QED
      BY <2>1, <2>2, <2>3, TornKept DEF Tearing
  <1>6. TornBefore(d)'
    <2>1. firstwrite[d] # 0 =>
             /\ serial[d] # 0
             /\ \A g \in Files : InTrack(g, d) /\ row[g].serial + 1 = serial[d] =>
                   row[g].len = BlockSize
      BY <1>1 DEF Tearing, TornBefore
    <2>2. ASSUME NEW g \in Files, InTrack(g, d)', row'[g].serial + 1 = serial[d]
          PROVE  InTrack(g, d) /\ row'[g] = row[g]
      <3>1. g # f
        BY <1>2, <1>3, <1>4, <2>2
      <3>2. QED
        BY <1>1, <1>4, <2>2, <3>1 DEF InTrack
    <2>3. wpc'[d] = "index"
      BY <1>1, <1>3
    <2>4. QED
      BY <1>1, <2>1, <2>2, <2>3 DEF TornBefore
  <1>7. ASSUME NEW e \in Devices \ {d} PROVE TornBefore(e)'
    <2>1. wpc'[e] = wpc[e] /\ length'[e] = length[e]
      BY <1>1, <1>3
    <2>2. \A g \in Files : InTrack(g, e)' => InTrack(g, e) /\ row'[g] = row[g]
      BY <1>1, <1>2, <1>4 DEF InTrack
    <2>3. TornBefore(e)
      BY DEF Tearing
    <2>4. QED
      BY <1>1, <2>1, <2>2, <2>3, TornBeforeKept
  <1>8. QED
    BY <1>5, <1>6, <1>7 DEF Tearing

\* The first data of a new file is the rest of the split buffer, or its beginning.
LEMMA OpenIndexTearing ==
    ASSUME Base, Tearing, NEW d \in Devices, NEW k \in 0 .. BlockSize, OpenIndex(d, k)
    PROVE  Tearing'
  <1>1. /\ wpc[d] = "index"
        /\ AppendData(d, k, got[d] - rest[d], got[d] - rest[d] - firstwrite[d])
        /\ firstwrite' = [firstwrite EXCEPT ![d] = 0]
        /\ serial' = [serial EXCEPT ![d] = @ + 1]
        /\ length' = [length EXCEPT ![d] = IF k = rest[d] THEN @ + k ELSE @]
        /\ wpc' = [wpc EXCEPT ![d] = IF k = rest[d] THEN "run" ELSE "end"]
        /\ UNCHANGED <<status, row, fp, track>>
    BY DEF OpenIndex, catalogue
  <1>2. /\ wpc \in [Devices -> {"idle", "run", "close", "open", "index", "end"}]
        /\ serial \in [Devices -> Nat] /\ length \in [Devices -> Nat]
        /\ firstwrite \in [Devices -> Nat] /\ got[d] \in Nat /\ rest[d] \in Nat /\ k \in Nat
    BY RecordingAssumption DEF Base, TypeOK
  <1>3. /\ fp[d] \in Files /\ data[fp[d]] = <<>>
        /\ row[fp[d]].serial = serial[d] /\ InTrack(fp[d], d)
    <2>1. fp[d] # 0 /\ ~idxfp[d] /\ row[fp[d]].serial = serial[d]
      BY <1>1 DEF Base, OpenCoherent, RowsCoherent
    <2>2. data[fp[d]] = <<>>
      BY <2>1 DEF Base, RowsCoherent
    <2>3. QED
      BY <2>1, <2>2, StreamTypes
  <1>4. \A f \in Files : firstwrite[d] # 0 /\ Follows(f, fp[d]) => row[f].len = BlockSize
    <2>1. \A f \in Files : Follows(f, fp[d]) =>
             InTrack(f, d) /\ row[f].serial + 1 = serial[d]
      BY <1>3 DEF Follows, InTrack
    <2>2. QED
      BY <1>1, <2>1 DEF Tearing, TornBefore
  <1>5. firstwrite[d] # 0 => row[fp[d]].serial # 0
    BY <1>1, <1>3 DEF Tearing, TornBefore
  <1> DEFINE from == got[d] - rest[d]
             first == from - firstwrite[d]
  <1>6. /\ from \in Nat /\ first \in Nat
        /\ firstwrite[d] = 0 => first = from
        /\ firstwrite[d] # 0 => first < from
    <2>1. rest[d] + firstwrite[d] <= got[d] /\ firstwrite[d] \in Nat
      BY <1>1, <1>2 DEF Base, RestFits
    <2>2. QED
      BY <1>2, <2>1
  <1>7. AppendData(d, k, from, first)
    BY <1>1
  <1> HIDE DEF from, first
  <1>8. Torn'
    <2>1. Torn
      BY DEF Tearing
    <2>2. CASE firstwrite[d] = 0
      BY <1>1, <1>2, <1>3, <1>6, <1>7, <2>1, <2>2, TornGrown
    <2>3. CASE firstwrite[d] # 0
      BY <1>1, <1>2, <1>3, <1>4, <1>5, <1>6, <1>7, <2>1, <2>3, TornGrown
    <2>4. QED
      BY <2>2, <2>3
  <1>9. TornBefore(d)'
    BY <1>1, <1>2 DEF TornBefore
  <1>10. ASSUME NEW e \in Devices \ {d} PROVE TornBefore(e)'
    <2>1. /\ wpc'[e] = wpc[e] /\ length'[e] = length[e] /\ serial'[e] = serial[e]
          /\ firstwrite'[e] = firstwrite[e]
      BY <1>1, <1>2
    <2>2. \A f \in Files : InTrack(f, e)' => InTrack(f, e) /\ row'[f] = row[f]
      BY <1>1 DEF InTrack
    <2>3. TornBefore(e)
      BY DEF Tearing
    <2>4. QED
      BY <2>1, <2>2, <2>3, TornBeforeKept
  <1>11. QED
    BY <1>8, <1>9, <1>10 DEF Tearing

\* A crash takes bytes from the ends of files only.
LEMMA CrashTearing == Base /\ Tearing /\ Crash => Tearing'
  <1> SUFFICES ASSUME Base, Tearing, Crash PROVE Tearing'
    OBVIOUS
  <1>1. /\ \A d \in Devices : wpc'[d] = "idle"
        /\ UNCHANGED <<status, row>>
    BY CrashStep
  <1>2. /\ \A f \in Files : \A k \in DOMAIN data'[f] :
              k \in DOMAIN data[f] /\ data'[f][k] = data[f][k]
        /\ \A f \in Files : data'[f] \in Seq(Bytes)
    BY CrashKeepsData
  <1>3. \A f, g \in Files : Follows(f, g)' => Follows(f, g)
    BY <1>1 DEF Follows
  <1>4. Torn'
    BY <1>1, <1>2, <1>3, TornKept DEF Tearing
  <1>5. \A d \in Devices : TornBefore(d)'
    BY <1>1 DEF TornBefore
  <1>6. QED
    BY <1>4, <1>5 DEF Tearing

\* repair_db gives a length to no file that another one follows.
LEMMA RepairRowTearing ==
    ASSUME Base, Streaming, Tearing, NEW f \in Files, RepairRow(f)
    PROVE  Tearing'
  <1>1. /\ status[f] = "ING" /\ RowRepaired(f)
        /\ \A d \in Devices : wpc[d] = "idle"
        /\ UNCHANGED <<data, wpc>>
    BY RepairRowStep
  <1>2. \A g \in Files : data[g] \in Seq(Bytes)
    BY DEF Base, TypeOK
  <1>3. /\ \A g \in Files : /\ row'[g].dev = row[g].dev /\ row'[g].track = row[g].track
                            /\ row'[g].serial = row[g].serial
                            /\ status'[g] # "NEW" <=> status[g] # "NEW"
        /\ \A g \in Files \ {f} : row'[g] = row[g]
    BY <1>1 DEF RowRepaired
  <1>4. ASSUME NEW a \in Files, NEW b \in Files, Follows(a, b)'
        PROVE  Follows(a, b) /\ row'[a].len = row[a].len
    <2>1. Follows(a, b)
      BY <1>3, <1>4 DEF Follows
    <2>2. status[a] = "VIDEO"
      BY <2>1 DEF Streaming, Gapless
    <2>3. QED
      BY <1>1, <1>3, <2>1, <2>2
  <1>5. Torn'
    BY <1>1, <1>2, <1>3, <1>4, TornKept DEF Tearing
  <1>6. \A d \in Devices : TornBefore(d)'
    BY <1>1 DEF TornBefore
  <1>7. QED
    BY <1>5, <1>6 DEF Tearing

\* Every step keeps Tearing.
LEMMA NextTearing == Base /\ Streaming /\ Streaming' /\ Tearing /\ [Next]_vars => Tearing'
  <1> SUFFICES ASSUME Base, Streaming, Streaming', Tearing, [Next]_vars PROVE Tearing'
    OBVIOUS
  <1>1. CASE Tick \/ Restart \/ RepairDone \/ UNCHANGED vars
    <2>1. UNCHANGED <<status, row, data, wpc, length, serial, firstwrite, track>>
      BY <1>1 DEF Tick, Restart, RepairDone, vars, catalogue, disk, writer
    <2>2. QED
      BY <2>1, QuietTearing
  <1>2. ASSUME NEW d \in Devices, StartWriter(d) \/ EndWriter(d) \/ EndClosed(d) PROVE Tearing'
    <2>1. wpc \in [Devices -> {"idle", "run", "close", "open", "index", "end"}]
      BY DEF Base, TypeOK
    <2>2. /\ UNCHANGED <<status, row, data, length, firstwrite>>
          /\ wpc'[d] \in {"idle", "run", "end"}
          /\ \A e \in Devices \ {d} : wpc'[e] = wpc[e]
      BY <1>2, <2>1 DEF StartWriter, EndWriter, EndClosed, catalogue, disk
    <2>3. \A e \in Devices \ {d} : serial'[e] = serial[e] /\ track'[e] = track[e]
      <3>1. serial \in [Devices -> Nat] /\ track \in [Devices -> Nat]
        BY DEF Base, TypeOK
      <3>2. QED
        BY <1>2, <3>1 DEF StartWriter, EndWriter, EndClosed
    <2>4. QED
      BY <2>2, <2>3, QuietTearing
  <1>3. CASE Crash
    BY <1>3, CrashTearing
  <1>4. CASE \E f \in Files : RepairRow(f)
    BY <1>4, RepairRowTearing
  <1>5. ASSUME NEW d \in Devices, Writer(d) PROVE Tearing'
    BY <1>2, <1>5, ReceiveTearing, WriteFailsTearing, CloseFileTearing, OpenFileTearing,
       OpenIndexTearing DEF Writer
  <1>6. QED
    BY <1>1, <1>2, <1>3, <1>4, <1>5 DEF Next, Repair

\* In every reachable state the four layers hold.
THEOREM InvariantAlways == Spec => []IInv
  <1>1. Spec => []Streaming
    BY InitStreaming, NextStreaming, BaseAlways, IndexingAlways, PTL DEF Spec
  <1>2. Spec => []Tearing
    BY <1>1, InitTearing, NextTearing, BaseAlways, PTL DEF Spec
  <1>3. QED
    BY <1>1, <1>2, BaseAlways, IndexingAlways, PTL DEF IInv

\* The files of a track take its places in their order, without a gap or a place twice,
\* across full blocks, full indexes, crashes and repair, and only behind a full block, at
\* the beginning of a file, are bytes of an earlier place of the track: the repeated
\* beginning of a buffer that writer_file split (data_writer.cpp writer_file).
THEOREM TornOnlyAtSplitsAlways == Spec => []TornOnlyAtSplits
  <1>1. IInv => TornOnlyAtSplits
    BY DEF IInv, Streaming, Tearing, TornOnlyAtSplits
  <1>2. QED
    BY <1>1, InvariantAlways, PTL
===============================================================================
