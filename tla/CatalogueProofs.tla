---------------------------- MODULE CatalogueProofs ----------------------------
(***************************************************************************)
(* Proofs about what the catalogue lists and what is played of it: Tracks, *)
(* for any rows, tracks and times, and Playback, for every recording, cut  *)
(* into any files, every span and every size of the send buffer.           *)
(*                                                                         *)
(* Tracks.  What was recorded is found because the writer leaves files and *)
(* tracks in the order of their times (InSequence), because a track covers *)
(* its finished files whoever ends either of them (Covered), and because   *)
(* the index that a repair goes by names no file in use but the last one   *)
(* of the last track (IndexNames, Live).  All of it rests on where the     *)
(* writer is when it is stopped, fails or is cancelled (OneWriter,         *)
(* LastIsOpen, Writing).                                                   *)
(*                                                                         *)
(* Playback.  What is sent is one stretch because the files of the query   *)
(* follow each other in the recording (SelectProperties), because what is  *)
(* left of the list follows the file that is open (ListIsRest), and because*)
(* fread goes on behind what was read (GoesOn).                            *)
(***************************************************************************)
EXTENDS Playback, Tracks, FiniteSetTheorems, SequenceTheorems, TLAPS

-------------------------------------------------------------------------------
(* Listings.                                                               *)

\* The pairs of R order S in a line.
Linear(S, R) ==
    /\ \A x \in S : <<x, x>> \notin R
    /\ \A x, y, z \in S : <<x, y>> \in R /\ <<y, z>> \in R => <<x, z>> \in R
    /\ \A x, y \in S : x # y => <<x, y>> \in R \/ <<y, x>> \in R

\* A finite set in a line can be listed: the place of an element is the number of those
\* up to it.
LEMMA ListingExists ==
    ASSUME NEW S, IsFiniteSet(S), NEW R, Linear(S, R)
    PROVE  \E l \in [1 .. Cardinality(S) -> S] : \A i, j \in DOMAIN l : i < j => <<l[i], l[j]>> \in R
  <1> DEFINE n == Cardinality(S)
             upTo(x) == {y \in S : y = x \/ <<y, x>> \in R}
             place == [x \in S |-> Cardinality(upTo(x))]
             l == [i \in 1 .. n |-> CHOOSE x \in S : place[x] = i]
  <1>1. n \in Nat
    BY FS_CardinalityType
  <1>2. \A x \in S : IsFiniteSet(upTo(x)) /\ Cardinality(upTo(x)) \in 1 .. n
    <2> SUFFICES ASSUME NEW x \in S
                 PROVE  IsFiniteSet(upTo(x)) /\ Cardinality(upTo(x)) \in 1 .. n
      OBVIOUS
    <2>1. upTo(x) \in SUBSET S /\ x \in upTo(x)
      OBVIOUS
    <2>2. IsFiniteSet(upTo(x)) /\ Cardinality(upTo(x)) <= n
      BY <2>1, FS_Subset
    <2>3. Cardinality(upTo(x)) \in Nat /\ Cardinality(upTo(x)) # 0
      BY <2>1, <2>2, FS_CardinalityType, FS_EmptySet
    <2>4. QED
      BY <1>1, <2>2, <2>3
  <1>3. \A x, y \in S : <<x, y>> \in R => place[x] < place[y]
    <2> SUFFICES ASSUME NEW x \in S, NEW y \in S, <<x, y>> \in R PROVE place[x] < place[y]
      OBVIOUS
    <2>1. upTo(x) \in SUBSET upTo(y) /\ y \in upTo(y) /\ y \notin upTo(x)
      <3>1. x # y /\ <<y, x>> \notin R
        BY DEF Linear
      <3>2. \A z \in S : <<z, x>> \in R => <<z, y>> \in R
        BY DEF Linear
      <3> HIDE DEF place
      <3>3. QED
        BY <3>1, <3>2
    <2>2. Cardinality(upTo(x)) <= Cardinality(upTo(y)) /\ Cardinality(upTo(x)) # Cardinality(upTo(y))
      BY <1>2, <2>1, FS_Subset
    <2>3. QED
      BY <1>2, <2>2
  <1>4. place \in [S -> 1 .. n]
    BY <1>2
  <1> HIDE DEF place
  <1>5. \A x, y \in S : place[x] = place[y] => x = y
    <2> SUFFICES ASSUME NEW x \in S, NEW y \in S, place[x] = place[y], x # y PROVE FALSE
      OBVIOUS
    <2>1. <<x, y>> \in R \/ <<y, x>> \in R
      BY DEF Linear
    <2>2. place[x] \in Int /\ place[y] \in Int
      BY <1>4
    <2>3. QED
      BY <1>3, <2>1, <2>2
  <1>6. place \in Injection(S, 1 .. n)
    BY <1>4, <1>5 DEF Injection, IsInjective
  <1>7. IsFiniteSet(1 .. n) /\ Cardinality(1 .. n) = n
    BY <1>1, FS_Interval
  <1>8. place \in Surjection(S, 1 .. n)
    BY <1>6, <1>7, FS_Injection
  <1>9. \A i \in 1 .. n : \E x \in S : place[x] = i
    BY <1>8 DEF Surjection
  <1>10. \A i \in 1 .. n : l[i] \in S /\ place[l[i]] = i
    BY <1>9
  <1>11. l \in [1 .. n -> S] /\ DOMAIN l = 1 .. n
    BY <1>10
  <1> HIDE DEF l
  <1>12. \A i, j \in 1 .. n : i < j => <<l[i], l[j]>> \in R
    <2> SUFFICES ASSUME NEW i \in 1 .. n, NEW j \in 1 .. n, i < j PROVE <<l[i], l[j]>> \in R
      OBVIOUS
    <2>1. l[i] \in S /\ l[j] \in S /\ place[l[i]] = i /\ place[l[j]] = j
      BY <1>10
    <2>2. l[i] # l[j]
      BY <1>1, <2>1
    <2>3. <<l[i], l[j]>> \in R \/ <<l[j], l[i]>> \in R
      BY <2>1, <2>2 DEF Linear
    <2>4. <<l[j], l[i]>> \notin R
      <3>1. ~(place[l[j]] < place[l[i]])
        BY <1>1, <2>1
      <3>2. QED
        BY <1>3, <2>1, <3>1
    <2>5. QED
      BY <2>3, <2>4
  <1>13. QED
    BY <1>11, <1>12

\* The elements are all listed, and in their order.
LEMMA OrderByProperties ==
    ASSUME NEW S, IsFiniteSet(S), NEW R, Linear(S, R)
    PROVE  /\ OrderBy(S, R) \in Seq(S)
           /\ \A i, j \in 1 .. Len(OrderBy(S, R)) : i < j => <<OrderBy(S, R)[i], OrderBy(S, R)[j]>> \in R
           /\ \A x \in S : \E i \in 1 .. Len(OrderBy(S, R)) : OrderBy(S, R)[i] = x
  <1> DEFINE n == Cardinality(S)
             l == OrderBy(S, R)
  <1>1. n \in Nat /\ IsFiniteSet(1 .. n) /\ Cardinality(1 .. n) = n
    BY FS_CardinalityType, FS_Interval
  <1>2. l \in [1 .. n -> S] /\ \A i, j \in DOMAIN l : i < j => <<l[i], l[j]>> \in R
    BY ListingExists DEF OrderBy
  <1> HIDE DEF l
  <1>3. l \in Seq(S) /\ Len(l) = n
    BY <1>1, <1>2, SeqDef
  <1>4. \A i, j \in 1 .. n : l[i] = l[j] => i = j
    <2> SUFFICES ASSUME NEW i \in 1 .. n, NEW j \in 1 .. n, l[i] = l[j], i # j PROVE FALSE
      OBVIOUS
    <2>1. l[i] \in S /\ <<l[i], l[i]>> \notin R
      BY <1>2 DEF Linear
    <2>2. i < j \/ j < i
      BY <1>1
    <2>3. QED
      BY <1>2, <2>1, <2>2
  <1>5. l \in Injection(1 .. n, S)
    BY <1>2, <1>4 DEF Injection, IsInjective
  <1>6. l \in Surjection(1 .. n, S)
    BY <1>1, <1>5, FS_Injection
  <1>7. \A x \in S : \E i \in 1 .. n : l[i] = x
    BY <1>6 DEF Surjection
  <1>8. QED
    BY <1>2, <1>3, <1>7 DEF l

-------------------------------------------------------------------------------
(* Tracks: the inductive invariant.                                        *)

Row   == [st : Nat, et : Nat, status : {"ING", "ED", "gone"}]
Entry == [status : {"NEW", "ING", "VIDEO"}, st : Nat, et : Nat, track : Nat, serial : Nat]
Busy  == {"run", "open", "index", "entry"}

\* What the variables hold.
Typed ==
    /\ now \in 1 .. MaxTime /\ {up, wrun} \subseteq BOOLEAN
    /\ rows \in Seq(Row) /\ block \in [Blocks -> Entry]
    /\ idx \in [track : Nat, serial : Nat, last : Nat] /\ (idx # NoIndex => idx.last <= now)
    /\ pc \in Threads /\ ctl \in {"idle", "join", "close", "end"}
    /\ track \in Nat /\ serial \in Nat /\ cur \in Blocks \cup {0} /\ stamp \in Nat
    /\ \A i \in DOMAIN rows : rows[i].st <= now /\ (rows[i].status = "ING" => rows[i].et = Open)
    /\ \A f \in Blocks : /\ block[f].track <= Len(rows) /\ block[f].st <= now
                         /\ block[f].status # "NEW" => block[f].track >= 1
                         /\ block[f].status = "VIDEO" => block[f].st <= block[f].et /\ block[f].et <= now

\* One thread writes, until it clears m_brun itself or stop_thead waits for it.
OneWriter ==
    /\ pc.old = "none"
    /\ wrun => ctl = "idle"
    /\ ctl = "idle" => (wrun <=> pc.new \in Busy \cup {"begin"})
    /\ ctl \in {"close", "end"} => pc.new \in {"none", "close", "end"}
    /\ ~up => pc.new = "none" /\ ctl = "idle" /\ cur = 0

\* Only the last track is open, and somebody will end it.
LastIsOpen ==
    \A i \in DOMAIN rows : rows[i].status = "ING" =>
        /\ i = Len(rows)
        /\ up => i = track /\ pc.new # "begin" /\ (pc.new # "none" \/ ctl # "idle")

\* File f is the last one of the open track, which begins no later than it.
Live(f) ==
    /\ f \in Blocks /\ block[f].status = "ING" /\ block[f].track = Len(rows)
    /\ rows[Len(rows)].status = "ING" /\ rows[Len(rows)].st <= block[f].st
    /\ \A g \in Blocks \ {f} : block[g].track = Len(rows) => block[g].serial < block[f].serial

\* Where the writer is in its track and its file.
Writing ==
    /\ cur # 0 => /\ Live(cur) /\ track = Len(rows)
                  /\ ctl # "end"
                  /\ \/ pc.new \in {"run", "index", "entry", "close"}
                     \/ pc.new = "none" /\ ctl \in {"join", "close"}
    /\ pc.new \in Busy =>
          /\ track = Len(rows) /\ track # 0 /\ rows[track].status = "ING"
          /\ \A f \in Blocks : block[f].status = "ING" /\ f # cur => block[f].track < track
    /\ pc.new \in {"run", "open"} => \A f \in Blocks : block[f].track = track => block[f].serial < serial
    /\ pc.new \in {"index", "entry"} => cur # 0 /\ block[cur].serial = serial
    /\ pc.new \in {"run", "open", "index"} =>
          idx.track < track \/ (idx.track = track /\ idx.serial < serial)

\* The index names no file in use but the one that is written, or was when the process
\* ended; its last entry is not before that file.
IndexNames ==
    /\ idx.track <= Len(rows)
    /\ \A f \in Blocks :
          block[f].status = "ING" /\ block[f].track = idx.track /\ block[f].serial = idx.serial =>
              /\ IF up THEN f = cur ELSE Live(f)
              /\ idx.last # 0 => block[f].st <= idx.last

\* Tracks follow each other with their files, and the files of a track with their numbers:
\* a finished file ends before the next one begins.
InSequence ==
    /\ \A i, j \in DOMAIN rows : i < j => rows[i].st <= rows[j].st
    /\ \A f \in Blocks, i \in DOMAIN rows :
          /\ block[f].track # 0 /\ block[f].track < i =>
                block[f].st <= rows[i].st /\ (block[f].status = "VIDEO" => block[f].et <= rows[i].st)
          /\ i < block[f].track => rows[i].st <= block[f].st
    /\ \A f, g \in Blocks : block[f].track # 0 =>
          /\ \/ block[f].track < block[g].track
             \/ block[f].track = block[g].track /\ block[f].serial < block[g].serial
             => block[f].st <= block[g].st /\ (block[f].status = "VIDEO" => block[f].et <= block[g].st)
          /\ block[f].track = block[g].track /\ block[f].serial = block[g].serial => f = g

\* The track of a finished file is there and covers it.
Covered ==
    \A f \in Blocks : block[f].status = "VIDEO" /\ block[f].st < block[f].et =>
        LET r == rows[block[f].track] IN
        r.status # "gone" /\ r.st <= block[f].st /\ block[f].et <= r.et

Good == Typed /\ OneWriter /\ LastIsOpen /\ Writing /\ IndexNames /\ InSequence /\ Covered

\* While nothing unusual has happened.
TracksInv == Usual => Good

-------------------------------------------------------------------------------
(* The variables and their fields.                                         *)

\* What Typed says of the parts.
LEMMA Parts ==
    ASSUME Typed
    PROVE  /\ now \in Nat /\ Open \in Nat /\ now < Open /\ now >= 1
           /\ Len(rows) \in Nat /\ DOMAIN rows = 1 .. Len(rows)
           /\ \A i \in 1 .. Len(rows) : /\ rows[i] \in Row
                                       /\ rows[i].st \in Nat /\ rows[i].et \in Nat
                                       /\ rows[i].status \in {"ING", "ED", "gone"}
           /\ DOMAIN block = Blocks /\ Blocks \subseteq Nat /\ 0 \notin Blocks
           /\ \A f \in Blocks : /\ block[f] \in Entry
                                /\ block[f].status \in {"NEW", "ING", "VIDEO"}
                                /\ block[f].st \in Nat /\ block[f].et \in Nat
                                /\ block[f].track \in Nat /\ block[f].serial \in Nat
           /\ idx.track \in Nat /\ idx.serial \in Nat /\ idx.last \in Nat
           /\ DOMAIN pc = {"old", "new"}
           /\ pc.old \in {"none", "close", "end"}
           /\ pc.new \in {"none", "begin", "run", "open", "index", "entry", "close", "end"}
  <1>1. now \in Nat /\ Open \in Nat /\ now < Open /\ now >= 1
    BY TracksAssumption DEF Typed, Open
  <1>2. /\ Len(rows) \in Nat /\ DOMAIN rows = 1 .. Len(rows)
        /\ \A i \in 1 .. Len(rows) : rows[i] \in Row
    BY LenProperties, ElementOfSeq DEF Typed
  <1>3. \A i \in 1 .. Len(rows) : /\ rows[i].st \in Nat /\ rows[i].et \in Nat
                                  /\ rows[i].status \in {"ING", "ED", "gone"}
    BY <1>2 DEF Row
  <1>4. DOMAIN block = Blocks /\ Blocks \subseteq Nat /\ 0 \notin Blocks
    BY TracksAssumption DEF Typed
  <1>5. \A f \in Blocks : block[f] \in Entry
    BY DEF Typed
  <1>6. \A f \in Blocks : /\ block[f].status \in {"NEW", "ING", "VIDEO"}
                          /\ block[f].st \in Nat /\ block[f].et \in Nat
                          /\ block[f].track \in Nat /\ block[f].serial \in Nat
    BY <1>5 DEF Entry
  <1>7. idx.track \in Nat /\ idx.serial \in Nat /\ idx.last \in Nat
    BY DEF Typed
  <1>8. /\ DOMAIN pc = {"old", "new"}
        /\ pc.old \in {"none", "close", "end"}
        /\ pc.new \in {"none", "begin", "run", "open", "index", "entry", "close", "end"}
    BY DEF Typed, Threads
  <1>9. QED
    BY <1>1, <1>2, <1>3, <1>4, <1>5, <1>6, <1>7, <1>8

\* An empty catalogue.
LEMMA InitGood == TracksInit => Good
  <1> SUFFICES ASSUME TracksInit PROVE Good
    OBVIOUS
  <1>1. /\ now = 1 /\ up = TRUE /\ rows = <<>> /\ idx = NoIndex
        /\ pc = [old |-> "none", new |-> "none"] /\ ctl = "idle"
        /\ wrun = FALSE /\ track = 0 /\ serial = 0 /\ cur = 0 /\ stamp = 0
        /\ block = [f \in Blocks |-> [status |-> "NEW", st |-> 0, et |-> 0, track |-> 0, serial |-> 0]]
    BY DEF TracksInit
  <1>2. Len(rows) = 0 /\ DOMAIN rows = {} /\ rows \in Seq(Row)
    BY <1>1
  <1>3. /\ block \in [Blocks -> Entry]
        /\ \A f \in Blocks : /\ block[f].status = "NEW" /\ block[f].st = 0
                             /\ block[f].track = 0 /\ block[f].serial = 0
    BY <1>1 DEF Entry
  <1>4. idx \in [track : Nat, serial : Nat, last : Nat] /\ idx = NoIndex /\ idx.track = 0
    BY <1>1, TracksAssumption DEF NoIndex, Open
  <1>5. pc \in Threads /\ pc.old = "none" /\ pc.new = "none"
    BY <1>1 DEF Threads
  <1>6. Typed
    <2>1. now \in 1 .. MaxTime /\ {up, wrun} \subseteq BOOLEAN
      <3>1. MaxTime \in Nat \ {0}
        BY TracksAssumption
      <3>2. now \in 1 .. MaxTime
        BY <1>1, <3>1
      <3>3. QED
        BY <1>1, <3>2
    <2>2. /\ ctl \in {"idle", "join", "close", "end"} /\ cur \in Blocks \cup {0}
          /\ track \in Nat /\ serial \in Nat /\ stamp \in Nat
      BY <1>1
    <2>3. \A f \in Blocks : /\ block[f].track <= Len(rows) /\ block[f].st <= now
                            /\ block[f].status # "NEW" => block[f].track >= 1
                            /\ block[f].status # "VIDEO"
      BY <1>1, <1>2, <1>3
    <2>4. QED
      BY <1>2, <1>3, <1>4, <1>5, <2>1, <2>2, <2>3 DEF Typed
  <1>7. OneWriter
    BY <1>1, <1>5 DEF OneWriter, Busy
  <1>8. LastIsOpen
    BY <1>2 DEF LastIsOpen
  <1>9. Writing
    BY <1>1, <1>5 DEF Writing, Busy
  <1>10. IndexNames
    BY <1>2, <1>3, <1>4 DEF IndexNames
  <1>11. InSequence
    BY <1>2, <1>3 DEF InSequence
  <1>12. Covered
    BY <1>3 DEF Covered
  <1>13. QED
    BY <1>6, <1>7, <1>8, <1>9, <1>10, <1>11, <1>12 DEF Good

-------------------------------------------------------------------------------
(* Steps that leave the catalogue and the index alone.                     *)

\* What depends on the catalogue, the index and the open file only.
LEMMA SameCatalogue ==
    ASSUME Good, UNCHANGED <<now, up, rows, block, idx, cur>>
    PROVE  /\ IndexNames' /\ InSequence' /\ Covered'
           /\ \A f : Live(f)' <=> Live(f)
           /\ /\ pc' \in Threads /\ ctl' \in {"idle", "join", "close", "end"} /\ wrun' \in BOOLEAN
              /\ track' \in Nat /\ serial' \in Nat /\ stamp' \in Nat
              => Typed'
  <1>1. IndexNames' /\ \A f : Live(f)' <=> Live(f)
    BY DEF Good, IndexNames, Live
  <1>2. InSequence' /\ Covered'
    BY DEF Good, InSequence, Covered
  <1>3. ASSUME pc' \in Threads, ctl' \in {"idle", "join", "close", "end"}, wrun' \in BOOLEAN,
               track' \in Nat, serial' \in Nat, stamp' \in Nat
        PROVE  Typed'
    BY <1>3 DEF Good, Typed, Open
  <1>4. QED
    BY <1>1, <1>2, <1>3

\* The thread gives up.
LEMMA FailStep == Good /\ Fail => Good'
  <1> SUFFICES ASSUME Good, Fail PROVE Good'
    OBVIOUS
  <1> USE DEF Good
  <1>1. /\ UNCHANGED <<now, up, rows, block, idx, cur>> /\ UNCHANGED <<track, serial, stamp, ctl>>
        /\ pc.new \in {"run", "open", "index"} /\ (pc.new = "run" => wrun)
        /\ pc' = [pc EXCEPT !.new = "close"] /\ wrun' = FALSE
    BY DEF Fail, catalogue
  <1>2. pc' \in Threads /\ pc'.old = pc.old /\ pc'.new = "close"
    BY <1>1 DEF Typed, Threads
  <1>3. Typed'
    BY <1>1, <1>2, SameCatalogue DEF Typed
  <1>4. OneWriter'
    BY <1>1, <1>2, Parts DEF OneWriter, Busy
  <1>5. LastIsOpen'
    BY <1>1, <1>2, Parts DEF LastIsOpen
  <1>6. Writing'
    BY <1>1, <1>2, SameCatalogue, Parts DEF Writing, Busy
  <1>7. QED
    BY <1>1, <1>3, <1>4, <1>5, <1>6, SameCatalogue

\* The thread sees that it is to end, or is cancelled.
LEMMA LeaveStep == Good /\ (LeaveLoop \/ Cancelled) => Good'
  <1> SUFFICES ASSUME Good, LeaveLoop \/ Cancelled PROVE Good'
    OBVIOUS
  <1> USE DEF Good
  <1>1. /\ UNCHANGED <<now, up, rows, block, idx, cur>> /\ UNCHANGED <<track, serial, stamp, ctl, wrun>>
        /\ pc.new # "none" /\ pc' = [pc EXCEPT !.new = "none"]
        /\ ctl = "join" \/ (pc.new = "run" /\ ~wrun)
    BY DEF LeaveLoop, Cancelled, catalogue, writer
  <1>2. pc' \in Threads /\ pc'.old = pc.old /\ pc'.new = "none"
    BY <1>1 DEF Typed, Threads
  <1>3. ctl = "join" /\ ~wrun
    BY <1>1, Parts DEF OneWriter, Busy, Typed
  <1>4. Typed'
    BY <1>1, <1>2, SameCatalogue DEF Typed
  <1>5. OneWriter'
    BY <1>1, <1>2, <1>3, Parts DEF OneWriter, Busy
  <1>6. LastIsOpen'
    BY <1>1, <1>2, <1>3, Parts DEF LastIsOpen
  <1>7. Writing'
    BY <1>1, <1>2, <1>3, SameCatalogue, Parts DEF Writing, Busy
  <1>8. QED
    BY <1>1, <1>4, <1>5, <1>6, <1>7, SameCatalogue

\* A thread is started when none is left.
LEMMA StartStep == Good /\ Start /\ Usual' => Good'
  <1> SUFFICES ASSUME Good, Start, Usual' PROVE Good'
    OBVIOUS
  <1> USE DEF Good
  <1>1. /\ UNCHANGED <<now, up, rows, block, idx, cur>> /\ UNCHANGED <<track, serial, stamp, ctl>>
        /\ up /\ ctl = "idle" /\ ~wrun /\ wrun' = TRUE
        /\ pc' = [old |-> IF pc.new = "none" THEN pc.old ELSE pc.new, new |-> "begin"]
        /\ pc'.old = "none"
    BY DEF Start, catalogue, Usual
  <1>2. pc'.new = "begin" /\ pc.new = "none"
    <2>1. pc'.old = IF pc.new = "none" THEN pc.old ELSE pc.new
      BY <1>1
    <2>2. QED
      BY <1>1, <2>1
  <1>3. pc' \in Threads
    BY <1>1, <1>2 DEF Typed, Threads
  <1>4. Typed'
    BY <1>1, <1>3, SameCatalogue DEF Typed
  <1>5. OneWriter'
    BY <1>1, <1>2 DEF OneWriter, Busy
  <1>6. LastIsOpen'
    BY <1>1, <1>2, Parts DEF LastIsOpen
  <1>7. Writing'
    BY <1>1, <1>2, SameCatalogue, Parts DEF Writing, Busy
  <1>8. QED
    BY <1>1, <1>4, <1>5, <1>6, <1>7, SameCatalogue

\* The stop waits for a thread that runs, and for no other.
LEMMA StopStep == Good /\ (StopWriter \/ Joined) => Good'
  <1> SUFFICES ASSUME Good, StopWriter \/ Joined PROVE Good'
    OBVIOUS
  <1> USE DEF Good
  <1>1. /\ UNCHANGED <<now, up, rows, block, idx, cur>> /\ UNCHANGED <<track, stamp, pc>>
        /\ wrun' \in BOOLEAN /\ ~wrun' /\ ctl' \in {"join", "close"} /\ serial' \in Nat
        /\ \/ up /\ ctl = "idle" /\ (ctl' = IF wrun THEN "join" ELSE "close") /\ serial' = serial
           \/ ctl = "join" /\ pc.new = "none" /\ ctl' = "close"
    <2>1. CASE StopWriter
      BY <2>1 DEF StopWriter, catalogue, Typed
    <2>2. CASE Joined
      BY <2>2 DEF Joined, catalogue, Typed, OneWriter
    <2>3. QED
      BY <2>1, <2>2
  <1>2. Typed'
    BY <1>1, SameCatalogue DEF Typed
  <1>3. OneWriter'
    BY <1>1, Parts DEF OneWriter, Busy
  <1>4. LastIsOpen'
    BY <1>1, Parts DEF LastIsOpen
  <1>5. Writing'
    BY <1>1, SameCatalogue, Parts DEF Writing, Busy, OneWriter
  <1>6. QED
    BY <1>1, <1>2, <1>3, <1>4, <1>5, SameCatalogue

-------------------------------------------------------------------------------
(* The clock and the index.                                                *)

\* Time passes.
LEMMA TickStep == Good /\ Tick => Good'
  <1> SUFFICES ASSUME Good, Tick PROVE Good'
    OBVIOUS
  <1> USE DEF Good
  <1>1. /\ now < MaxTime /\ now' = now + 1
        /\ UNCHANGED <<up, rows, block, idx, pc, ctl, wrun, track, serial, cur, stamp>>
    BY DEF Tick, catalogue, writer
  <1>2. now' \in 1 .. MaxTime /\ now <= now' /\ Open' = Open
    <2>1. MaxTime \in Nat
      BY TracksAssumption
    <2>2. QED
      BY <1>1, <2>1 DEF Typed, Open
  <1>3. Typed'
    <2>1. idx' # NoIndex' => idx'.last <= now'
      BY <1>1, <1>2, Parts DEF Typed, NoIndex
    <2>2. \A i \in DOMAIN rows : rows[i].st <= now'
      <3> TAKE i \in DOMAIN rows
      <3>1. rows[i].st \in Nat /\ rows[i].st <= now /\ now \in Nat
        BY Parts DEF Typed
      <3>2. now' \in Nat /\ now <= now'
        BY <1>1, <3>1
      <3>3. QED
        BY <3>1, <3>2
    <2>3. \A f \in Blocks : /\ block[f].st <= now'
                            /\ block[f].status = "VIDEO" => block[f].et <= now'
      BY <1>2, Parts DEF Typed
    <2>4. QED
      BY <1>1, <1>2, <2>1, <2>2, <2>3 DEF Typed
  <1>4. OneWriter' /\ LastIsOpen'
    BY <1>1 DEF OneWriter, LastIsOpen
  <1>5. Writing' /\ IndexNames'
    BY <1>1 DEF Writing, IndexNames, Live
  <1>6. InSequence' /\ Covered'
    BY <1>1 DEF InSequence, Covered
  <1>7. QED
    BY <1>3, <1>4, <1>5, <1>6

\* An entry is added to the index: it names the same file.
LEMMA WriteStep == Good /\ Write => Good'
  <1> SUFFICES ASSUME Good, Write PROVE Good'
    OBVIOUS
  <1> USE DEF Good
  <1>1. /\ UNCHANGED <<now, up, rows, block, pc, ctl, wrun, track, serial, cur>>
        /\ idx' = [idx EXCEPT !.last = now] /\ stamp' = now
    BY DEF Write, catalogue
  <1>2. /\ idx' \in [track : Nat, serial : Nat, last : Nat] /\ idx'.last = now
        /\ idx'.track = idx.track /\ idx'.serial = idx.serial
    BY <1>1, Parts DEF Typed
  <1>3. Typed'
    BY <1>1, <1>2, Parts DEF Typed, Open
  <1>4. OneWriter' /\ LastIsOpen'
    BY <1>1 DEF OneWriter, LastIsOpen
  <1>5. Writing'
    BY <1>1, <1>2 DEF Writing, Live
  <1>6. IndexNames'
    BY <1>1, <1>2 DEF IndexNames, Live, Typed
  <1>7. InSequence' /\ Covered'
    BY <1>1 DEF InSequence, Covered
  <1>8. QED
    BY <1>3, <1>4, <1>5, <1>6, <1>7

\* The index is emptied: it names no file.
LEMMA OpenIndexStep == Good /\ OpenIndex => Good'
  <1> SUFFICES ASSUME Good, OpenIndex PROVE Good'
    OBVIOUS
  <1> USE DEF Good
  <1>1. /\ UNCHANGED <<now, up, rows, block, ctl, wrun, track, serial, cur, stamp>>
        /\ pc.new = "index" /\ pc' = [pc EXCEPT !.new = "entry"]
        /\ idx' = [NoIndex EXCEPT !.last = 0]
    BY DEF OpenIndex, catalogue, writer
  <1>2. pc' \in Threads /\ pc'.old = pc.old /\ pc'.new = "entry"
    BY <1>1 DEF Typed, Threads
  <1>3. /\ idx' \in [track : Nat, serial : Nat, last : Nat]
        /\ idx'.last = 0 /\ idx'.track = 0 /\ idx'.serial = 0
    BY <1>1 DEF NoIndex
  <1>4. Typed'
    BY <1>1, <1>2, <1>3, Parts DEF Typed, Open
  <1>5. OneWriter' /\ LastIsOpen'
    BY <1>1, <1>2 DEF OneWriter, LastIsOpen, Busy
  <1>6. Writing'
    BY <1>1, <1>2, <1>3 DEF Writing, Live, Busy
  <1>7. IndexNames'
    <2>1. \A f \in Blocks : block[f].status = "ING" => block[f].track # 0
      BY Parts DEF Typed
    <2>2. 0 <= Len(rows)
      BY Parts
    <2>3. QED
      BY <1>1, <1>3, <2>1, <2>2 DEF IndexNames
  <1>8. InSequence' /\ Covered'
    BY <1>1 DEF InSequence, Covered
  <1>9. QED
    BY <1>4, <1>5, <1>6, <1>7, <1>8

\* The head of the index names the file that is open.
LEMMA FirstEntryStep == Good /\ FirstEntry => Good'
  <1> SUFFICES ASSUME Good, FirstEntry PROVE Good'
    OBVIOUS
  <1> USE DEF Good
  <1>1. /\ UNCHANGED <<now, up, rows, block, ctl, wrun, track, cur>>
        /\ pc.new = "entry" /\ pc' = [pc EXCEPT !.new = "run"] /\ serial' = serial + 1
        /\ idx' = [track |-> track, serial |-> serial, last |-> IF stamp = now THEN 0 ELSE now]
        /\ stamp' = now
    BY DEF FirstEntry, catalogue
  <1>2. pc' \in Threads /\ pc'.old = pc.old /\ pc'.new = "run"
    BY <1>1 DEF Typed, Threads
  <1>3. /\ idx' \in [track : Nat, serial : Nat, last : Nat]
        /\ idx'.last \in {0, now} /\ idx'.track = track /\ idx'.serial = serial
    BY <1>1, Parts DEF Typed
  <1>4. /\ track \in Nat /\ serial \in Nat /\ track # 0 /\ track = Len(rows)
        /\ cur # 0 /\ Live(cur) /\ block[cur].serial = serial /\ cur \in Blocks
        /\ \A f \in Blocks : block[f].status = "ING" /\ f # cur => block[f].track < track
    BY <1>1 DEF Typed, Writing, Busy, Live
  <1>5. Typed'
    BY <1>1, <1>2, <1>3, <1>4, Parts DEF Typed, Open
  <1>6. OneWriter' /\ LastIsOpen'
    BY <1>1, <1>2 DEF OneWriter, LastIsOpen, Busy
  <1>7. Writing'
    <2>1. \A f \in Blocks : block[f].track = track => block[f].serial < serial'
      <3> TAKE f \in Blocks
      <3>1. CASE f = cur
        BY <1>1, <1>4, <3>1
      <3>2. CASE f # cur
        BY <1>1, <1>4, <3>2, Parts DEF Live
      <3>3. QED
        BY <3>1, <3>2
    <2>2. idx'.track = track /\ idx'.serial < serial'
      BY <1>1, <1>3, <1>4
    <2>3. QED
      BY <1>1, <1>2, <1>4, <2>1, <2>2 DEF Writing, Live, Busy
  <1>8. IndexNames'
    <2>1. up
      BY <1>1 DEF OneWriter
    <2>2. \A f \in Blocks : block[f].status = "ING" /\ block[f].track = track => f = cur
      BY <1>4, Parts
    <2>3. QED
      BY <1>1, <1>3, <1>4, <2>1, <2>2, Parts DEF IndexNames, Typed
  <1>9. InSequence' /\ Covered'
    BY <1>1 DEF InSequence, Covered
  <1>10. QED
    BY <1>5, <1>6, <1>7, <1>8, <1>9

-------------------------------------------------------------------------------
(* Files are closed and tracks are ended.                                  *)

\* The open file is finished: it ends now, which no track and no file comes after.
LEMMA CloseFileKeeps ==
    ASSUME Good, CloseFile, UNCHANGED <<now, up, rows, idx>>
    PROVE  /\ block' \in [Blocks -> Entry] /\ cur' = 0
           /\ \A f \in Blocks : /\ block'[f].track = block[f].track /\ block'[f].serial = block[f].serial
                                /\ block'[f].st = block[f].st
                                /\ block'[f].status = IF f = cur THEN "VIDEO" ELSE block[f].status
                                /\ block'[f].et = IF f = cur THEN now ELSE block[f].et
           /\ IndexNames' /\ InSequence' /\ Covered'
           /\ /\ pc' \in Threads /\ ctl' \in {"idle", "join", "close", "end"} /\ wrun' \in BOOLEAN
              /\ track' \in Nat /\ serial' \in Nat /\ stamp' \in Nat
              => Typed'
  <1> USE DEF Good
  <1>1. /\ cur' = 0 /\ now' = now /\ up' = up /\ rows' = rows /\ idx' = idx
        /\ block' = IF cur = 0 THEN block
                    ELSE [block EXCEPT ![cur].et = now, ![cur].status = "VIDEO"]
    BY DEF CloseFile
  <1>2. \A f \in Blocks : block'[f] = IF f = cur THEN [block[f] EXCEPT !.et = now, !.status = "VIDEO"]
                                      ELSE block[f]
    <2>1. CASE cur = 0
      BY <1>1, <2>1, Parts
    <2>2. CASE cur # 0
      BY <1>1, <2>2, Parts DEF Typed
    <2>3. QED
      BY <2>1, <2>2
  <1>3. \A f \in Blocks : /\ block'[f] \in Entry
                          /\ block'[f].track = block[f].track /\ block'[f].serial = block[f].serial
                          /\ block'[f].st = block[f].st
                          /\ block'[f].status = IF f = cur THEN "VIDEO" ELSE block[f].status
                          /\ block'[f].et = IF f = cur THEN now ELSE block[f].et
    <2> SUFFICES ASSUME NEW f \in Blocks
                 PROVE  /\ block'[f] \in Entry
                        /\ block'[f].track = block[f].track /\ block'[f].serial = block[f].serial
                        /\ block'[f].st = block[f].st
                        /\ block'[f].status = IF f = cur THEN "VIDEO" ELSE block[f].status
                        /\ block'[f].et = IF f = cur THEN now ELSE block[f].et
      OBVIOUS
    <2>1. block[f] \in Entry /\ now \in Nat
      BY Parts
    <2>2. QED
      BY <1>2, <2>1 DEF Entry
  <1>4. block' \in [Blocks -> Entry]
    <2>1. DOMAIN block' = Blocks /\ block' = [f \in Blocks |-> block'[f]]
      BY <1>1, Parts DEF Typed
    <2>2. QED
      BY <1>3, <2>1
  <1>5. cur # 0 => /\ cur \in Blocks /\ block[cur].status = "ING" /\ block[cur].track = Len(rows)
                   /\ rows[Len(rows)].status = "ING" /\ rows[Len(rows)].st <= block[cur].st
                   /\ \A g \in Blocks \ {cur} :
                         block[g].track = Len(rows) => block[g].serial < block[cur].serial
    BY DEF Writing, Live
  <1>6. IndexNames'
    <2>1. ~up => cur = 0
      BY DEF OneWriter
    <2>2. \A f \in Blocks : block'[f].status = "ING" => block[f].status = "ING" /\ f # cur
      BY <1>3
    <2>3. CASE up
      BY <1>1, <1>3, <2>2, <2>3 DEF IndexNames
    <2>4. CASE ~up
      BY <1>1, <2>1, <2>4 DEF IndexNames, Live
    <2>5. QED
      BY <2>3, <2>4
  <1>7. InSequence'
    <2>1. \A i, j \in DOMAIN rows : i < j => rows[i].st <= rows[j].st
      BY DEF InSequence
    <2>2. ASSUME NEW f \in Blocks, NEW i \in DOMAIN rows
          PROVE  /\ block'[f].track # 0 /\ block'[f].track < i =>
                       /\ block'[f].st <= rows[i].st
                       /\ block'[f].status = "VIDEO" => block'[f].et <= rows[i].st
                 /\ i < block'[f].track => rows[i].st <= block'[f].st
      <3>1. f = cur => ~(block[f].track < i)
        BY <1>5, <2>2, Parts
      <3>2. QED
        BY <1>3, <3>1 DEF InSequence
    <2>3. ASSUME NEW f \in Blocks, NEW g \in Blocks, block[f].track # 0,
                 \/ block[f].track < block[g].track
                 \/ block[f].track = block[g].track /\ block[f].serial < block[g].serial
          PROVE  /\ block'[f].st <= block'[g].st
                 /\ block'[f].status = "VIDEO" => block'[f].et <= block'[g].st
      <3>1. f # cur
        <4>1. SUFFICES ASSUME f = cur PROVE FALSE
          OBVIOUS
        <4>2. block[f].track = Len(rows) /\ block[g].track <= Len(rows)
          BY <1>5, <4>1, Parts DEF Typed
        <4>3. block[g].track = Len(rows) /\ block[f].serial < block[g].serial
          BY <2>3, <4>2, Parts
        <4>4. g = f \/ block[g].serial < block[f].serial
          BY <1>5, <4>1, <4>3, Parts
        <4>5. QED
          BY <4>3, <4>4, Parts
      <3>2. QED
        BY <1>3, <2>3, <3>1 DEF InSequence
    <2>4. \A f, g \in Blocks : block'[f].track # 0 =>
             (block'[f].track = block'[g].track /\ block'[f].serial = block'[g].serial => f = g)
      BY <1>3 DEF InSequence
    <2>5. ASSUME NEW f \in Blocks, NEW g \in Blocks, block'[f].track # 0,
                 \/ block'[f].track < block'[g].track
                 \/ block'[f].track = block'[g].track /\ block'[f].serial < block'[g].serial
          PROVE  /\ block'[f].st <= block'[g].st
                 /\ block'[f].status = "VIDEO" => block'[f].et <= block'[g].st
      BY <1>3, <2>3, <2>5
    <2>6. QED
      BY <1>1, <2>1, <2>2, <2>4, <2>5 DEF InSequence
  <1>8. Covered'
    <2> SUFFICES ASSUME NEW f \in Blocks, block'[f].status = "VIDEO", block'[f].st < block'[f].et
                 PROVE  LET r == rows[block[f].track] IN
                        r.status # "gone" /\ r.st <= block'[f].st /\ block'[f].et <= r.et
      BY <1>1, <1>3, ZenonT(40) DEF Covered
    <2>1. CASE f = cur
      <3>1. /\ rows[block[f].track].status = "ING" /\ rows[block[f].track].st <= block[f].st
            /\ Len(rows) \in DOMAIN rows
        BY <1>5, <2>1, Parts DEF Typed
      <3>2. rows[block[f].track].et = Open
        BY <1>5, <2>1, <3>1, Parts DEF Typed
      <3>3. QED
        BY <1>3, <2>1, <3>1, <3>2, Parts
    <2>2. CASE f # cur
      BY <1>3, <2>2 DEF Covered
    <2>3. QED
      BY <2>1, <2>2
  <1>9. ASSUME pc' \in Threads, ctl' \in {"idle", "join", "close", "end"}, wrun' \in BOOLEAN,
               track' \in Nat, serial' \in Nat, stamp' \in Nat
        PROVE  Typed'
    <2>1. \A f \in Blocks :
             /\ block'[f].track <= Len(rows) /\ block'[f].st <= now
             /\ block'[f].status # "NEW" => block'[f].track >= 1
             /\ block'[f].status = "VIDEO" => block'[f].st <= block'[f].et /\ block'[f].et <= now
      <3> TAKE f \in Blocks
      <3>1. CASE f = cur
        BY <1>3, <1>5, <3>1, Parts DEF Typed
      <3>2. CASE f # cur
        BY <1>3, <3>2 DEF Typed
      <3>3. QED
        BY <3>1, <3>2
    <2>2. /\ now \in 1 .. MaxTime /\ {up, wrun'} \subseteq BOOLEAN /\ rows \in Seq(Row)
          /\ idx \in [track : Nat, serial : Nat, last : Nat] /\ (idx # NoIndex => idx.last <= now)
          /\ \A i \in DOMAIN rows : rows[i].st <= now /\ (rows[i].status = "ING" => rows[i].et = Open)
          /\ Open' = Open /\ NoIndex' = NoIndex
      BY <1>9 DEF Typed, Open, NoIndex
    <2>3. QED
      BY <1>1, <1>4, <1>9, <2>1, <2>2 DEF Typed
  <1>10. QED
    BY <1>1, <1>3, <1>4, <1>6, <1>7, <1>8, <1>9

\* The thread changes files, closes the last one, or the stop does.
LEMMA CloseStep ==
    ASSUME Good, Switch \/ Close("new") \/ StopClose
    PROVE  Good'
  <1> USE DEF Good
  <1>1. /\ CloseFile /\ UNCHANGED <<now, up, rows, idx, track, serial, wrun>>
        /\ stamp' \in Nat
        /\ \/ pc.new = "run" /\ wrun /\ pc' = [pc EXCEPT !.new = "open"] /\ ctl' = ctl
           \/ pc.new = "close" /\ pc' = [pc EXCEPT !.new = "end"] /\ ctl' = ctl
           \/ ctl = "close" /\ ctl' = "end" /\ pc' = pc
    <2>1. CASE Switch
      BY <2>1, Parts DEF Switch, Typed
    <2>2. CASE Close("new")
      BY <2>2 DEF Close, Typed
    <2>3. CASE StopClose
      BY <2>3 DEF StopClose, Typed
    <2>4. QED
      BY <2>1, <2>2, <2>3
  <1>2. /\ pc' \in Threads /\ pc'.old = pc.old /\ ctl' \in {"idle", "join", "close", "end"}
        /\ \/ pc.new = "run" /\ wrun /\ pc'.new = "open" /\ ctl' = ctl
           \/ pc.new = "close" /\ pc'.new = "end" /\ ctl' = ctl
           \/ ctl = "close" /\ ctl' = "end" /\ pc' = pc
    BY <1>1 DEF Typed, Threads
  <1>3. cur' = 0 /\ \A f \in Blocks : /\ block'[f].track = block[f].track
                                      /\ block'[f].serial = block[f].serial
                                      /\ block'[f].st = block[f].st
                                      /\ block'[f].status = IF f = cur THEN "VIDEO" ELSE block[f].status
    BY <1>1, CloseFileKeeps
  <1>4. Typed'
    BY <1>1, <1>2, CloseFileKeeps DEF Typed
  <1>5. OneWriter'
    BY <1>1, <1>2, <1>3, Parts DEF OneWriter, Busy
  <1>6. LastIsOpen'
    BY <1>1, <1>2, <1>3, Parts DEF LastIsOpen
  <1>7. Writing'
    <2>1. CASE pc'.new \in Busy
      <3>1. pc.new = "run" /\ pc'.new = "open"
        BY <1>2, <2>1, Parts DEF OneWriter, Busy
      <3>2. \A f \in Blocks : block'[f].status = "ING" => block'[f].track < track
        BY <1>3, <3>1 DEF Writing, Busy
      <3>3. QED
        BY <1>1, <1>3, <3>1, <3>2 DEF Writing, Busy
    <2>2. CASE pc'.new \notin Busy
      BY <1>3, <2>2 DEF Writing, Busy
    <2>3. QED
      BY <2>1, <2>2
  <1>8. QED
    BY <1>1, <1>4, <1>5, <1>6, <1>7, CloseFileKeeps

\* The writer's track is ended, if it is open: it ends now.
LEMMA EndStep ==
    ASSUME Good, End("new") \/ StopEnd
    PROVE  Good'
  <1> USE DEF Good
  <1>1. /\ UNCHANGED <<now, up, block, idx, track, serial, wrun, cur, stamp>> /\ up
        /\ rows' = StopTrack(now)
        /\ \/ pc.new = "end" /\ pc' = [pc EXCEPT !.new = "none"] /\ ctl' = ctl
           \/ ctl = "end" /\ ctl' = "idle" /\ pc' = pc
    BY DEF End, StopEnd, writer, Db
  <1>2. /\ pc' \in Threads /\ pc'.old = pc.old /\ ctl' \in {"idle", "join", "close", "end"}
        /\ \/ pc.new = "end" /\ pc'.new = "none" /\ ctl' = ctl
           \/ ctl = "end" /\ ctl' = "idle" /\ pc' = pc
    BY <1>1 DEF Typed, Threads
  <1>3. /\ rows' = [i \in DOMAIN rows |->
                       IF i = track /\ rows[i].status = "ING"
                       THEN [rows[i] EXCEPT !.et = now, !.status = "ED"] ELSE rows[i]]
        /\ DOMAIN rows' = DOMAIN rows
    BY <1>1 DEF StopTrack
  <1>4. \A i \in DOMAIN rows :
           /\ rows'[i] \in Row /\ rows'[i].st = rows[i].st
           /\ rows'[i].status = IF i = track /\ rows[i].status = "ING" THEN "ED" ELSE rows[i].status
           /\ rows'[i].et = IF i = track /\ rows[i].status = "ING" THEN now ELSE rows[i].et
    <2> SUFFICES ASSUME NEW i \in DOMAIN rows
                 PROVE  /\ rows'[i] \in Row /\ rows'[i].st = rows[i].st
                        /\ rows'[i].status = IF i = track /\ rows[i].status = "ING" THEN "ED" ELSE rows[i].status
                        /\ rows'[i].et = IF i = track /\ rows[i].status = "ING" THEN now ELSE rows[i].et
      OBVIOUS
    <2>1. rows[i] \in Row /\ now \in Nat
      BY Parts
    <2>2. rows'[i] = IF i = track /\ rows[i].status = "ING"
                     THEN [rows[i] EXCEPT !.et = now, !.status = "ED"] ELSE rows[i]
      BY <1>3
    <2>3. QED
      BY <2>1, <2>2 DEF Row
  <1>5. rows' \in Seq(Row) /\ Len(rows') = Len(rows)
    <2>1. DOMAIN rows = 1 .. Len(rows) /\ Len(rows) \in Nat
      BY Parts
    <2>2. rows' \in [1 .. Len(rows) -> Row]
      BY <1>3, <1>4, <2>1
    <2>3. QED
      BY <2>1, <2>2, SeqDef, LenProperties
  <1>6. \A i \in DOMAIN rows' : rows'[i].status # "ING"
    BY <1>1, <1>3, <1>4, Parts DEF LastIsOpen
  <1>7. cur = 0
    BY <1>1, Parts DEF Writing, OneWriter
  <1>8. Typed'
    <2>1. \A i \in DOMAIN rows' : rows'[i].st <= now
      BY <1>3, <1>4 DEF Typed
    <2>2. \A f \in Blocks : /\ block[f].track <= Len(rows') /\ block[f].st <= now
                            /\ block[f].status # "NEW" => block[f].track >= 1
                            /\ block[f].status = "VIDEO" => block[f].st <= block[f].et /\ block[f].et <= now
      BY <1>5 DEF Typed
    <2>3. QED
      BY <1>1, <1>2, <1>5, <1>6, <2>1, <2>2 DEF Typed, Open
  <1>9. OneWriter'
    BY <1>1, <1>2, Parts DEF OneWriter, Busy
  <1>10. LastIsOpen'
    BY <1>6 DEF LastIsOpen
  <1>11. Writing'
    <2>1. pc'.new \notin Busy
      BY <1>2, Parts DEF OneWriter, Busy
    <2>2. QED
      BY <1>1, <1>7, <2>1 DEF Writing, Busy
  <1>12. IndexNames'
    BY <1>1, <1>5 DEF IndexNames
  <1>13. InSequence'
    <2>1. \A i \in DOMAIN rows : rows'[i].st = rows[i].st
      BY <1>4
    <2>2. block' = block /\ DOMAIN rows' = DOMAIN rows
      BY <1>1, <1>3
    <2>3. QED
      BY <2>1, <2>2 DEF InSequence
  <1>14. Covered'
    <2> SUFFICES ASSUME NEW f \in Blocks, block[f].status = "VIDEO", block[f].st < block[f].et
                 PROVE  LET r == rows'[block[f].track] IN
                        r.status # "gone" /\ r.st <= block[f].st /\ block[f].et <= r.et
      BY <1>1 DEF Covered
    <2>1. block[f].track \in DOMAIN rows /\ block[f].et <= now
      BY Parts DEF Typed
    <2>2. QED
      BY <1>4, <2>1 DEF Covered
  <1>15. QED
    BY <1>8, <1>9, <1>10, <1>11, <1>12, <1>13, <1>14

-------------------------------------------------------------------------------
(* Tracks and files begin.                                                 *)

\* A track begins behind all others.
LEMMA BeginStep == Good /\ Begin /\ Usual' => Good'
  <1> SUFFICES ASSUME Good, Begin, Usual' PROVE Good'
    OBVIOUS
  <1> USE DEF Good
  <1> DEFINE n == Len(rows)
             new == [st |-> now, et |-> Open, status |-> "ING"]
  <1>1. /\ UNCHANGED <<now, up, block, idx, ctl, wrun, cur, stamp>> /\ up
        /\ rows' = Append(rows, new) /\ track' = Len(rows') /\ serial' = 0
        /\ pc.new = "begin" /\ pc' = [pc EXCEPT !.new = "run"]
    BY DEF Begin, Db, Usual
  <1>2. pc' \in Threads /\ pc'.old = pc.old /\ pc'.new = "run"
    BY <1>1 DEF Typed, Threads
  <1>3. n \in Nat /\ DOMAIN rows = 1 .. n /\ now \in Nat /\ Open \in Nat
    BY Parts
  <1>4. /\ rows' \in Seq(Row) /\ Len(rows') = n + 1 /\ DOMAIN rows' = 1 .. n + 1
        /\ \A i \in 1 .. n : rows'[i] = rows[i]
        /\ rows'[n + 1] = new
    <2>1. new \in Row /\ rows \in Seq(Row)
      BY <1>3 DEF Row, Typed
    <2> HIDE DEF new
    <2>2. QED
      BY <1>1, <1>3, <2>1, AppendProperties, LenProperties
  <1>5. /\ rows'[n + 1].st = now /\ rows'[n + 1].et = Open /\ rows'[n + 1].status = "ING"
        /\ \A i \in 1 .. n + 1 : i \in 1 .. n \/ i = n + 1
    BY <1>3, <1>4
  <1> HIDE DEF n
  <1>6. cur = 0
    BY <1>1 DEF Writing
  <1>7. \A i \in 1 .. n : rows[i].status # "ING"
    BY <1>1, <1>3 DEF LastIsOpen
  <1>8. \A f \in Blocks : /\ block[f].track \in Nat /\ block[f].track <= n
                          /\ block[f].track # 0 => block[f].track \in 1 .. n
    BY <1>3, Parts DEF Typed, n
  <1>9. Typed'
    <2>1. \A i \in DOMAIN rows' : rows'[i].st <= now /\ (rows'[i].status = "ING" => rows'[i].et = Open)
      BY <1>3, <1>4, <1>5 DEF Typed
    <2>2. \A f \in Blocks : /\ block[f].track <= Len(rows') /\ block[f].st <= now
                            /\ block[f].status # "NEW" => block[f].track >= 1
                            /\ block[f].status = "VIDEO" => block[f].st <= block[f].et /\ block[f].et <= now
      BY <1>3, <1>4, <1>8 DEF Typed
    <2>3. track' \in Nat /\ serial' \in Nat
      BY <1>1, <1>3, <1>4
    <2>4. QED
      BY <1>1, <1>2, <1>4, <2>1, <2>2, <2>3 DEF Typed, Open, NoIndex
  <1>10. OneWriter'
    BY <1>1, <1>2 DEF OneWriter, Busy
  <1>11. LastIsOpen'
    BY <1>1, <1>2, <1>4, <1>5, <1>7 DEF LastIsOpen
  <1>12. Writing'
    <2>1. track' = n + 1 /\ track' # 0 /\ rows'[track'].status = "ING"
      BY <1>1, <1>3, <1>4, <1>5
    <2>2. \A f \in Blocks : block[f].track < track'
      BY <1>3, <1>8, <2>1
    <2>3. \A f \in Blocks : block[f].track = track' => block[f].serial < serial'
      BY <1>3, <1>8, <2>1
    <2>4. idx.track < track'
      BY <1>3, <2>1, Parts DEF IndexNames, n
    <2>5. QED
      BY <1>1, <1>2, <1>4, <1>6, <2>1, <2>2, <2>3, <2>4 DEF Writing, Busy
  <1>13. IndexNames'
    BY <1>1, <1>3, <1>4, Parts DEF IndexNames, n
  <1>14. InSequence'
    <2>1. ASSUME NEW i \in DOMAIN rows', NEW j \in DOMAIN rows', i < j
          PROVE  rows'[i].st <= rows'[j].st
      <3>1. i \in 1 .. n
        BY <1>3, <1>4, <2>1
      <3>2. CASE j \in 1 .. n
        BY <1>3, <1>4, <2>1, <3>1, <3>2 DEF InSequence
      <3>3. CASE j = n + 1
        BY <1>3, <1>4, <1>5, <3>1, <3>3 DEF Typed
      <3>4. QED
        BY <1>4, <1>5, <3>2, <3>3
    <2>2. ASSUME NEW f \in Blocks, NEW i \in DOMAIN rows'
          PROVE  /\ block[f].track # 0 /\ block[f].track < i =>
                       /\ block[f].st <= rows'[i].st
                       /\ block[f].status = "VIDEO" => block[f].et <= rows'[i].st
                 /\ i < block[f].track => rows'[i].st <= block[f].st
      <3>1. CASE i \in 1 .. n
        BY <1>3, <1>4, <3>1 DEF InSequence
      <3>2. CASE i = n + 1
        BY <1>3, <1>5, <1>8, <3>2 DEF Typed
      <3>3. QED
        BY <1>4, <1>5, <3>1, <3>2
    <2>3. QED
      BY <1>1, <2>1, <2>2 DEF InSequence
  <1>15. Covered'
    <2> SUFFICES ASSUME NEW f \in Blocks, block[f].status = "VIDEO", block[f].st < block[f].et
                 PROVE  LET r == rows'[block[f].track] IN
                        r.status # "gone" /\ r.st <= block[f].st /\ block[f].et <= r.et
      BY <1>1 DEF Covered
    <2>1. block[f].track \in 1 .. n
      BY <1>8, Parts DEF Typed
    <2>2. QED
      BY <1>4, <2>1 DEF Covered
  <1>16. QED
    BY <1>9, <1>10, <1>11, <1>12, <1>13, <1>14, <1>15

\* A file begins behind all others, as the last one of the open track.
LEMMA OpenFileStep == Good /\ OpenFile => Good'
  <1> SUFFICES ASSUME Good, OpenFile PROVE Good'
    OBVIOUS
  <1> USE DEF Good
  <1>1. PICK b \in Blocks :
           /\ block[b].status = "NEW" /\ cur' = b
           /\ block' = [block EXCEPT ![b] = [@ EXCEPT !.status = "ING", !.st = now,
                                                      !.track = track, !.serial = serial]]
    BY DEF OpenFile
  <1>2. /\ UNCHANGED <<now, up, rows, idx, ctl, wrun, track, serial, stamp>>
        /\ pc.new = "open" /\ pc' = [pc EXCEPT !.new = "index"]
    BY DEF OpenFile
  <1>3. pc' \in Threads /\ pc'.old = pc.old /\ pc'.new = "index"
    BY <1>2 DEF Typed, Threads
  <1>4. /\ track \in Nat /\ serial \in Nat /\ now \in Nat /\ b # 0
        /\ track = Len(rows) /\ track # 0 /\ track \in DOMAIN rows /\ rows[track].status = "ING"
        /\ rows[track].st <= now
        /\ cur = 0 /\ up
        /\ \A f \in Blocks : block[f].status = "ING" => block[f].track < track
        /\ \A f \in Blocks : block[f].track = track => block[f].serial < serial
        /\ \A f \in Blocks : block[f].track <= track
        /\ idx.track < track \/ (idx.track = track /\ idx.serial < serial)
    <2>1. /\ track \in Nat /\ serial \in Nat /\ now \in Nat /\ b # 0
          /\ track = Len(rows) /\ track # 0 /\ rows[track].status = "ING"
      BY <1>2, Parts DEF Writing, Busy, Typed
    <2>2. track \in DOMAIN rows
      BY <2>1, Parts
    <2>3. cur = 0 /\ up /\ 0 \notin Blocks
      BY <1>2, Parts DEF Writing, OneWriter
    <2>4. \A f \in Blocks : block[f].status = "ING" => block[f].track < track
      BY <1>2, <2>3 DEF Writing, Busy
    <2>5. QED
      BY <1>2, <2>1, <2>2, <2>3, <2>4 DEF Typed, Writing
  <1>5. \A f \in Blocks \ {b} : block'[f] = block[f]
    BY <1>1 DEF Typed
  <1>6. /\ block'[b] \in Entry
        /\ block'[b].status = "ING" /\ block'[b].st = now /\ block'[b].track = track
        /\ block'[b].serial = serial
    <2>1. block[b] \in Entry
      BY Parts
    <2>2. block'[b] = [block[b] EXCEPT !.status = "ING", !.st = now, !.track = track, !.serial = serial]
      BY <1>1 DEF Typed
    <2>3. QED
      BY <1>4, <2>1, <2>2 DEF Entry
  <1>7. block' \in [Blocks -> Entry]
    <2>1. DOMAIN block' = Blocks /\ block' = [f \in Blocks |-> block'[f]]
      BY <1>1 DEF Typed
    <2>2. QED
      BY <1>5, <1>6, <2>1, Parts, SMTT(40)
  <1>8. Typed'
    <2>1. \A f \in Blocks :
             /\ block'[f].track <= Len(rows) /\ block'[f].st <= now
             /\ block'[f].status # "NEW" => block'[f].track >= 1
             /\ block'[f].status = "VIDEO" => block'[f].st <= block'[f].et /\ block'[f].et <= now
      <3> TAKE f \in Blocks
      <3>1. CASE f = b
        BY <1>4, <1>6, <3>1
      <3>2. CASE f # b
        BY <1>5, <3>2 DEF Typed
      <3>3. QED
        BY <3>1, <3>2
    <2>2. /\ now \in 1 .. MaxTime /\ {up, wrun} \subseteq BOOLEAN /\ rows \in Seq(Row)
          /\ idx \in [track : Nat, serial : Nat, last : Nat] /\ (idx # NoIndex => idx.last <= now)
          /\ \A i \in DOMAIN rows : rows[i].st <= now /\ (rows[i].status = "ING" => rows[i].et = Open)
          /\ Open' = Open /\ NoIndex' = NoIndex
      BY DEF Typed, Open, NoIndex
    <2>3. QED
      BY <1>1, <1>2, <1>3, <1>7, <2>1, <2>2 DEF Typed
  <1>9. OneWriter' /\ LastIsOpen'
    BY <1>1, <1>2, <1>3, <1>4 DEF OneWriter, LastIsOpen, Busy
  <1>10. Live(b)'
    BY <1>2, <1>4, <1>5, <1>6 DEF Live
  <1>11. Writing'
    <2>1. \A f \in Blocks : block'[f].status = "ING" /\ f # b => block'[f].track < track
      BY <1>4, <1>5
    <2>2. ctl # "end"
      BY <1>2 DEF OneWriter
    <2>3. QED
      BY <1>1, <1>2, <1>3, <1>4, <1>6, <1>10, <2>1, <2>2 DEF Writing, Busy
  <1>12. IndexNames'
    <2>1. \A f \in Blocks :
             ~(block'[f].status = "ING" /\ block'[f].track = idx.track /\ block'[f].serial = idx.serial)
      <3> TAKE f \in Blocks
      <3>1. CASE f = b
        BY <1>4, <1>6, <3>1, Parts
      <3>2. CASE f # b
        BY <1>4, <1>5, <3>2, Parts DEF IndexNames
      <3>3. QED
        BY <3>1, <3>2
    <2>2. QED
      BY <1>2, <2>1 DEF IndexNames
  <1>13. InSequence'
    <2>1. ASSUME NEW f \in Blocks, NEW i \in DOMAIN rows
          PROVE  /\ block'[f].track # 0 /\ block'[f].track < i =>
                       /\ block'[f].st <= rows[i].st
                       /\ block'[f].status = "VIDEO" => block'[f].et <= rows[i].st
                 /\ i < block'[f].track => rows[i].st <= block'[f].st
      <3>1. CASE f = b
        BY <1>4, <1>6, <3>1, Parts DEF Typed
      <3>2. CASE f # b
        BY <1>5, <3>2 DEF InSequence
      <3>3. QED
        BY <3>1, <3>2
    <2>2. ASSUME NEW f \in Blocks, NEW g \in Blocks, block'[f].track # 0
          PROVE  /\ \/ block'[f].track < block'[g].track
                    \/ block'[f].track = block'[g].track /\ block'[f].serial < block'[g].serial
                    => /\ block'[f].st <= block'[g].st
                       /\ block'[f].status = "VIDEO" => block'[f].et <= block'[g].st
                 /\ block'[f].track = block'[g].track /\ block'[f].serial = block'[g].serial => f = g
      <3>1. CASE f = b /\ g = b
        BY <1>4, <1>6, <3>1
      <3>2. CASE f = b /\ g # b
        <4>1. /\ block'[f].track = track /\ block'[f].serial = serial
              /\ block'[g].track \in Nat /\ block'[g].serial \in Nat
          BY <1>5, <1>6, <3>2, Parts
        <4>2. block'[g].track <= track /\ (block'[g].track = track => block'[g].serial < serial)
          BY <1>4, <1>5, <3>2
        <4>3. track \in Nat /\ serial \in Nat
          BY <1>4
        <4>4. QED
          BY <4>1, <4>2, <4>3
      <3>3. CASE f # b /\ g = b
        <4>1. block'[f].st <= block'[g].st
          BY <1>5, <1>6, <3>3 DEF Typed
        <4>2. block'[f].status = "VIDEO" => block'[f].et <= block'[g].st
          BY <1>5, <1>6, <3>3 DEF Typed
        <4>3. block'[f].track = block'[g].track => block'[f].serial # block'[g].serial
          BY <1>4, <1>5, <1>6, <3>3, Parts
        <4>4. QED
          BY <4>1, <4>2, <4>3
      <3>4. CASE f # b /\ g # b
        BY <1>5, <2>2, <3>4 DEF InSequence
      <3>5. QED
        BY <3>1, <3>2, <3>3, <3>4
    <2>3. QED
      BY <1>2, <2>1, <2>2 DEF InSequence
  <1>14. Covered'
    <2> SUFFICES ASSUME NEW f \in Blocks, block'[f].status = "VIDEO", block'[f].st < block'[f].et
                 PROVE  LET r == rows[block'[f].track] IN
                        r.status # "gone" /\ r.st <= block'[f].st /\ block'[f].et <= r.et
      BY <1>2 DEF Covered
    <2>1. f # b
      BY <1>6
    <2>2. QED
      BY <1>5, <2>1 DEF Covered
  <1>15. QED
    BY <1>8, <1>9, <1>11, <1>12, <1>13, <1>14

-------------------------------------------------------------------------------
(* Old files go, and with them the beginning of their tracks.              *)

\* The track of the oldest file begins where that file ended: before the next one began.
LEMMA RecycleStep == Good /\ Recycle => Good'
  <1> SUFFICES ASSUME Good, Recycle PROVE Good'
    OBVIOUS
  <1> USE DEF Good
  <1>1. /\ UNCHANGED <<now, up, idx, pc, ctl, wrun, track, serial, cur, stamp>> /\ up
        /\ \E f \in Oldest :
              /\ block' = [block EXCEPT ![f].status = "NEW"]
              /\ rows' = [i \in DOMAIN rows |->
                             IF i = block[f].track THEN [rows[i] EXCEPT !.st = block[f].et] ELSE rows[i]]
    BY DEF Recycle, Db, writer
  <1>2. PICK b \in Oldest :
              /\ block' = [block EXCEPT ![b].status = "NEW"]
              /\ rows' = [i \in DOMAIN rows |->
                             IF i = block[b].track THEN [rows[i] EXCEPT !.st = block[b].et] ELSE rows[i]]
    BY <1>1
  <1> DEFINE t == block[b].track
             e == block[b].et
  <1>3. /\ b \in Blocks /\ block[b].status = "VIDEO" /\ t \in DOMAIN rows /\ t # 0
        /\ e \in Nat /\ e <= now /\ block[b].st <= e
        /\ \A g \in Blocks : block[g].status = "VIDEO" => block[b].st <= block[g].st
    BY Parts, SMTT(20) DEF Oldest, Typed
  <1>4. /\ DOMAIN rows' = DOMAIN rows
        /\ \A i \in DOMAIN rows : /\ rows'[i] \in Row
                                  /\ rows'[i].status = rows[i].status /\ rows'[i].et = rows[i].et
                                  /\ rows'[i].st = IF i = t THEN e ELSE rows[i].st
    <2>1. DOMAIN rows' = DOMAIN rows
      BY <1>2
    <2> SUFFICES ASSUME NEW i \in DOMAIN rows
                 PROVE  /\ rows'[i] \in Row
                        /\ rows'[i].status = rows[i].status /\ rows'[i].et = rows[i].et
                        /\ rows'[i].st = IF i = t THEN e ELSE rows[i].st
      BY <2>1
    <2>2. rows[i] \in Row
      BY Parts
    <2>3. rows'[i] = IF i = t THEN [rows[i] EXCEPT !.st = e] ELSE rows[i]
      BY <1>2
    <2>4. QED
      BY <1>3, <2>2, <2>3 DEF Row
  <1>5. rows' \in Seq(Row) /\ Len(rows') = Len(rows)
    <2>1. DOMAIN rows = 1 .. Len(rows) /\ Len(rows) \in Nat
      BY Parts
    <2>2. rows' \in [1 .. Len(rows) -> Row]
      BY <1>2, <1>4, <2>1
    <2>3. QED
      BY <2>1, <2>2, SeqDef, LenProperties
  <1>6. /\ block' \in [Blocks -> Entry]
        /\ \A f \in Blocks : /\ block'[f].track = block[f].track /\ block'[f].serial = block[f].serial
                             /\ block'[f].st = block[f].st /\ block'[f].et = block[f].et
                             /\ block'[f].status = IF f = b THEN "NEW" ELSE block[f].status
    <2>1. DOMAIN block' = Blocks /\ block' = [f \in Blocks |-> block'[f]]
      BY <1>2 DEF Typed
    <2>2. ASSUME NEW f \in Blocks
          PROVE  /\ block'[f] \in Entry
                 /\ block'[f].track = block[f].track /\ block'[f].serial = block[f].serial
                 /\ block'[f].st = block[f].st /\ block'[f].et = block[f].et
                 /\ block'[f].status = IF f = b THEN "NEW" ELSE block[f].status
      <3>1. block[f] \in Entry
        BY Parts
      <3>2. block'[f] = IF f = b THEN [block[f] EXCEPT !.status = "NEW"] ELSE block[f]
        BY <1>2, <1>3 DEF Typed
      <3>3. QED
        BY <3>1, <3>2 DEF Entry
    <2>3. QED
      BY <2>1, <2>2
  <1> HIDE DEF t, e
  <1>7. Typed'
    <2>1. \A i \in DOMAIN rows' : rows'[i].st <= now /\ (rows'[i].status = "ING" => rows'[i].et = Open)
      BY <1>3, <1>4 DEF Typed
    <2>2. \A f \in Blocks :
             /\ block'[f].track <= Len(rows') /\ block'[f].st <= now
             /\ block'[f].status # "NEW" => block'[f].track >= 1
             /\ block'[f].status = "VIDEO" => block'[f].st <= block'[f].et /\ block'[f].et <= now
      <3> TAKE f \in Blocks
      <3>1. CASE f = b
        BY <1>5, <1>6, <3>1 DEF Typed
      <3>2. CASE f # b
        BY <1>5, <1>6, <3>2 DEF Typed
      <3>3. QED
        BY <3>1, <3>2
    <2>3. QED
      BY <1>1, <1>5, <1>6, <2>1, <2>2 DEF Typed, Open, NoIndex
  <1>8. OneWriter'
    BY <1>1 DEF OneWriter
  <1>9. LastIsOpen'
    BY <1>1, <1>4, <1>5 DEF LastIsOpen
  <1>10. cur # 0 => Live(cur)'
    <2> SUFFICES ASSUME cur # 0 PROVE Live(cur)'
      OBVIOUS
    <2>1. Live(cur)
      BY DEF Writing
    <2>2. /\ cur \in Blocks /\ cur # b /\ Len(rows) \in DOMAIN rows
          /\ block[cur].track = Len(rows) /\ block[cur].track # 0
      BY <1>3, <2>1, Parts DEF Live, Typed
    <2>3. t = Len(rows) => e <= block[cur].st
      <3>1. t = Len(rows) => block[b].serial < block[cur].serial
        BY <1>3, <2>1, <2>2 DEF Live, t
      <3>2. QED
        BY <1>3, <2>2, <3>1 DEF InSequence, t, e
    <2>4. rows'[Len(rows)].status = "ING" /\ rows'[Len(rows)].st <= block[cur].st
      BY <1>4, <2>1, <2>2, <2>3 DEF Live
    <2>5. \A g \in Blocks \ {cur} : block[g].track = Len(rows) => block[g].serial < block[cur].serial
      BY <2>1 DEF Live
    <2>6. cur' = cur /\ block'[cur].status = "ING"
      BY <1>1, <1>6, <2>1, <2>2 DEF Live
    <2>7. QED
      BY <1>5, <1>6, <2>2, <2>4, <2>5, <2>6 DEF Live
  <1>11. Writing'
    <2>1. \A f \in Blocks : block'[f].status = "ING" => block[f].status = "ING"
      BY <1>6
    <2>2. pc.new \in Busy => track \in DOMAIN rows
      BY Parts DEF Writing
    <2>3. QED
      BY <1>1, <1>4, <1>5, <1>6, <1>10, <2>1, <2>2 DEF Writing
  <1>12. IndexNames'
    <2>1. \A f \in Blocks : block'[f].status = "ING" => block[f].status = "ING"
      BY <1>6
    <2>2. QED
      BY <1>1, <1>5, <1>6, <2>1 DEF IndexNames
  <1>13. InSequence'
    <2>1. ASSUME NEW i \in DOMAIN rows, NEW j \in DOMAIN rows, i < j
          PROVE  rows'[i].st <= rows'[j].st
      <3>1. i # j /\ rows[i].st <= rows[j].st
        BY <2>1, Parts DEF InSequence
      <3>2. i = t => e <= rows[j].st
        BY <1>3, <2>1 DEF InSequence, t, e
      <3>3. j = t => rows[i].st <= e
        BY <1>3, <2>1, Parts DEF InSequence, t, e
      <3>4. QED
        BY <1>4, <3>1, <3>2, <3>3
    <2>2. ASSUME NEW f \in Blocks, NEW i \in DOMAIN rows
          PROVE  /\ block[f].track # 0 /\ block[f].track < i =>
                       /\ block[f].st <= rows'[i].st
                       /\ block'[f].status = "VIDEO" => block[f].et <= rows'[i].st
                 /\ i < block[f].track => rows'[i].st <= block[f].st
      <3>1. block'[f].status = "VIDEO" => block[f].status = "VIDEO"
        BY <1>6
      <3>2. CASE i # t
        BY <1>4, <3>1, <3>2 DEF InSequence
      <3>3. CASE i = t
        <4>1. rows'[i].st = e
          BY <1>4, <3>3
        <4>2. block[f].track # 0 /\ block[f].track < t =>
                 block[f].st <= block[b].st /\ (block[f].status = "VIDEO" => block[f].et <= block[b].st)
          BY <1>3 DEF InSequence, t
        <4>3. t < block[f].track => e <= block[f].st
          BY <1>3 DEF InSequence, t, e
        <4>4. block[f].st \in Nat /\ block[f].et \in Nat /\ block[b].st \in Nat /\ block[b].st <= e
          BY <1>3, Parts
        <4>5. QED
          BY <1>3, <3>1, <3>3, <4>1, <4>2, <4>3, <4>4
      <3>4. QED
        BY <3>2, <3>3
    <2>3. \A f \in Blocks : block'[f].status = "VIDEO" => block[f].status = "VIDEO"
      BY <1>6
    <2>4. QED
      BY <1>4, <1>6, <2>1, <2>2, <2>3 DEF InSequence
  <1>14. Covered'
    <2> SUFFICES ASSUME NEW f \in Blocks, block'[f].status = "VIDEO", block[f].st < block[f].et
                 PROVE  LET r == rows'[block[f].track] IN
                        r.status # "gone" /\ r.st <= block[f].st /\ block[f].et <= r.et
      BY <1>6 DEF Covered
    <2>1. f # b /\ block[f].status = "VIDEO" /\ block[f].track \in DOMAIN rows /\ block[f].track # 0
      BY <1>6, Parts DEF Typed
    <2>2. CASE block[f].track # t
      BY <1>4, <2>1, <2>2 DEF Covered
    <2>3. CASE block[f].track = t
      <3>1. block[b].serial < block[f].serial => e <= block[f].st
        BY <1>3, <2>1, <2>3 DEF InSequence, t, e
      <3>2. ~(block[f].serial < block[b].serial)
        <4>1. block[f].serial < block[b].serial => block[f].et <= block[b].st
          BY <1>3, <2>1, <2>3 DEF InSequence, t
        <4>2. block[b].st <= block[f].st
          BY <1>3, <2>1
        <4>3. QED
          BY <1>3, <4>1, <4>2, Parts
      <3>3. block[b].serial # block[f].serial
        BY <1>3, <2>1, <2>3 DEF InSequence, t
      <3>4. e <= block[f].st
        BY <1>3, <3>1, <3>2, <3>3, Parts
      <3>5. QED
        BY <1>4, <2>1, <2>3, <3>4 DEF Covered
    <2>4. QED
      BY <2>2, <2>3
  <1>15. QED
    BY <1>7, <1>8, <1>9, <1>11, <1>12, <1>13, <1>14

\* The tracks that a query deletes cover no file.
LEMMA QueryStep == Good /\ Query => Good'
  <1> SUFFICES ASSUME Good, Query PROVE Good'
    OBVIOUS
  <1> USE DEF Good
  <1>1. /\ UNCHANGED <<now, up, block, idx, pc, ctl, wrun, track, serial, cur, stamp>>
        /\ rows' = [i \in DOMAIN rows |-> IF rows[i].st = rows[i].et
                                          THEN [rows[i] EXCEPT !.status = "gone"] ELSE rows[i]]
    BY DEF Query, writer
  <1>2. /\ DOMAIN rows' = DOMAIN rows
        /\ \A i \in DOMAIN rows :
              /\ rows'[i] \in Row /\ rows'[i].st = rows[i].st /\ rows'[i].et = rows[i].et
              /\ rows'[i].status = IF rows[i].st = rows[i].et THEN "gone" ELSE rows[i].status
    <2>1. DOMAIN rows' = DOMAIN rows
      BY <1>1
    <2> SUFFICES ASSUME NEW i \in DOMAIN rows
                 PROVE  /\ rows'[i] \in Row /\ rows'[i].st = rows[i].st /\ rows'[i].et = rows[i].et
                        /\ rows'[i].status = IF rows[i].st = rows[i].et THEN "gone" ELSE rows[i].status
      BY <2>1
    <2>2. rows[i] \in Row
      BY Parts
    <2>3. rows'[i] = IF rows[i].st = rows[i].et THEN [rows[i] EXCEPT !.status = "gone"] ELSE rows[i]
      BY <1>1
    <2>4. QED
      BY <2>2, <2>3 DEF Row
  <1>3. rows' \in Seq(Row) /\ Len(rows') = Len(rows)
    <2>1. DOMAIN rows = 1 .. Len(rows) /\ Len(rows) \in Nat
      BY Parts
    <2>2. rows' \in [1 .. Len(rows) -> Row]
      BY <1>1, <1>2, <2>1
    <2>3. QED
      BY <2>1, <2>2, SeqDef, LenProperties
  <1>4. \A i \in DOMAIN rows : rows[i].status = "ING" <=> rows'[i].status = "ING"
    <2>1. \A i \in DOMAIN rows : rows[i].status = "ING" => rows[i].st # rows[i].et
      BY Parts DEF Typed
    <2>2. QED
      BY <1>2, <2>1
  <1>5. Typed'
    <2>1. \A i \in DOMAIN rows' : rows'[i].st <= now /\ (rows'[i].status = "ING" => rows'[i].et = Open)
      BY <1>2, <1>4 DEF Typed
    <2>2. QED
      BY <1>1, <1>3, <2>1 DEF Typed, Open, NoIndex
  <1>6. OneWriter'
    BY <1>1 DEF OneWriter
  <1>7. LastIsOpen'
    BY <1>1, <1>2, <1>3, <1>4 DEF LastIsOpen
  <1>8. \A f : Live(f) => Live(f)'
    <2> SUFFICES ASSUME NEW f, Live(f) PROVE Live(f)'
      OBVIOUS
    <2>1. Len(rows) \in DOMAIN rows
      BY Parts DEF Live, Typed
    <2>2. QED
      BY <1>1, <1>2, <1>3, <1>4, <2>1 DEF Live
  <1>9. Writing'
    <2>1. pc.new \in Busy => track \in DOMAIN rows
      BY Parts DEF Writing
    <2>2. QED
      BY <1>1, <1>3, <1>4, <1>8, <2>1 DEF Writing
  <1>10. IndexNames'
    BY <1>1, <1>3, <1>8 DEF IndexNames
  <1>11. InSequence'
    <2>1. \A i \in DOMAIN rows : rows'[i].st = rows[i].st
      BY <1>2
    <2>2. QED
      BY <1>1, <1>2, <2>1 DEF InSequence
  <1>12. Covered'
    <2> SUFFICES ASSUME NEW f \in Blocks, block[f].status = "VIDEO", block[f].st < block[f].et
                 PROVE  LET r == rows'[block[f].track] IN
                        r.status # "gone" /\ r.st <= block[f].st /\ block[f].et <= r.et
      BY <1>1 DEF Covered
    <2> DEFINE i == block[f].track
    <2>1. i \in DOMAIN rows
      BY Parts DEF Typed
    <2>2. rows[i].status # "gone" /\ rows[i].st <= block[f].st /\ block[f].et <= rows[i].et
      BY DEF Covered
    <2>3. rows[i].st # rows[i].et
      BY <2>1, <2>2, Parts
    <2>4. QED
      BY <1>2, <2>1, <2>2, <2>3
  <1>13. QED
    BY <1>5, <1>6, <1>7, <1>9, <1>10, <1>11, <1>12

-------------------------------------------------------------------------------
(* The process ends and starts again.                                      *)

\* The process ends: the file that was open is the last one of the open track.
LEMMA CrashStep == Good /\ Crash => Good'
  <1> SUFFICES ASSUME Good, Crash PROVE Good'
    OBVIOUS
  <1> USE DEF Good
  <1>1. /\ UNCHANGED <<now, rows, block, idx>> /\ up /\ up' = FALSE
        /\ ctl' = "idle" /\ pc' = [old |-> "none", new |-> "none"]
        /\ wrun' = FALSE /\ track' = 0 /\ serial' = 0 /\ cur' = 0 /\ stamp' = 0
    BY DEF Crash, catalogue
  <1>2. pc' \in Threads /\ pc'.old = "none" /\ pc'.new = "none"
    BY <1>1 DEF Threads
  <1>3. Typed'
    <2>1. {up', wrun'} \subseteq BOOLEAN
      BY <1>1
    <2>2. /\ track' \in Nat /\ serial' \in Nat /\ stamp' \in Nat /\ cur' \in Blocks \cup {0}
          /\ ctl' \in {"idle", "join", "close", "end"}
      BY <1>1
    <2>3. QED
      BY <1>1, <1>2, <2>1, <2>2 DEF Typed, Open, NoIndex
  <1>4. OneWriter'
    BY <1>1, <1>2 DEF OneWriter, Busy
  <1>5. LastIsOpen'
    BY <1>1 DEF LastIsOpen
  <1>6. Writing'
    BY <1>1, <1>2 DEF Writing, Busy
  <1>7. IndexNames'
    <2>1. \A f \in Blocks : f # 0
      BY Parts
    <2>2. \A f \in Blocks : Live(f)' <=> Live(f)
      BY <1>1 DEF Live
    <2>3. QED
      BY <1>1, <2>1, <2>2 DEF IndexNames, Writing
  <1>8. InSequence' /\ Covered'
    BY <1>1 DEF InSequence, Covered
  <1>9. QED
    BY <1>3, <1>4, <1>5, <1>6, <1>7, <1>8

\* Track t ends with e, and any other that is open with rest.
TracksEnd(t, e, rest) == rows' = [i \in DOMAIN rows |-> RepairedTrack(i, t, e, rest)]

\* The files in use end with e.
FilesEnd(e) == block' = [f \in Blocks |-> IF block[f].status = "ING"
                                         THEN [block[f] EXCEPT !.et = e, !.status = "VIDEO"]
                                         ELSE block[f]]

\* The index names every file in use, and u is one.
OnlyNamed(u) ==
    /\ u \in Blocks /\ block[u].status = "ING"
    /\ \A f \in Blocks : block[f].status = "ING" =>
          block[f].track = idx.track /\ block[f].serial = idx.serial

\* What the repair does to the tracks: the open one, and the one that the index names, end.
LEMMA RepairedRows ==
    ASSUME Typed, NEW t, NEW e \in Nat, NEW rest \in Nat, TracksEnd(t, e, rest)
    PROVE  /\ rows' \in Seq(Row) /\ Len(rows') = Len(rows) /\ DOMAIN rows' = DOMAIN rows
           /\ \A i \in DOMAIN rows :
                 LET ends == rows[i].status # "gone" /\ (i = t \/ rows[i].status = "ING") IN
                 /\ rows'[i] \in Row /\ rows'[i].st = rows[i].st
                 /\ rows'[i].status = IF ends THEN "ED" ELSE rows[i].status
                 /\ rows'[i].et = IF ends THEN (IF i = t THEN e ELSE rest) ELSE rows[i].et
  <1>1. DOMAIN rows' = DOMAIN rows /\ DOMAIN rows = 1 .. Len(rows) /\ Len(rows) \in Nat
    BY Parts DEF TracksEnd
  <1>2. ASSUME NEW i \in DOMAIN rows
        PROVE  LET ends == rows[i].status # "gone" /\ (i = t \/ rows[i].status = "ING") IN
               /\ rows'[i] \in Row /\ rows'[i].st = rows[i].st
               /\ rows'[i].status = IF ends THEN "ED" ELSE rows[i].status
               /\ rows'[i].et = IF ends THEN (IF i = t THEN e ELSE rest) ELSE rows[i].et
    <2> DEFINE ends == rows[i].status # "gone" /\ (i = t \/ rows[i].status = "ING")
    <2>1. rows[i] \in Row
      BY Parts
    <2>2. rows'[i] = IF ends THEN [rows[i] EXCEPT !.et = IF i = t THEN e ELSE rest, !.status = "ED"]
                     ELSE rows[i]
      BY DEF TracksEnd, RepairedTrack, Rows
    <2> HIDE DEF ends
    <2>3. /\ rows'[i] \in Row /\ rows'[i].st = rows[i].st
          /\ rows'[i].status = IF ends THEN "ED" ELSE rows[i].status
          /\ rows'[i].et = IF ends THEN (IF i = t THEN e ELSE rest) ELSE rows[i].et
      BY <2>1, <2>2 DEF Row
    <2>4. QED
      BY <2>3 DEF ends
  <1>3. rows' \in Seq(Row) /\ Len(rows') = Len(rows)
    <2>1. rows' \in [1 .. Len(rows) -> Row]
      <3>1. rows' = [i \in 1 .. Len(rows) |-> rows'[i]]
        BY <1>1 DEF TracksEnd
      <3>2. QED
        BY <1>1, <1>2, <3>1
    <2>2. QED
      BY <1>1, <2>1, SeqDef, LenProperties
  <1>4. QED
    BY <1>1, <1>2, <1>3

\* The repair without a file in use, or without an index: the open track ends at a time
\* that its finished files do not reach beyond.
LEMMA RepairTracks ==
    ASSUME Good, ~up, up' = TRUE, UNCHANGED <<now, block, idx, pc, ctl, wrun, track, serial, cur, stamp>>,
           NEW rest \in 1 .. now, TracksEnd(0, rest, rest), ~Cut(rest),
           {f \in Blocks : block[f].status = "ING"} = {} \/ idx = NoIndex
    PROVE  Good'
  <1> USE DEF Good
  <1>1. pc.new = "none" /\ ctl = "idle" /\ cur = 0 /\ 0 \notin DOMAIN rows /\ rest \in Nat
    BY Parts DEF OneWriter
  <1>2. /\ rows' \in Seq(Row) /\ Len(rows') = Len(rows) /\ DOMAIN rows' = DOMAIN rows
        /\ \A i \in DOMAIN rows :
              /\ rows'[i].st = rows[i].st /\ rows'[i].status # "ING"
              /\ rows[i].status # "gone" => rows'[i].status # "gone"
              /\ rows'[i].et = IF rows[i].status = "ING" THEN rest ELSE rows[i].et
    <2>1. \A i \in DOMAIN rows :
                 LET ends == rows[i].status # "gone" /\ (i = 0 \/ rows[i].status = "ING") IN
                 /\ rows'[i] \in Row /\ rows'[i].st = rows[i].st
                 /\ rows'[i].status = IF ends THEN "ED" ELSE rows[i].status
                 /\ rows'[i].et = IF ends THEN (IF i = 0 THEN rest ELSE rest) ELSE rows[i].et
      BY <1>1, RepairedRows
    <2>2. rows' \in Seq(Row) /\ Len(rows') = Len(rows) /\ DOMAIN rows' = DOMAIN rows
      BY <1>1, RepairedRows
    <2>3. QED
      BY <2>1, <2>2
  <1>3. Typed'
    <2>1. {up', wrun'} \subseteq BOOLEAN
      BY DEF Typed
    <2>2. \A i \in DOMAIN rows' : rows'[i].st <= now /\ rows'[i].status # "ING"
      BY <1>2 DEF Typed
    <2>3. QED
      BY <1>2, <2>1, <2>2 DEF Typed, Open, NoIndex
  <1>4. OneWriter'
    BY DEF OneWriter
  <1>5. LastIsOpen'
    BY <1>2 DEF LastIsOpen
  <1>6. Writing'
    BY <1>1 DEF Writing, Busy
  <1>7. IndexNames'
    <2>1. \A f \in Blocks : block[f].status = "ING" => block[f].track # idx.track
      BY Parts DEF Typed, NoIndex
    <2>2. QED
      BY <1>2, <2>1 DEF IndexNames
  <1>8. InSequence'
    <2>1. \A i \in DOMAIN rows : rows'[i].st = rows[i].st
      BY <1>2
    <2>2. QED
      BY <1>2, <2>1 DEF InSequence
  <1>9. Covered'
    <2> SUFFICES ASSUME NEW f \in Blocks, block[f].status = "VIDEO", block[f].st < block[f].et
                 PROVE  LET r == rows'[block[f].track] IN
                        r.status # "gone" /\ r.st <= block[f].st /\ block[f].et <= r.et
      BY DEF Covered
    <2>1. block[f].track \in DOMAIN rows
      BY Parts DEF Typed
    <2>2. rows[block[f].track].status = "ING" => block[f].et <= rest
      BY <1>1, Parts DEF Cut
    <2>3. QED
      BY <1>2, <2>1, <2>2 DEF Covered
  <1>10. QED
    BY <1>3, <1>4, <1>5, <1>6, <1>7, <1>8, <1>9

\* The repair with the index of the file in use, which is the last one of the open track:
\* both end with the last entry.
LEMMA RepairFile ==
    ASSUME Good, ~up, up' = TRUE, UNCHANGED <<now, idx, pc, ctl, wrun, track, serial, cur, stamp>>,
           idx # NoIndex, idx.last # 0,
           NEW u, OnlyNamed(u), NEW rest \in 1 .. now,
           TracksEnd(idx.track, idx.last, rest), FilesEnd(idx.last)
    PROVE  Good'
  <1> USE DEF Good
  <1> DEFINE e == idx.last
             n == Len(rows)
  <1>1. /\ pc.new = "none" /\ ctl = "idle" /\ cur = 0 /\ e \in Nat /\ e <= now /\ now \in Nat
        /\ rest \in Nat /\ n \in Nat /\ DOMAIN rows = 1 .. n
    BY Parts DEF OneWriter, Typed
  <1>2. /\ u \in Blocks /\ Live(u) /\ idx.track = n /\ block[u].track = n /\ block[u].st <= e
        /\ n \in DOMAIN rows /\ n # 0
        /\ rows[n].status = "ING" /\ rows[n].st <= block[u].st
        /\ \A g \in Blocks : block[g].status = "ING" <=> g = u
        /\ \A g \in Blocks \ {u} : block[g].track = n => block[g].serial < block[u].serial
    <2>1. Live(u) /\ block[u].st <= e
      BY DEF IndexNames, OnlyNamed
    <2>2. idx.track = n /\ block[u].track = n /\ n # 0
      <3>1. block[u].track >= 1 /\ block[u].track \in Nat
        BY Parts DEF Typed, OnlyNamed
      <3>2. QED
        BY <2>1, <3>1 DEF Live, OnlyNamed
    <2>3. \A g \in Blocks : block[g].status = "ING" => g = u
      BY <2>2 DEF InSequence, OnlyNamed
    <2>4. n \in DOMAIN rows
      BY <1>1, <2>2
    <2>5. QED
      BY <2>1, <2>2, <2>3, <2>4 DEF Live, OnlyNamed
  <1>3. \A f \in Blocks : /\ block'[f] \in Entry
                          /\ block'[f].track = block[f].track /\ block'[f].serial = block[f].serial
                          /\ block'[f].st = block[f].st
                          /\ block'[f].status = IF f = u THEN "VIDEO" ELSE block[f].status
                          /\ block'[f].et = IF f = u THEN e ELSE block[f].et
    <2> SUFFICES ASSUME NEW f \in Blocks
                 PROVE  /\ block'[f] \in Entry
                        /\ block'[f].track = block[f].track /\ block'[f].serial = block[f].serial
                        /\ block'[f].st = block[f].st
                        /\ block'[f].status = IF f = u THEN "VIDEO" ELSE block[f].status
                        /\ block'[f].et = IF f = u THEN e ELSE block[f].et
      OBVIOUS
    <2>1. block[f] \in Entry
      BY Parts
    <2>2. block'[f] = IF f = u THEN [block[f] EXCEPT !.et = e, !.status = "VIDEO"] ELSE block[f]
      BY <1>2 DEF FilesEnd
    <2>3. QED
      BY <1>1, <2>1, <2>2 DEF Entry
  <1>4. block' \in [Blocks -> Entry]
    BY <1>3 DEF FilesEnd
  <1>5. /\ rows' \in Seq(Row) /\ Len(rows') = n /\ DOMAIN rows' = DOMAIN rows
        /\ \A i \in DOMAIN rows : rows'[i].st = rows[i].st /\ rows'[i].status # "ING"
        /\ \A i \in DOMAIN rows : i # n => rows'[i].et = rows[i].et /\ rows'[i].status = rows[i].status
        /\ rows'[n].et = e /\ rows'[n].status = "ED"
    <2>1. \A i \in DOMAIN rows :
                 LET ends == rows[i].status # "gone" /\ (i = n \/ rows[i].status = "ING") IN
                 /\ rows'[i] \in Row /\ rows'[i].st = rows[i].st
                 /\ rows'[i].status = IF ends THEN "ED" ELSE rows[i].status
                 /\ rows'[i].et = IF ends THEN (IF i = n THEN e ELSE rest) ELSE rows[i].et
      BY <1>1, <1>2, RepairedRows
    <2>2. rows' \in Seq(Row) /\ Len(rows') = n /\ DOMAIN rows' = DOMAIN rows
      BY <1>1, <1>2, RepairedRows
    <2>3. \A i \in DOMAIN rows : i # n => rows[i].status # "ING"
      BY DEF LastIsOpen
    <2>4. QED
      BY <1>2, <2>1, <2>2, <2>3
  <1> HIDE DEF e, n
  <1>6. Typed'
    <2>1. \A i \in DOMAIN rows' : rows'[i].st <= now /\ rows'[i].status # "ING"
      BY <1>5 DEF Typed
    <2>2. \A f \in Blocks :
             /\ block'[f].track <= Len(rows') /\ block'[f].st <= now
             /\ block'[f].status # "NEW" => block'[f].track >= 1
             /\ block'[f].status = "VIDEO" => block'[f].st <= block'[f].et /\ block'[f].et <= now
      <3> TAKE f \in Blocks
      <3>1. CASE f = u
        <4>1. block[u].track <= Len(rows) /\ block[u].st <= now /\ block[u].track >= 1
          BY <1>2 DEF Typed
        <4>2. QED
          BY <1>1, <1>2, <1>3, <1>5, <3>1, <4>1 DEF n
      <3>2. CASE f # u
        <4>1. block'[f].status = block[f].status /\ block'[f].et = block[f].et
          BY <1>3, <3>2
        <4>2. QED
          BY <1>3, <1>5, <4>1 DEF Typed, n
      <3>3. QED
        BY <3>1, <3>2
    <2>3. {up', wrun'} \subseteq BOOLEAN
      BY DEF Typed
    <2>4. QED
      BY <1>4, <1>5, <2>1, <2>2, <2>3 DEF Typed, Open, NoIndex
  <1>7. OneWriter'
    BY DEF OneWriter
  <1>8. LastIsOpen'
    BY <1>5 DEF LastIsOpen
  <1>9. Writing'
    BY <1>1 DEF Writing, Busy
  <1>10. IndexNames'
    <2>1. \A f \in Blocks : block'[f].status # "ING"
      BY <1>2, <1>3
    <2>2. QED
      BY <1>5, <2>1 DEF IndexNames, n
  <1>11. InSequence'
    <2>1. ASSUME NEW f \in Blocks, NEW i \in DOMAIN rows
          PROVE  /\ block[f].track # 0 /\ block[f].track < i =>
                       /\ block[f].st <= rows[i].st
                       /\ block'[f].status = "VIDEO" => block'[f].et <= rows[i].st
                 /\ i < block[f].track => rows[i].st <= block[f].st
      <3>1. CASE f = u
        BY <1>1, <1>2, <3>1 DEF InSequence
      <3>2. CASE f # u
        BY <1>3, <3>2 DEF InSequence
      <3>3. QED
        BY <3>1, <3>2
    <2>2. ASSUME NEW f \in Blocks, NEW g \in Blocks, block[f].track # 0,
                 \/ block[f].track < block[g].track
                 \/ block[f].track = block[g].track /\ block[f].serial < block[g].serial
          PROVE  block[f].st <= block[g].st /\ (block'[f].status = "VIDEO" => block'[f].et <= block[g].st)
      <3>1. f # u
        <4>1. SUFFICES ASSUME f = u PROVE FALSE
          OBVIOUS
        <4>2. block[g].track <= n /\ block[f].track = n
          BY <1>2, <4>1 DEF Typed, n
        <4>3. block[g].track = n /\ block[f].serial < block[g].serial
          BY <1>1, <2>2, <4>2, Parts
        <4>4. g = u \/ block[g].serial < block[u].serial
          BY <1>2, <4>3
        <4>5. QED
          BY <4>1, <4>3, <4>4, Parts
      <3>2. QED
        BY <1>3, <2>2, <3>1 DEF InSequence
    <2>3. \A f, g \in Blocks : block[f].track # 0 =>
             (block[f].track = block[g].track /\ block[f].serial = block[g].serial => f = g)
      BY DEF InSequence
    <2>4. \A i, j \in DOMAIN rows : i < j => rows[i].st <= rows[j].st
      BY DEF InSequence
    <2>5. \A i \in DOMAIN rows : rows'[i].st = rows[i].st
      BY <1>5
    <2>6. \A i, j \in DOMAIN rows' : i < j => rows'[i].st <= rows'[j].st
      BY <1>5, <2>4, <2>5
    <2>7. ASSUME NEW f \in Blocks, NEW i \in DOMAIN rows'
          PROVE  /\ block'[f].track # 0 /\ block'[f].track < i =>
                       /\ block'[f].st <= rows'[i].st
                       /\ block'[f].status = "VIDEO" => block'[f].et <= rows'[i].st
                 /\ i < block'[f].track => rows'[i].st <= block'[f].st
      BY <1>3, <1>5, <2>1, <2>5
    <2>8. ASSUME NEW f \in Blocks, NEW g \in Blocks, block'[f].track # 0
          PROVE  /\ \/ block'[f].track < block'[g].track
                    \/ block'[f].track = block'[g].track /\ block'[f].serial < block'[g].serial
                    => /\ block'[f].st <= block'[g].st
                       /\ block'[f].status = "VIDEO" => block'[f].et <= block'[g].st
                 /\ block'[f].track = block'[g].track /\ block'[f].serial = block'[g].serial => f = g
      BY <1>3, <2>2, <2>3, <2>8
    <2>9. QED
      BY <2>6, <2>7, <2>8 DEF InSequence
  <1>12. Covered'
    <2> SUFFICES ASSUME NEW f \in Blocks, block'[f].status = "VIDEO", block'[f].st < block'[f].et
                 PROVE  LET r == rows'[block'[f].track] IN
                        r.status # "gone" /\ r.st <= block'[f].st /\ block'[f].et <= r.et
      BY DEF Covered
    <2>1. CASE f = u
      BY <1>1, <1>2, <1>3, <1>5, <2>1
    <2>2. CASE f # u
      <3>1. block[f].status = "VIDEO" /\ block[f].st < block[f].et /\ block[f].track \in DOMAIN rows
        BY <1>3, <2>2, Parts DEF Typed
      <3>2. LET r == rows[block[f].track] IN
            r.status # "gone" /\ r.st <= block[f].st /\ block[f].et <= r.et
        BY <3>1 DEF Covered
      <3>3. CASE block[f].track # n
        BY <1>3, <1>5, <2>2, <3>1, <3>2, <3>3
      <3>4. CASE block[f].track = n
        <4>1. block[f].serial < block[u].serial
          BY <1>2, <2>2, <3>4
        <4>2. block[f].et <= block[u].st
          BY <1>2, <3>1, <3>4, <4>1 DEF InSequence
        <4>3. block[f].et <= e
          BY <1>1, <1>2, <4>2, Parts
        <4>4. QED
          BY <1>2, <1>3, <1>5, <2>2, <3>1, <3>2, <3>4, <4>3
      <3>5. QED
        BY <3>3, <3>4
    <2>3. QED
      BY <2>1, <2>2
  <1>13. QED
    BY <1>6, <1>7, <1>8, <1>9, <1>10, <1>11, <1>12

\* The process starts again.
LEMMA RepairStep == Good /\ Repair /\ Usual' => Good'
  <1> SUFFICES ASSUME Good, Repair, Usual' PROVE Good'
    OBVIOUS
  <1> DEFINE used  == {f \in Blocks : block[f].status = "ING"}
             reads == used # {} /\ idx # NoIndex
  <1>1. /\ ~up /\ up' = TRUE /\ UNCHANGED <<now, idx, pc, ctl, wrun, track, serial, cur, stamp>>
    BY DEF Repair, writer
  <1>2. PICK rest \in 1 .. now :
           \/ /\ reads /\ idx.last # 0 /\ FilesEnd(idx.last) /\ TracksEnd(idx.track, idx.last, rest)
              /\ odd' = (odd \/ \E f \in used : <<block[f].track, block[f].serial>> # <<idx.track, idx.serial>>)
           \/ odd' = TRUE
           \/ ~reads /\ UNCHANGED block /\ TracksEnd(0, rest, rest) /\ odd' = (odd \/ Cut(rest))
    BY DEF Repair, FilesEnd, TracksEnd
  <1>3. ASSUME reads, idx.last # 0, FilesEnd(idx.last), TracksEnd(idx.track, idx.last, rest),
               odd' = (odd \/ \E f \in used : <<block[f].track, block[f].serial>> # <<idx.track, idx.serial>>)
        PROVE  Good'
    <2>1. PICK u \in Blocks : block[u].status = "ING"
      BY <1>3
    <2>2. \A f \in used : <<block[f].track, block[f].serial>> = <<idx.track, idx.serial>>
      BY <1>3 DEF Usual
    <2>3. OnlyNamed(u)
      BY <2>1, <2>2 DEF OnlyNamed
    <2>4. QED
      BY <1>1, <1>3, <2>3, RepairFile
  <1>4. ASSUME ~reads, UNCHANGED block, TracksEnd(0, rest, rest), odd' = (odd \/ Cut(rest))
        PROVE  Good'
    <2>1. ~Cut(rest)
      BY <1>4 DEF Usual
    <2>2. QED
      BY <1>1, <1>4, <2>1, RepairTracks
  <1>5. QED
    BY <1>2, <1>3, <1>4 DEF Usual
-------------------------------------------------------------------------------
(* The answers.                                                            *)

\* In the states of the invariant tracks and files are in a line, as ORDER BY needs it.
LEMMA OrdersAreLinear ==
    ASSUME Typed
    PROVE  /\ Linear(Rows, EarlierTrack)
           /\ \A a, b : Linear(Playable(a, b), EarlierFile)
  <1>1. \A i \in Rows : i \in Nat /\ rows[i].st \in Nat
    BY Parts DEF Rows
  <1>2. \A i, j \in Rows : <<i, j>> \in EarlierTrack <=>
           rows[i].st < rows[j].st \/ (rows[i].st = rows[j].st /\ i < j)
    BY DEF EarlierTrack
  <1>3. Linear(Rows, EarlierTrack)
    BY <1>1, <1>2 DEF Linear
  <1>4. ASSUME NEW a, NEW b
        PROVE  Linear(Playable(a, b), EarlierFile)
    <2> DEFINE S == Playable(a, b)
    <2>1. \A f \in S : /\ f \in Nat /\ block[f].track \in Rows /\ block[f].serial \in Nat
                       /\ f \in Blocks
      BY Parts DEF Playable, Overlapping
    <2>2. \A f, g \in S : <<f, g>> \in EarlierFile <=>
             \/ <<block[f].track, block[g].track>> \in EarlierTrack
             \/ block[f].track = block[g].track /\ block[f].serial < block[g].serial
             \/ block[f].track = block[g].track /\ block[f].serial = block[g].serial /\ f < g
      BY <2>1 DEF EarlierFile
    <2> HIDE DEF S
    <2>3. \A f \in S : <<f, f>> \notin EarlierFile
      <3> TAKE f \in S
      <3>1. <<block[f].track, block[f].track>> \notin EarlierTrack
        BY <1>3, <2>1 DEF Linear
      <3>2. ~(block[f].serial < block[f].serial) /\ ~(f < f)
        BY <2>1
      <3>3. QED
        BY <2>2, <3>1, <3>2
    <2>4. \A f, g \in S : f # g => <<f, g>> \in EarlierFile \/ <<g, f>> \in EarlierFile
      <3> SUFFICES ASSUME NEW f \in S, NEW g \in S, f # g
                   PROVE  <<f, g>> \in EarlierFile \/ <<g, f>> \in EarlierFile
        OBVIOUS
      <3>1. CASE block[f].track # block[g].track
        BY <1>3, <2>1, <2>2, <3>1 DEF Linear
      <3>2. CASE block[f].track = block[g].track
        <4>1. f < g \/ g < f
          BY <2>1
        <4>2. \/ block[f].serial < block[g].serial \/ block[g].serial < block[f].serial
              \/ block[f].serial = block[g].serial
          BY <2>1
        <4>3. QED
          BY <2>2, <3>2, <4>1, <4>2
      <3>3. QED
        BY <3>1, <3>2
    <2>5. \A f, g, h \in S : <<f, g>> \in EarlierFile /\ <<g, h>> \in EarlierFile => <<f, h>> \in EarlierFile
      <3> SUFFICES ASSUME NEW f \in S, NEW g \in S, NEW h \in S,
                          <<f, g>> \in EarlierFile, <<g, h>> \in EarlierFile
                   PROVE  <<f, h>> \in EarlierFile
        OBVIOUS
      <3> DEFINE ft == block[f].track
                 gt == block[g].track
                 ht == block[h].track
      <3>1. /\ ft \in Rows /\ gt \in Rows /\ ht \in Rows
        BY <2>1
      <3>2. <<ft, gt>> \in EarlierTrack /\ <<gt, ht>> \in EarlierTrack => <<ft, ht>> \in EarlierTrack
        BY <1>3, <3>1 DEF Linear
      <3>3. CASE <<ft, gt>> \in EarlierTrack
        BY <2>2, <3>2, <3>3
      <3>4. CASE <<ft, gt>> \notin EarlierTrack /\ <<gt, ht>> \in EarlierTrack
        BY <2>2, <3>4
      <3>5. CASE <<ft, gt>> \notin EarlierTrack /\ <<gt, ht>> \notin EarlierTrack
        BY <2>1, <2>2, <3>5
      <3>6. QED
        BY <3>3, <3>4, <3>5
    <2>6. QED
      BY <2>3, <2>4, <2>5 DEF Linear, S
  <1>5. QED
    BY <1>3, <1>4

\* The files of an answer.
LEMMA FilesProperties ==
    ASSUME Typed, NEW a, NEW b
    PROVE  /\ Files(a, b) \in Seq(Playable(a, b))
           /\ \A i, j \in 1 .. Len(Files(a, b)) : i < j => <<Files(a, b)[i], Files(a, b)[j]>> \in EarlierFile
           /\ \A f \in Playable(a, b) : \E i \in 1 .. Len(Files(a, b)) : Files(a, b)[i] = f
  <1>1. Playable(a, b) \subseteq Blocks /\ IsFiniteSet(Blocks)
    BY TracksAssumption DEF Playable
  <1>2. IsFiniteSet(Playable(a, b))
    BY <1>1, FS_Subset
  <1>3. Linear(Playable(a, b), EarlierFile)
    BY OrdersAreLinear
  <1>4. QED
    BY <1>2, <1>3, OrderByProperties DEF Files

\* The tracks of an answer.
LEMMA TracksProperties ==
    ASSUME Typed, NEW a, NEW b
    PROVE  /\ Tracks(a, b) \in Seq(Overlapping(a, b))
           /\ \A i \in Overlapping(a, b) : \E k \in 1 .. Len(Tracks(a, b)) : Tracks(a, b)[k] = i
  <1>1. Overlapping(a, b) \subseteq Rows /\ Rows \subseteq 1 .. Len(rows) /\ IsFiniteSet(1 .. Len(rows))
    <2>1. Len(rows) \in Nat /\ DOMAIN rows = 1 .. Len(rows)
      BY Parts
    <2>2. IsFiniteSet(1 .. Len(rows))
      BY <2>1, FS_Interval
    <2>3. QED
      BY <2>1, <2>2 DEF Overlapping, Rows
  <1>2. IsFiniteSet(Overlapping(a, b))
    BY <1>1, FS_Subset
  <1>3. Linear(Overlapping(a, b), EarlierTrack)
    BY <1>1, OrdersAreLinear DEF Linear
  <1>4. QED
    BY <1>2, <1>3, OrderByProperties DEF Tracks
-------------------------------------------------------------------------------
(* Theorems about Tracks.                                                  *)

\* While nothing unusual happens the invariant is kept: the catalogue's tracks and files
\* follow each other, and the writer, its index and the open track belong together.
THEOREM TracksInvariantAlways == TracksSpec => []TracksInv
  <1>1. TracksInit => TracksInv
    BY InitGood DEF TracksInv
  <1>2. TracksInv /\ [TracksNext]_tracksVars => TracksInv'
    <2> SUFFICES ASSUME TracksInv, [TracksNext]_tracksVars, Usual' PROVE Good'
      BY DEF TracksInv
    <2>1. Good
      <3>1. odd' = odd \/ (\E x : odd' = (odd \/ x)) \/ odd' = TRUE
        BY DEF TracksNext, Thread, tracksVars, Tick, Begin, Write, Switch, OpenFile, OpenIndex, FirstEntry, Fail,
               LeaveLoop, Cancelled, Close, End, Start, StopWriter, Joined, StopClose, StopEnd, Recycle, Query,
               Crash, Repair
      <3>2. QED
        BY <3>1 DEF Usual, TracksInv
    <2>2. CASE Tick
      BY <2>1, <2>2, TickStep
    <2>3. CASE Thread
      <3>1. CASE Begin \/ Write \/ OpenFile \/ OpenIndex \/ FirstEntry
        BY <2>1, <3>1, BeginStep, WriteStep, OpenFileStep, OpenIndexStep, FirstEntryStep
      <3>2. CASE Fail \/ LeaveLoop \/ Cancelled
        BY <2>1, <3>2, FailStep, LeaveStep
      <3>3. CASE Switch
        BY <2>1, <3>3, CloseStep
      <3>4. ASSUME NEW w \in DOMAIN pc, Close(w) \/ End(w)
            PROVE  Good'
        <4>1. w = "new"
          <5>1. pc[w] # "none" /\ pc.old = "none"
            BY <2>1, <3>4 DEF Close, End, Good, OneWriter
          <5>2. DOMAIN pc = {"old", "new"}
            BY <2>1, Parts DEF Good
          <5>3. QED
            BY <3>4, <5>1, <5>2
        <4>2. QED
          BY <2>1, <3>4, <4>1, CloseStep, EndStep
      <3>5. QED
        BY <2>3, <3>1, <3>2, <3>3, <3>4 DEF Thread
    <2>4. CASE Start \/ StopWriter \/ Joined
      BY <2>1, <2>4, StartStep, StopStep
    <2>5. CASE StopClose \/ StopEnd
      BY <2>1, <2>5, CloseStep, EndStep
    <2>6. CASE Recycle \/ Query
      BY <2>1, <2>6, RecycleStep, QueryStep
    <2>7. CASE Crash \/ Repair
      BY <2>1, <2>7, CrashStep, RepairStep
    <2>8. CASE UNCHANGED tracksVars
      <3>1. UNCHANGED <<now, up, rows, block, idx, pc, ctl, wrun, track, serial, cur, stamp>>
        BY <2>8 DEF tracksVars, catalogue, writer
      <3>2. QED
        BY <2>1, <3>1 DEF Good, Typed, OneWriter, LastIsOpen, Writing, Live, IndexNames, InSequence,
                          Covered, Open, NoIndex
    <2>9. QED
      BY <2>2, <2>3, <2>4, <2>5, <2>6, <2>7, <2>8 DEF TracksNext
  <1>3. QED
    BY <1>1, <1>2, PTL DEF TracksSpec

\* No track stays open that nobody will end (data_writer::raw_data2 and stop_thead,
\* sql_manger::repair_db).
THEOREM OpenIsLiveAlways == TracksSpec => []OpenIsLive
  <1>1. TracksInv => OpenIsLive
    <2> SUFFICES ASSUME Good, up, NEW i \in DOMAIN rows, rows[i].status = "ING"
                 PROVE  i = track /\ (pc.new \notin {"none", "begin"} \/ ctl # "idle")
      BY DEF TracksInv, OpenIsLive
    <2>1. QED
      BY DEF Good, LastIsOpen
  <1>2. QED
    BY <1>1, TracksInvariantAlways, PTL

\* The files of every answer begin one after the other, also when tracks have lost their
\* first files (get_track_video_list_sql).
THEOREM InTimeOrderAlways == TracksSpec => []InTimeOrder
  <1>1. TracksInv => InTimeOrder
    <2> SUFFICES ASSUME Good, NEW a, NEW b,
                        NEW i \in DOMAIN Files(a, b), NEW j \in DOMAIN Files(a, b), i < j
                 PROVE  block[Files(a, b)[i]].st <= block[Files(a, b)[j]].st
      BY DEF TracksInv, InTimeOrder
    <2> DEFINE f == Files(a, b)[i]
               g == Files(a, b)[j]
    <2>1. f \in Playable(a, b) /\ g \in Playable(a, b) /\ <<f, g>> \in EarlierFile
      <3>1. /\ Files(a, b) \in Seq(Playable(a, b))
            /\ \A k, l \in 1 .. Len(Files(a, b)) : k < l => <<Files(a, b)[k], Files(a, b)[l]>> \in EarlierFile
        BY FilesProperties DEF Good
      <3>2. DOMAIN Files(a, b) = 1 .. Len(Files(a, b))
        BY <3>1, LenProperties
      <3>3. QED
        BY <3>1, <3>2, ElementOfSeq
    <2> HIDE DEF f, g
    <2>2. /\ f \in Blocks /\ g \in Blocks /\ f \in Nat /\ g \in Nat
          /\ block[f].track \in Rows /\ block[g].track \in Rows
          /\ block[f].serial \in Nat /\ block[g].serial \in Nat
          /\ \/ <<block[f].track, block[g].track>> \in EarlierTrack
             \/ block[f].track = block[g].track /\ block[f].serial < block[g].serial
             \/ block[f].track = block[g].track /\ block[f].serial = block[g].serial /\ f < g
      BY <2>1, Parts DEF Good, Playable, Overlapping, EarlierFile
    <2>3. block[f].track # 0
      BY <2>2, Parts DEF Good, Rows
    <2>4. CASE <<block[f].track, block[g].track>> \in EarlierTrack
      <3> DEFINE x == block[f].track
                 y == block[g].track
      <3>1. /\ x \in DOMAIN rows /\ y \in DOMAIN rows /\ x \in Nat /\ y \in Nat
            /\ rows[x].st \in Nat /\ rows[y].st \in Nat
            /\ rows[x].st < rows[y].st \/ (rows[x].st = rows[y].st /\ x < y)
        BY <2>2, <2>4, Parts DEF Good, Rows, EarlierTrack
      <3>2. y < x => rows[y].st <= rows[x].st
        BY <3>1 DEF Good, InSequence
      <3>3. x < y
        BY <3>1, <3>2
      <3>4. QED
        BY <2>2, <2>3, <3>3 DEF Good, InSequence, f, g
    <2>5. CASE block[f].track = block[g].track /\ block[f].serial < block[g].serial
      BY <2>2, <2>3, <2>5 DEF Good, InSequence, f, g
    <2>6. CASE block[f].track = block[g].track /\ block[f].serial = block[g].serial /\ f < g
      <3>1. f = g
        BY <2>2, <2>3, <2>6 DEF Good, InSequence
      <3>2. QED
        BY <2>2, <2>6, <3>1
    <2>7. QED
      BY <2>2, <2>4, <2>5, <2>6
  <1>2. QED
    BY <1>1, TracksInvariantAlways, PTL

\* What was recorded and not recycled is found by every query of a span that it overlaps,
\* and announced in one piece (get_track_video_list_sql, answer_query_recordInfo).
THEOREM FilesFoundAlways == TracksSpec => []FilesFound
  <1>1. TracksInv => FilesFound
    <2> SUFFICES ASSUME Good, NEW f \in Blocks, NEW s \in Spans, block[f].status = "VIDEO",
                        Max({s[1], block[f].st}) < Min({s[2], block[f].et})
                 PROVE  /\ f \in Range(Files(s[1], s[2]))
                        /\ \E r \in Range(Answer(s[1], s[2])) :
                              r.st <= Max({s[1], block[f].st}) /\ r.et >= Min({s[2], block[f].et})
      BY DEF TracksInv, FilesFound
    <2> DEFINE a == s[1]
               b == s[2]
               i == block[f].track
    <2>0. /\ a \in Nat /\ b \in Nat /\ block[f].st \in Nat /\ block[f].et \in Nat /\ now \in Nat
          /\ i \in DOMAIN rows /\ rows[i].st \in Nat /\ rows[i].et \in Nat /\ block[f].et <= now
      <3>1. a \in Nat /\ b \in Nat
        <4>1. Open \in Nat
          BY Parts DEF Good
        <4>2. a \in Times /\ b \in Times
          BY DEF Spans
        <4>3. QED
          BY <4>1, <4>2 DEF Times
      <3>2. block[f].st \in Nat /\ block[f].et \in Nat /\ block[f].track \in Nat /\ now \in Nat
        BY Parts DEF Good
      <3>3. block[f].track <= Len(rows) /\ block[f].track >= 1 /\ block[f].et <= now
        BY DEF Good, Typed
      <3>4. i \in DOMAIN rows
        BY <3>2, <3>3, Parts DEF Good
      <3>5. rows[i].st \in Nat /\ rows[i].et \in Nat
        BY <3>4, Parts DEF Good
      <3>6. QED
        BY <3>1, <3>2, <3>3, <3>4, <3>5
    <2> HIDE DEF a, b, i
    <2>1. \A x, y \in Nat : /\ Max({x, y}) = IF x >= y THEN x ELSE y
                            /\ Min({x, y}) = IF x <= y THEN x ELSE y
      <3> SUFFICES ASSUME NEW x \in Nat, NEW y \in Nat
                   PROVE  /\ Max({x, y}) = IF x >= y THEN x ELSE y
                          /\ Min({x, y}) = IF x <= y THEN x ELSE y
        OBVIOUS
      <3>1. \E m \in {x, y} : \A z \in {x, y} : m >= z
        OBVIOUS
      <3>2. \E m \in {x, y} : \A z \in {x, y} : m <= z
        OBVIOUS
      <3>3. /\ Max({x, y}) \in {x, y} /\ \A z \in {x, y} : Max({x, y}) >= z
            /\ Min({x, y}) \in {x, y} /\ \A z \in {x, y} : Min({x, y}) <= z
        BY <3>1, <3>2 DEF Max, Min
      <3>4. QED
        BY <3>3
    <2>2. Max({a, block[f].st}) < Min({b, block[f].et})
      BY DEF a, b
    <2> DEFINE u == block[f].st
               v == block[f].et
               from == Max({a, u})
               to == Min({b, v})
    <2>21. /\ u \in Nat /\ v \in Nat
           /\ from = IF a >= u THEN a ELSE u
           /\ to = IF b <= v THEN b ELSE v
      BY <2>0, <2>1
    <2>22. from < to
      BY <2>2
    <2> HIDE DEF u, v, from, to
    <2>23. u < v /\ u < b /\ a < v /\ a \in Nat /\ b \in Nat
      BY <2>0, <2>21, <2>22
    <2>3. /\ block[f].st < block[f].et /\ block[f].st < b /\ a < block[f].et
      BY <2>23 DEF u, v
    <2>4. /\ rows[i].status # "gone" /\ rows[i].st <= block[f].st /\ block[f].et <= rows[i].et
      BY <2>3 DEF Good, Covered, i
    <2>5. i \in Overlapping(a, b) /\ f \in Playable(a, b)
      BY <2>0, <2>3, <2>4 DEF Overlapping, Rows, Playable, i
    <2>6. f \in Range(Files(a, b))
      <3>1. PICK k \in 1 .. Len(Files(a, b)) : Files(a, b)[k] = f
        BY <2>5, FilesProperties DEF Good
      <3>2. DOMAIN Files(a, b) = 1 .. Len(Files(a, b))
        BY FilesProperties, LenProperties DEF Good
      <3>3. QED
        BY <3>1, <3>2 DEF Range
    <2>7. \E r \in Range(Answer(a, b)) :
             r.st <= Max({a, block[f].st}) /\ r.et >= Min({b, block[f].et})
      <3> DEFINE until == IF rows[i].et = Open THEN now ELSE rows[i].et
                 r == [st |-> IF a > rows[i].st THEN a ELSE rows[i].st, et |-> Min({b, until})]
      <3>1. PICK k \in 1 .. Len(Tracks(a, b)) : Tracks(a, b)[k] = i
        BY <2>5, TracksProperties DEF Good
      <3>2. DOMAIN Tracks(a, b) = 1 .. Len(Tracks(a, b))
        BY TracksProperties, LenProperties DEF Good
      <3>3. Answer(a, b)[k] = r /\ k \in DOMAIN Answer(a, b)
        BY <3>1, <3>2 DEF Answer
      <3>4. r \in Range(Answer(a, b))
        BY <3>3 DEF Range
      <3>5. until \in Nat /\ block[f].et <= until
        BY <2>0, <2>4
      <3> HIDE DEF until
      <3>6. u = block[f].st /\ v = block[f].et /\ from = Max({a, block[f].st}) /\ to = Min({b, block[f].et})
        BY DEF u, v, from, to
      <3>7. r.st <= from
        <4>1. r.st = IF a > rows[i].st THEN a ELSE rows[i].st
          OBVIOUS
        <4>2. rows[i].st <= u /\ rows[i].st \in Nat
          BY <2>0, <2>4, <3>6
        <4> HIDE DEF r
        <4>3. QED
          BY <2>21, <2>23, <4>1, <4>2
      <3>8. r.et >= to
        <4>1. r.et = IF b <= until THEN b ELSE until
          BY <2>1, <2>23, <3>5
        <4>2. v <= until
          BY <3>5, <3>6
        <4> HIDE DEF r
        <4>3. QED
          BY <2>21, <2>23, <3>5, <4>1, <4>2
      <3>9. QED
        BY <3>4, <3>6, <3>7, <3>8
    <2>8. QED
      BY <2>6, <2>7 DEF a, b
  <1>2. QED
    BY <1>1, TracksInvariantAlways, PTL
-------------------------------------------------------------------------------
(* Playback: the inductive invariant.                                      *)

\* The seconds of the units do not decrease, and the files cut the units into
\* stretches: a file ends before the next one begins, in units and in seconds.
Recorded ==
    /\ sec \in Seq(Nat)
    /\ \A u, v \in DOMAIN sec : u <= v => sec[u] <= sec[v]
    /\ file \in Seq([first : Nat, last : Nat, st : Nat, et : Nat])
    /\ \A i \in DOMAIN file :
          /\ 1 <= file[i].first /\ file[i].first <= file[i].last /\ file[i].last <= Len(sec)
          /\ file[i].st = sec[file[i].first] /\ sec[file[i].last] <= file[i].et
          /\ file[i].first = IF i = 1 THEN 1 ELSE file[i - 1].last + 1
    /\ \A i, j \in DOMAIN file : i < j =>
          file[i].last < file[j].first /\ file[i].et <= file[j].st
    /\ req \in [st : Nat, et : Nat] /\ req.st < req.et

\* The files that were taken from the list.
Taken == Len(Select) - Len(list)

\* The list is what is left of the query's answer, behind the file that is open.
ListIsRest ==
    /\ list \in Seq(DOMAIN file)
    /\ thread # "none" =>
          /\ Len(list) <= Len(Select)
          /\ \A i \in 1 .. Len(list) : list[i] = Select[Taken + i]
    /\ fp # 0 =>
          /\ thread # "none"
          /\ Taken >= 1 /\ fp = Select[Taken] /\ fp \in DOMAIN file
          /\ pos \in file[fp].first .. file[fp].last + 1

\* Units that follow each other.
Stretch(s) == s \in Seq(Nat) /\ \A i \in 1 .. Len(s) : s[i] = s[1] + i - 1

\* The thread holds a piece between getbuf and Send only, which goes on where what was
\* sent ends; while it runs, fread goes on behind both.
GoesOn ==
    /\ Stretch(sent) /\ Stretch(piece) /\ brun \in BOOLEAN
    /\ thread = "none" => sent = <<>> /\ ~brun
    /\ piece # <<>> <=> thread = "hold"
    /\ sent # <<>> /\ piece # <<>> => piece[1] = sent[Len(sent)] + 1
    /\ brun /\ fp # 0 /\ piece # <<>> => pos = piece[Len(piece)] + 1
    /\ brun /\ fp # 0 /\ piece = <<>> /\ sent # <<>> => pos = sent[Len(sent)] + 1

\* Nothing wanted comes before unit u.
Early(u) == \A w \in Wanted : u <= w

\* Whatever is sent first.
BeginsEarly ==
    /\ sent # <<>> => Early(sent[1])
    /\ sent = <<>> /\ piece # <<>> => Early(piece[1])
    /\ sent = <<>> /\ piece = <<>> /\ brun /\ fp # 0 => Early(pos)

\* The unit of the end second in the index of the last of several files.
IsEnd(u) ==
    LET files == Select IN
    /\ Len(files) > 1 /\ Cardinality(Index(files[Len(files)])) > 1
    /\ u \in Index(files[Len(files)]) /\ sec[u] = req.et

\* All that is sent or held is before unit u and a piece more.
Within(u) ==
    /\ \A i \in 1 .. Len(sent) : sent[i] < u + MaxChunk
    /\ \A i \in 1 .. Len(piece) : piece[i] < u + MaxChunk

\* The end position is that of the end second once the last file is open, and fread
\* stays before it while the file is not closed.
EndsThere ==
    /\ blast \in BOOLEAN /\ endpos \in Nat
    /\ ~blast => endpos = 0
    /\ thread = "none" => ~blast
    /\ ~blast /\ fp # 0 /\ Len(Select) > 1 => list # <<>>
    /\ blast => list = <<>>
    /\ blast /\ fp # 0 => offsetpos = pos
    /\ \A u \in DOMAIN sec : IsEnd(u) =>
          /\ Within(u)
          /\ blast => endpos = u
          /\ blast /\ fp # 0 => pos <= u

IInv == Recorded /\ ListIsRest /\ GoesOn /\ BeginsEarly /\ EndsThere

\* What the recording consists of.
LEMMA RecordedTypes ==
    ASSUME Recorded
    PROVE  /\ Len(sec) \in Nat /\ DOMAIN sec = 1 .. Len(sec) /\ \A u \in 1 .. Len(sec) : sec[u] \in Nat
           /\ Len(file) \in Nat /\ DOMAIN file = 1 .. Len(file)
           /\ \A i \in 1 .. Len(file) :
                 /\ file[i].first \in 1 .. Len(sec) /\ file[i].last \in 1 .. Len(sec)
                 /\ file[i].st \in Nat /\ file[i].et \in Nat
           /\ req.st \in Nat /\ req.et \in Nat
  <1> DEFINE F == [first : Nat, last : Nat, st : Nat, et : Nat]
  <1>1. /\ Len(sec) \in Nat /\ DOMAIN sec = 1 .. Len(sec)
        /\ \A u \in 1 .. Len(sec) : sec[u] \in Nat
    BY LenProperties, ElementOfSeq DEF Recorded
  <1>2. /\ Len(file) \in Nat /\ DOMAIN file = 1 .. Len(file)
        /\ \A i \in 1 .. Len(file) : file[i] \in F
    BY LenProperties, ElementOfSeq DEF Recorded
  <1>3. \A i \in 1 .. Len(file) : /\ file[i].first \in Nat /\ file[i].last \in Nat
                                 /\ file[i].st \in Nat /\ file[i].et \in Nat
    BY <1>2
  <1>4. \A i \in 1 .. Len(file) :
           1 <= file[i].first /\ file[i].first <= file[i].last /\ file[i].last <= Len(sec)
    BY <1>2 DEF Recorded
  <1>5. \A i \in 1 .. Len(file) : file[i].first \in 1 .. Len(sec) /\ file[i].last \in 1 .. Len(sec)
    BY <1>1, <1>3, <1>4
  <1>6. req.st \in Nat /\ req.et \in Nat
    BY DEF Recorded
  <1>7. QED
    BY <1>1, <1>2, <1>3, <1>5, <1>6
-------------------------------------------------------------------------------
(* The query's answer.                                                     *)

\* The rows are all there, and in order.
LEMMA InOrderOfRowsProperties ==
    ASSUME NEW S \in SUBSET Nat, IsFiniteSet(S)
    PROVE  /\ InOrderOfRows(S) \in Seq(S)
           /\ \A i, j \in 1 .. Len(InOrderOfRows(S)) : i < j => InOrderOfRows(S)[i] < InOrderOfRows(S)[j]
           /\ \A x \in S : \E i \in 1 .. Len(InOrderOfRows(S)) : InOrderOfRows(S)[i] = x
  <1> DEFINE R == {p \in S \X S : p[1] < p[2]}
  <1>1. \A x, y \in S : <<x, y>> \in R <=> x < y
    OBVIOUS
  <1>2. \A x \in S : x \in Nat
    OBVIOUS
  <1>3. InOrderOfRows(S) = OrderBy(S, R)
    BY DEF InOrderOfRows
  <1> HIDE DEF R
  <1>4. Linear(S, R)
    BY <1>1, <1>2 DEF Linear
  <1>5. /\ OrderBy(S, R) \in Seq(S)
        /\ \A i, j \in 1 .. Len(OrderBy(S, R)) : i < j => <<OrderBy(S, R)[i], OrderBy(S, R)[j]>> \in R
        /\ \A x \in S : \E i \in 1 .. Len(OrderBy(S, R)) : OrderBy(S, R)[i] = x
    BY <1>4, OrderByProperties
  <1>6. \A i \in 1 .. Len(OrderBy(S, R)) : OrderBy(S, R)[i] \in S
    BY <1>5, ElementOfSeq
  <1>7. QED
    BY <1>1, <1>3, <1>5, <1>6

\* File i overlaps the span.
Overlaps(i) == file[i].st < req.et /\ file[i].et > req.st

\* The answer has just the files that overlap the span, and no file between two of them
\* is left out.
LEMMA SelectProperties ==
    ASSUME Recorded
    PROVE  /\ Select \in Seq(DOMAIN file) /\ Len(Select) \in Nat
           /\ \A i \in 1 .. Len(Select) : Select[i] \in DOMAIN file /\ Overlaps(Select[i])
           /\ \A i, j \in 1 .. Len(Select) : i < j => Select[i] < Select[j]
           /\ \A i \in 2 .. Len(Select) : Select[i] = Select[i - 1] + 1
           /\ \A f \in DOMAIN file : Overlaps(f) => \E i \in 1 .. Len(Select) : Select[i] = f
  <1> DEFINE S == {i \in DOMAIN file : Overlaps(i)}
             l == Select
  <1>1. /\ DOMAIN file = 1 .. Len(file) /\ Len(file) \in Nat
        /\ \A i \in DOMAIN file : file[i].st \in Nat /\ file[i].et \in Nat
    BY RecordedTypes
  <1>2. S \in SUBSET Nat /\ IsFiniteSet(S) /\ S \subseteq DOMAIN file
    <2>1. S \in SUBSET (1 .. Len(file))
      BY <1>1
    <2>2. IsFiniteSet(1 .. Len(file))
      BY <1>1, FS_Interval
    <2>3. IsFiniteSet(S)
      BY <2>1, <2>2, FS_Subset
    <2>4. QED
      BY <1>1, <2>1, <2>3
  <1>3. l = InOrderOfRows(S)
    BY DEF Select, Overlaps
  <1>4. /\ l \in Seq(S)
        /\ \A i, j \in 1 .. Len(l) : i < j => l[i] < l[j]
        /\ \A x \in S : \E i \in 1 .. Len(l) : l[i] = x
    BY <1>2, <1>3, InOrderOfRowsProperties
  <1> HIDE DEF l, S
  <1>5. l \in Seq(DOMAIN file) /\ Len(l) \in Nat /\ \A i \in 1 .. Len(l) : l[i] \in S
    BY <1>2, <1>4, SeqMonotonic, LenProperties, ElementOfSeq
  <1>6. \A i \in 1 .. Len(l) : l[i] \in DOMAIN file /\ Overlaps(l[i]) /\ l[i] \in Nat
    BY <1>2, <1>5 DEF S
  <1>7. \A i \in 2 .. Len(l) : l[i] = l[i - 1] + 1
    <2> SUFFICES ASSUME NEW i \in 2 .. Len(l), l[i] # l[i - 1] + 1 PROVE FALSE
      OBVIOUS
    <2> DEFINE a == l[i - 1]
               b == l[i]
               c == a + 1
    <2>1. i - 1 \in 1 .. Len(l) /\ i \in 1 .. Len(l) /\ i - 1 < i
      BY <1>5
    <2>2. a \in DOMAIN file /\ b \in DOMAIN file /\ a < b /\ Overlaps(a) /\ Overlaps(b)
      BY <1>4, <1>6, <2>1
    <2> HIDE DEF a, b
    <2>3. c \in DOMAIN file /\ a < c /\ c < b
      BY <1>1, <2>2 DEF a, b
    <2>4. Overlaps(c)
      <3>1. file[a].et <= file[c].st /\ file[c].et <= file[b].st
        BY <2>2, <2>3 DEF Recorded
      <3>2. file[c].st <= file[c].et
        <4>1. /\ file[c].first \in 1 .. Len(sec) /\ file[c].last \in 1 .. Len(sec)
              /\ file[c].first <= file[c].last
              /\ file[c].st = sec[file[c].first] /\ sec[file[c].last] <= file[c].et
          BY <2>3, RecordedTypes DEF Recorded
        <4>2. sec[file[c].first] <= sec[file[c].last]
          BY <4>1, RecordedTypes DEF Recorded
        <4>3. sec[file[c].first] \in Nat /\ sec[file[c].last] \in Nat
          BY <4>1, RecordedTypes
        <4>4. QED
          BY <1>1, <2>3, <4>1, <4>2, <4>3
      <3>3. req.st \in Nat /\ req.et \in Nat
        BY DEF Recorded
      <3>4. file[a].et > req.st /\ file[b].st < req.et
        BY <2>2 DEF Overlaps
      <3>5. /\ file[a].et \in Nat /\ file[b].st \in Nat
            /\ file[c].st \in Nat /\ file[c].et \in Nat
        BY <1>1, <2>2, <2>3
      <3> HIDE DEF c
      <3>6. file[c].st < req.et /\ file[c].et > req.st
        BY <3>1, <3>2, <3>3, <3>4, <3>5, SMTT(20)
      <3>7. QED
        BY <3>6 DEF Overlaps
    <2>5. PICK k \in 1 .. Len(l) : l[k] = c
      BY <1>4, <2>3, <2>4 DEF S
    <2>6. k <= i - 1 \/ i <= k
      BY <1>5
    <2>7. CASE k <= i - 1
      <3>1. k = i - 1 \/ k < i - 1
        BY <1>5, <2>7
      <3>2. c = a \/ c < a
        BY <1>4, <2>1, <2>5, <3>1 DEF a
      <3>3. QED
        BY <1>1, <2>2, <2>3, <3>2
    <2>8. CASE i <= k
      <3>1. k = i \/ i < k
        BY <1>5, <2>8
      <3>2. c = b \/ b < c
        BY <1>4, <2>1, <2>5, <3>1 DEF b
      <3>3. QED
        BY <1>1, <2>2, <2>3, <3>2
    <2>9. QED
      BY <2>6, <2>7, <2>8
  <1>8. \A f \in DOMAIN file : Overlaps(f) => \E i \in 1 .. Len(l) : l[i] = f
    BY <1>4 DEF S
  <1>9. QED
    BY <1>4, <1>5, <1>6, <1>7, <1>8 DEF l

\* Nothing of the file before the first one of the answer is within the span.
LEMMA NothingBefore ==
    ASSUME Recorded, Len(Select) > 0, NEW u \in Wanted
    PROVE  file[Select[1]].first <= u
  <1> DEFINE f == Select[1]
             g == f - 1
  <1>1. /\ f \in 1 .. Len(file) /\ Overlaps(f) /\ Len(Select) \in Nat
        /\ \A i \in 1 .. Len(Select) : 1 < i => f < Select[i]
    BY SelectProperties, RecordedTypes
  <1>2. u \in 1 .. Len(sec) /\ req.st < sec[u] /\ sec[u] < req.et
    BY RecordedTypes DEF Wanted
  <1> HIDE DEF f
  <1>3. /\ file[f].first \in Nat /\ file[f].first = IF f = 1 THEN 1 ELSE file[g].last + 1
    <2>1. f \in DOMAIN file /\ file[f].first \in Nat
      BY <1>1, RecordedTypes
    <2>2. file[f].first = IF f = 1 THEN 1 ELSE file[g].last + 1
      BY <2>1 DEF Recorded
    <2>3. QED
      BY <2>1, <2>2
  <1>4. SUFFICES ASSUME u < file[f].first PROVE FALSE
    BY <1>2, <1>3, RecordedTypes DEF f
  <1>5. /\ f # 1 /\ g \in 1 .. Len(file) /\ g < f
    BY <1>1, <1>2, <1>3, <1>4, RecordedTypes
  <1>6. /\ u <= file[g].last
    BY <1>2, <1>3, <1>4, <1>5, RecordedTypes
  <1>7. sec[u] <= sec[file[g].last] /\ sec[file[g].last] <= file[g].et
    BY <1>2, <1>5, <1>6, RecordedTypes DEF Recorded
  <1>8. file[g].et > req.st
    <2>1. file[g].last \in 1 .. Len(sec) /\ file[g].et \in Nat /\ req.st \in Nat
      BY <1>5, RecordedTypes
    <2>2. sec[u] \in Nat /\ sec[file[g].last] \in Nat
      BY <1>2, <2>1, RecordedTypes
    <2> HIDE DEF g
    <2>3. QED
      BY <1>2, <1>7, <2>1, <2>2
  <1>9. file[g].st < req.et
    <2>1. file[g].st = sec[file[g].first] /\ sec[file[g].first] <= sec[file[g].last]
      BY <1>5, RecordedTypes DEF Recorded
    <2>2. file[g].et <= file[f].st /\ file[f].st < req.et
      BY <1>1, <1>5, RecordedTypes DEF Recorded, Overlaps
    <2>3. sec[file[g].first] \in Nat /\ sec[file[g].last] \in Nat
      BY <1>5, RecordedTypes
    <2>4. file[g].et \in Nat /\ file[f].st \in Nat /\ req.et \in Nat
      BY <1>1, <1>5, RecordedTypes
    <2>5. QED
      BY <1>7, <2>1, <2>2, <2>3, <2>4
  <1>10. PICK k \in 1 .. Len(Select) : Select[k] = g
    BY <1>5, <1>8, <1>9, SelectProperties, RecordedTypes DEF Overlaps
  <1>11. k = 1 \/ 1 < k
    BY <1>1
  <1>12. QED
    BY <1>1, <1>5, <1>10, <1>11 DEF f

-------------------------------------------------------------------------------
(* The index and the pieces.                                               *)

\* A second has one entry at most in the index of a file.
LEMMA IndexUnique ==
    ASSUME Recorded, NEW f \in DOMAIN file, NEW u \in Index(f), NEW v \in Index(f),
           sec[u] = sec[v]
    PROVE  u = v
  <1>1. \A x \in Index(f) : /\ x \in 1 .. Len(sec) /\ x \in file[f].first .. file[f].last
                            /\ x = 1 \/ sec[x - 1] # sec[x]
    BY RecordedTypes, SMTT(20) DEF Index
  <1>2. \A x, y \in Index(f) : sec[x] = sec[y] => ~(x < y)
    <2> SUFFICES ASSUME NEW x \in Index(f), NEW y \in Index(f), sec[x] = sec[y], x < y
                 PROVE  FALSE
      OBVIOUS
    <2>1. /\ x \in 1 .. Len(sec) /\ y \in 1 .. Len(sec) /\ y - 1 \in 1 .. Len(sec)
          /\ x <= y - 1 /\ y - 1 <= y /\ Len(sec) \in Nat
      BY <1>1, RecordedTypes
    <2>2. sec[x] <= sec[y - 1] /\ sec[y - 1] <= sec[y]
      BY <2>1, RecordedTypes DEF Recorded
    <2>3. sec[x] \in Nat /\ sec[y - 1] \in Nat /\ sec[y] \in Nat
      BY <2>1, RecordedTypes
    <2>4. QED
      BY <1>1, <2>1, <2>2, <2>3
  <1>3. u \in Int /\ v \in Int
    BY <1>1
  <1>4. QED
    BY <1>2, <1>3

\* The greatest of a number and at most one other.
LEMMA MaxOfOne ==
    ASSUME NEW T \in SUBSET Nat, \A x, y \in T : x = y, NEW a \in Nat
    PROVE  /\ Max(T \cup {a}) \in T \cup {a}
           /\ \A x \in T \cup {a} : x <= Max(T \cup {a})
  <1>1. \E m \in T \cup {a} : \A x \in T \cup {a} : m >= x
    <2>1. CASE T = {}
      BY <2>1
    <2>2. CASE T # {}
      <3>1. PICK t \in T : TRUE
        BY <2>2
      <3>2. T \cup {a} = {t, a} /\ t \in Nat
        BY <3>1
      <3>3. QED
        BY <3>2
    <2>3. QED
      BY <2>1, <2>2
  <1>2. /\ Max(T \cup {a}) \in T \cup {a}
        /\ \A x \in T \cup {a} : Max(T \cup {a}) >= x
    BY <1>1 DEF Max
  <1>3. QED
    BY <1>2

\* fread finds what follows its place in the file, as much as is asked for.
LEMMA UnitsProperties ==
    ASSUME Recorded, fp \in DOMAIN file, pos \in file[fp].first .. file[fp].last + 1,
           NEW k \in Nat
    PROVE  LET n == Len(Units(k)) IN
           /\ n \in Nat /\ n <= k /\ pos + n <= file[fp].last + 1
           /\ n < k => pos + n = file[fp].last + 1
           /\ Units(k) \in Seq(Nat)
           /\ \A i \in 1 .. n : Units(k)[i] = pos + i - 1
  <1> DEFINE d == file[fp].last + 1 - pos
             n == Min({k, d})
  <1>1. file[fp].first \in Nat /\ file[fp].last \in Nat /\ pos \in Nat /\ d \in Nat
    <2>1. file[fp].first \in Nat /\ file[fp].last \in Nat
      BY RecordedTypes
    <2>2. pos \in Nat /\ pos <= file[fp].last + 1
      BY <2>1
    <2>3. QED
      BY <2>1, <2>2
  <1>2. n \in {k, d} /\ n <= k /\ n <= d
    <2> HIDE DEF d
    <2>1. \E m \in {k, d} : \A y \in {k, d} : m <= y
      BY <1>1
    <2>2. QED
      BY <2>1 DEF Min
  <1>3. n \in Nat
    BY <1>1, <1>2
  <1>4. Units(k) = [i \in 1 .. n |-> pos + i - 1]
    BY DEF Units
  <1> HIDE DEF n
  <1>5. \A i \in 1 .. n : pos + i - 1 \in Nat
    BY <1>1, <1>3
  <1>6. Units(k) \in [1 .. n -> Nat]
    BY <1>4, <1>5
  <1>7. Units(k) \in Seq(Nat) /\ Len(Units(k)) = n
    BY <1>3, <1>6, SeqDef, LenProperties
  <1>8. \A i \in 1 .. n : Units(k)[i] = pos + i - 1
    BY <1>4
  <1>9. pos + n <= file[fp].last + 1 /\ (n < k => pos + n = file[fp].last + 1)
    BY <1>1, <1>2, <1>3
  <1>10. QED
    BY <1>2, <1>3, <1>7, <1>8, <1>9

\* What depends on the recording and the span only.
LEMMA SameRecording ==
    ASSUME UNCHANGED recording
    PROVE  /\ Recorded <=> Recorded'
           /\ Select' = Select /\ Wanted' = Wanted
           /\ \A f : Index(f)' = Index(f)
           /\ \A u : (Early(u) <=> Early(u)') /\ (IsEnd(u) <=> IsEnd(u)')
  BY DEF recording, Recorded, Select, Wanted, Index, Early, IsEnd

-------------------------------------------------------------------------------
(* The inductive invariant.                                                *)

\* The recordings that Init describes are cut into files that follow each other.
LEMMA InitRecorded ==
    ASSUME Init
    PROVE  Recorded
  <1>1. PICK n \in 1 .. MaxUnits : sec \in [1 .. n -> Seconds]
    BY DEF Init
  <1>2. /\ sec \in Seq(Nat) /\ Len(sec) = n /\ DOMAIN sec = 1 .. n /\ n \in Nat
        /\ \A u \in 1 .. n : sec[u] \in Nat /\ 1 <= sec[u]
    <2>1. MaxUnits \in Nat /\ MaxSecond \in Nat /\ n \in Nat
      BY PlaybackAssumption
    <2>2. Seconds \subseteq Nat
      BY <2>1 DEF Seconds
    <2>3. sec \in [1 .. n -> Nat]
      BY <1>1, <2>2
    <2>4. sec \in Seq(Nat) /\ Len(sec) = n
      BY <2>1, <2>3, SeqDef, LenProperties
    <2>5. QED
      BY <1>1, <2>1, <2>3, <2>4 DEF Seconds
  <1>3. \A u, v \in 1 .. n : u <= v => sec[u] <= sec[v]
    <2> SUFFICES ASSUME NEW u \in 1 .. n, NEW v \in 1 .. n, u <= v PROVE sec[u] <= sec[v]
      OBVIOUS
    <2>1. u = v \/ u < v
      OBVIOUS
    <2>2. sec[u] \in Nat
      BY <1>2
    <2>3. QED
      BY <1>2, <2>1, <2>2 DEF Init
  <1>a. PICK m \in 1 .. MaxFiles : \E last \in [1 .. m -> DOMAIN sec] :
           /\ last[m] = Len(sec) /\ \A i, j \in 1 .. m : i < j => last[i] < last[j]
           /\ LET first == [i \in 1 .. m |-> IF i = 1 THEN 1 ELSE last[i - 1] + 1]
                  until == [i \in 1 .. m |-> IF i = m THEN MaxSecond ELSE sec[last[i] + 1]]
              IN \E close \in [1 .. m -> Seconds] :
                    /\ \A i \in 1 .. m : close[i] \in sec[last[i]] .. until[i]
                    /\ file = [i \in 1 .. m |->
                                  [first |-> first[i], last |-> last[i],
                                   st |-> sec[first[i]], et |-> close[i]]]
    BY DEF Init
  <1>4. PICK last \in [1 .. m -> DOMAIN sec] :
           /\ last[m] = Len(sec) /\ \A i, j \in 1 .. m : i < j => last[i] < last[j]
           /\ LET first == [i \in 1 .. m |-> IF i = 1 THEN 1 ELSE last[i - 1] + 1]
                  until == [i \in 1 .. m |-> IF i = m THEN MaxSecond ELSE sec[last[i] + 1]]
              IN \E close \in [1 .. m -> Seconds] :
                    /\ \A i \in 1 .. m : close[i] \in sec[last[i]] .. until[i]
                    /\ file = [i \in 1 .. m |->
                                  [first |-> first[i], last |-> last[i],
                                   st |-> sec[first[i]], et |-> close[i]]]
    BY <1>a
  <1> DEFINE first == [i \in 1 .. m |-> IF i = 1 THEN 1 ELSE last[i - 1] + 1]
             until == [i \in 1 .. m |-> IF i = m THEN MaxSecond ELSE sec[last[i] + 1]]
             row(close) == [i \in 1 .. m |->
                               [first |-> first[i], last |-> last[i],
                                st |-> sec[first[i]], et |-> close[i]]]
  <1>5. PICK close \in [1 .. m -> Seconds] :
           /\ \A i \in 1 .. m : close[i] \in sec[last[i]] .. until[i]
           /\ file = row(close)
    BY <1>4
  <1>6. /\ m \in Nat /\ MaxSecond \in Nat
        /\ \A i \in 1 .. m : last[i] \in 1 .. n /\ close[i] \in Nat
    BY <1>2, <1>4, <1>5, PlaybackAssumption, SMTT(20) DEF Seconds
  <1>7. \A i \in 1 .. m : /\ first[i] = IF i = 1 THEN 1 ELSE last[i - 1] + 1
                          /\ first[i] \in 1 .. n /\ first[i] <= last[i]
    <2> SUFFICES ASSUME NEW i \in 1 .. m
                 PROVE  /\ first[i] = IF i = 1 THEN 1 ELSE last[i - 1] + 1
                        /\ first[i] \in 1 .. n /\ first[i] <= last[i]
      OBVIOUS
    <2>1. first[i] = IF i = 1 THEN 1 ELSE last[i - 1] + 1
      OBVIOUS
    <2>2. CASE i = 1
      BY <1>2, <1>6, <2>1, <2>2
    <2>3. CASE i # 1
      <3>1. i - 1 \in 1 .. m /\ i - 1 < i
        BY <1>6, <2>3
      <3>2. last[i - 1] < last[i] /\ last[i - 1] \in 1 .. n /\ last[i] \in 1 .. n
        BY <1>4, <1>6, <3>1
      <3>3. QED
        BY <1>2, <2>1, <2>3, <3>2, SMTT(20)
    <2>4. QED
      BY <2>2, <2>3
  <1>8. /\ DOMAIN file = 1 .. m
        /\ \A i \in 1 .. m :
              file[i] = [first |-> first[i], last |-> last[i], st |-> sec[first[i]], et |-> close[i]]
    BY <1>5
  <1> HIDE DEF first
  <1>9. \A i \in 1 .. m : /\ file[i].first = first[i] /\ file[i].last = last[i]
                          /\ file[i].st = sec[first[i]] /\ file[i].et = close[i]
    BY <1>8
  <1>10. file \in Seq([first : Nat, last : Nat, st : Nat, et : Nat])
    <2>1. \A i \in 1 .. m : file[i] \in [first : Nat, last : Nat, st : Nat, et : Nat]
      <3> TAKE i \in 1 .. m
      <3>1. first[i] \in Nat /\ last[i] \in Nat /\ sec[first[i]] \in Nat /\ close[i] \in Nat
        BY <1>2, <1>6, <1>7, SMTT(20)
      <3>2. QED
        BY <1>8, <3>1
    <2>2. file \in [1 .. m -> [first : Nat, last : Nat, st : Nat, et : Nat]]
      BY <1>5, <1>8, <2>1
    <2> DEFINE F == [first : Nat, last : Nat, st : Nat, et : Nat]
    <2>3. file \in [1 .. m -> F]
      BY <2>2
    <2> HIDE DEF F
    <2>4. file \in Seq(F)
      BY <1>6, <2>3, SeqDef
    <2>5. QED
      BY <2>4 DEF F
  <1>11. \A i \in 1 .. m : sec[last[i]] <= close[i]
    <2> TAKE i \in 1 .. m
    <2>1. close[i] \in sec[last[i]] .. until[i]
      BY <1>5
    <2>2. QED
      BY <2>1
  <1>12. \A i, j \in 1 .. m : i < j => last[i] < first[j] /\ close[i] <= sec[first[j]]
    <2> SUFFICES ASSUME NEW i \in 1 .. m, NEW j \in 1 .. m, i < j
                 PROVE  last[i] < first[j] /\ close[i] <= sec[first[j]]
      OBVIOUS
    <2>1. j # 1 /\ i # m /\ i + 1 \in 1 .. m /\ j - 1 \in 1 .. m /\ (i = j - 1 \/ i < j - 1)
      BY <1>6
    <2>2. first[j] = last[j - 1] + 1 /\ first[i + 1] = last[i] + 1
      BY <1>6, <1>7, <2>1, SMTT(20)
    <2>3. last[i] <= last[j - 1] /\ last[i] \in 1 .. n /\ last[j - 1] \in 1 .. n
      <3>1. last[i] \in 1 .. n /\ last[j - 1] \in 1 .. n
        BY <1>6, <2>1
      <3>2. i < j - 1 => last[i] < last[j - 1]
        BY <1>4, <2>1
      <3>3. QED
        BY <1>2, <2>1, <3>1, <3>2, SMTT(20)
    <2>4. /\ last[i] + 1 \in 1 .. n /\ last[i] + 1 <= first[j] /\ first[j] \in 1 .. n
          /\ last[i] < first[j]
      BY <1>7, <2>1, <2>2, <2>3
    <2>5. until[i] = sec[last[i] + 1]
      BY <2>1
    <2>6. close[i] \in sec[last[i]] .. sec[last[i] + 1]
      BY <1>5, <2>5
    <2>7. sec[last[i] + 1] <= sec[first[j]] /\ close[i] <= sec[last[i] + 1]
      BY <1>3, <2>4, <2>6
    <2>8. QED
      <3>1. sec[last[i] + 1] \in Nat /\ sec[first[j]] \in Nat /\ close[i] \in Nat
        BY <1>2, <1>6, <2>4
      <3> HIDE DEF until
      <3>2. QED
        BY <2>4, <2>7, <3>1
  <1>13. req \in [st : Nat, et : Nat] /\ req.st < req.et
    <2>1. req \in [st : Seconds, et : Seconds] /\ req.st < req.et
      BY DEF Init
    <2>2. Seconds \subseteq Nat
      BY PlaybackAssumption DEF Seconds
    <2>3. QED
      BY <2>1, <2>2
  <1>14. \A i \in 1 .. m : file[i].first = IF i = 1 THEN 1 ELSE file[i - 1].last + 1
    <2> TAKE i \in 1 .. m
    <2>1. i # 1 => i - 1 \in 1 .. m
      BY <1>6
    <2>2. QED
      BY <1>7, <1>9, <2>1
  <1>15. \A i \in DOMAIN file :
          /\ 1 <= file[i].first /\ file[i].first <= file[i].last /\ file[i].last <= Len(sec)
          /\ file[i].st = sec[file[i].first] /\ sec[file[i].last] <= file[i].et
          /\ file[i].first = IF i = 1 THEN 1 ELSE file[i - 1].last + 1
    <2> SUFFICES ASSUME NEW i \in 1 .. m
                 PROVE  /\ 1 <= file[i].first /\ file[i].first <= file[i].last
                        /\ file[i].last <= Len(sec)
                        /\ file[i].st = sec[file[i].first] /\ sec[file[i].last] <= file[i].et
                        /\ file[i].first = IF i = 1 THEN 1 ELSE file[i - 1].last + 1
      BY <1>8
    <2>1. /\ first[i] \in 1 .. n /\ last[i] \in 1 .. n /\ first[i] <= last[i]
          /\ sec[last[i]] <= close[i]
      BY <1>6, <1>7, <1>11
    <2>2. 1 <= first[i] /\ last[i] <= Len(sec)
      BY <1>2, <2>1
    <2>3. QED
      BY <1>9, <1>14, <2>1, <2>2, SMTT(20)
  <1>16. \A i, j \in DOMAIN file : i < j =>
          file[i].last < file[j].first /\ file[i].et <= file[j].st
    BY <1>8, <1>9, <1>12
  <1>17. QED
    BY <1>2, <1>3, <1>10, <1>13, <1>15, <1>16 DEF Recorded

\* At first nothing is read.
LEMMA InitInv == Init => IInv
  <1> SUFFICES ASSUME Init PROVE IInv
    OBVIOUS
  <1>1. Recorded
    BY InitRecorded
  <1>2. Select \in Seq(DOMAIN file) /\ Len(Select) \in Nat
    BY <1>1, SelectProperties
  <1>3. /\ list = <<>> /\ fp = 0 /\ endpos = 0 /\ ~blast /\ blast \in BOOLEAN
        /\ piece = <<>> /\ sent = <<>> /\ thread = "none" /\ ~brun /\ brun \in BOOLEAN
    BY DEF Init
  <1>4. ListIsRest
    BY <1>3 DEF ListIsRest
  <1>5. GoesOn
    BY <1>3 DEF GoesOn, Stretch
  <1>6. BeginsEarly
    BY <1>3 DEF BeginsEarly
  <1>7. EndsThere
    BY <1>3 DEF EndsThere, Within
  <1>8. QED
    BY <1>1, <1>4, <1>5, <1>6, <1>7 DEF IInv

\* A step that reads and sends nothing: the commands, and the ends of the thread.
LEMMA QuietStep ==
    ASSUME IInv, UNCHANGED <<recording, reader, piece, sent>>,
           brun' \in BOOLEAN, brun' => brun,
           thread' = "hold" <=> thread = "hold", thread' = "none" <=> thread = "none"
    PROVE  IInv'
  <1> USE DEF IInv
  <1>1. /\ list' = list /\ fp' = fp /\ pos' = pos /\ offsetpos' = offsetpos /\ endpos' = endpos
        /\ blast' = blast /\ piece' = piece /\ sent' = sent /\ sec' = sec /\ file' = file
    BY DEF reader, recording
  <1>2. Recorded'
    BY SameRecording
  <1>3. ListIsRest'
    BY <1>1, SameRecording DEF ListIsRest, Taken
  <1>4. GoesOn'
    BY <1>1 DEF GoesOn, Stretch
  <1>5. BeginsEarly'
    BY <1>1, SameRecording DEF BeginsEarly
  <1>6. EndsThere'
    BY <1>1, SameRecording DEF EndsThere, Within
  <1>7. QED
    BY <1>2, <1>3, <1>4, <1>5, <1>6

\* Two stretches that follow each other are one.
LEMMA StretchJoin ==
    ASSUME NEW s, NEW t, Stretch(s), Stretch(t), t # <<>>,
           s # <<>> => t[1] = s[Len(s)] + 1
    PROVE  /\ Stretch(s \o t) /\ s \o t # <<>>
           /\ (s \o t)[1] = IF s = <<>> THEN t[1] ELSE s[1]
           /\ (s \o t)[Len(s \o t)] = t[Len(t)]
           /\ \A i \in 1 .. Len(s \o t) :
                 \/ i \in 1 .. Len(s) /\ (s \o t)[i] = s[i]
                 \/ i - Len(s) \in 1 .. Len(t) /\ (s \o t)[i] = t[i - Len(s)]
  <1> DEFINE m == Len(s)
             n == Len(t)
             r == s \o t
  <1>1. /\ s \in Seq(Nat) /\ t \in Seq(Nat) /\ m \in Nat /\ n \in Nat
        /\ \A i \in 1 .. m : s[i] \in Nat /\ s[i] = s[1] + i - 1
        /\ \A i \in 1 .. n : t[i] \in Nat /\ t[i] = t[1] + i - 1
    <2>1. s \in Seq(Nat) /\ t \in Seq(Nat)
      BY DEF Stretch
    <2>2. m \in Nat /\ n \in Nat
      BY <2>1, LenProperties
    <2>3. /\ \A i \in 1 .. m : s[i] \in Nat
          /\ \A i \in 1 .. n : t[i] \in Nat
      BY <2>1, ElementOfSeq
    <2>4. QED
      BY <2>1, <2>2, <2>3 DEF Stretch
  <1>2. n >= 1 /\ (s = <<>> <=> m = 0)
    BY <1>1, EmptySeq
  <1>3. /\ r \in Seq(Nat) /\ Len(r) = m + n
        /\ \A i \in 1 .. m + n : r[i] = IF i <= m THEN s[i] ELSE t[i - m]
    BY <1>1, ConcatProperties
  <1> HIDE DEF m, n, r
  <1>4. r # <<>>
    BY <1>1, <1>2, <1>3, EmptySeq
  <1>5. r[1] = IF s = <<>> THEN t[1] ELSE s[1]
    <2>1. CASE m = 0
      <3>1. 1 \in 1 .. m + n /\ ~(1 <= m) /\ 1 - m = 1
        BY <1>1, <1>2, <2>1
      <3>2. QED
        BY <1>2, <1>3, <2>1, <3>1
    <2>2. CASE m # 0
      <3>1. 1 \in 1 .. m + n /\ 1 <= m
        BY <1>1, <1>2, <2>2
      <3>2. QED
        BY <1>2, <1>3, <2>2, <3>1
    <2>3. QED
      BY <2>1, <2>2
  <1>6. r[m + n] = t[n]
    <2>1. m + n \in 1 .. m + n /\ ~(m + n <= m) /\ m + n - m = n
      BY <1>1, <1>2
    <2>2. r[m + n] = IF m + n <= m THEN s[m + n] ELSE t[(m + n) - m]
      BY <1>3, <2>1
    <2>3. (m + n) - m = n
      BY <1>1
    <2>4. QED
      BY <2>1, <2>2, <2>3
  <1>7. \A i \in 1 .. m + n : \/ i \in 1 .. m /\ r[i] = s[i]
                              \/ i - m \in 1 .. n /\ r[i] = t[i - m]
    <2> TAKE i \in 1 .. m + n
    <2>1. i <= m => i \in 1 .. m
      BY <1>1
    <2>2. ~(i <= m) => i - m \in 1 .. n
      BY <1>1
    <2>3. QED
      BY <1>3, <2>1, <2>2
  <1>8. \A i \in 1 .. m + n : r[i] = r[1] + i - 1
    <2> TAKE i \in 1 .. m + n
    <2>1. CASE i \in 1 .. m /\ r[i] = s[i]
      <3>1. s # <<>> /\ s[i] = s[1] + i - 1
        BY <1>1, <1>2, <2>1
      <3>2. QED
        BY <1>5, <2>1, <3>1
    <2>2. CASE i - m \in 1 .. n /\ r[i] = t[i - m]
      <3>1. t[i - m] = t[1] + (i - m) - 1 /\ t[1] \in Nat
        BY <1>1, <1>2, <2>2
      <3>2. CASE s = <<>>
        BY <1>1, <1>2, <1>5, <2>2, <3>1, <3>2
      <3>3. CASE s # <<>>
        <4>1. s[m] = s[1] + m - 1 /\ s[1] \in Nat
          BY <1>1, <1>2, <3>3
        <4>2. t[1] = s[1] + m
          BY <1>1, <3>3, <4>1 DEF m
        <4>3. QED
          BY <1>1, <1>5, <2>2, <3>1, <3>3, <4>1, <4>2
      <3>4. QED
        BY <3>2, <3>3
    <2>3. QED
      BY <1>7, <2>1, <2>2
  <1>9. QED
    BY <1>3, <1>4, <1>5, <1>6, <1>7, <1>8 DEF Stretch, m, n, r

\* What is sent is what was held, behind what was sent before.
LEMMA SendStep == IInv /\ Send => IInv'
  <1> SUFFICES ASSUME IInv, Send PROVE IInv'
    OBVIOUS
  <1> USE DEF IInv
  <1>1. /\ thread = "hold" /\ thread' = "read" /\ piece' = <<>> /\ brun' = brun
        /\ sent' = IF brun THEN sent \o piece ELSE sent
        /\ UNCHANGED recording
        /\ list' = list /\ fp' = fp /\ pos' = pos /\ offsetpos' = offsetpos /\ endpos' = endpos
        /\ blast' = blast /\ sec' = sec /\ file' = file
    BY DEF Send, reader, recording
  <1>2. Recorded'
    BY <1>1, SameRecording
  <1>3. ListIsRest'
    BY <1>1, SameRecording DEF ListIsRest, Taken
  <1>4. /\ Stretch(sent) /\ Stretch(piece) /\ piece # <<>>
        /\ sent # <<>> => piece[1] = sent[Len(sent)] + 1
    BY <1>1 DEF GoesOn
  <1> DEFINE all == sent \o piece
  <1>5. /\ Stretch(all) /\ all # <<>>
        /\ all[1] = IF sent = <<>> THEN piece[1] ELSE sent[1]
        /\ all[Len(all)] = piece[Len(piece)]
        /\ \A i \in 1 .. Len(all) : \/ i \in 1 .. Len(sent) /\ all[i] = sent[i]
                                    \/ i - Len(sent) \in 1 .. Len(piece)
                                       /\ all[i] = piece[i - Len(sent)]
    BY <1>4, StretchJoin
  <1> HIDE DEF all
  <1>6. sent' = IF brun THEN all ELSE sent
    BY <1>1 DEF all
  <1>7. GoesOn'
    <2>1. Stretch(sent')
      BY <1>4, <1>5, <1>6
    <2>2. Stretch(<<>>)
      BY DEF Stretch
    <2>3. (brun /\ fp # 0 /\ piece = <<>> /\ sent # <<>> => pos = sent[Len(sent)] + 1)'
      BY <1>1, <1>4, <1>5, <1>6 DEF GoesOn
    <2>4. QED
      BY <1>1, <2>1, <2>2, <2>3 DEF GoesOn, Stretch
  <1>8. BeginsEarly'
    <2>1. (sent # <<>> => Early(sent[1]))'
      BY <1>1, <1>4, <1>5, <1>6, SameRecording DEF BeginsEarly
    <2>2. brun => sent' # <<>>
      BY <1>5, <1>6
    <2>3. QED
      BY <1>1, <2>1, <2>2 DEF BeginsEarly
  <1>9. EndsThere'
    <2>1. \A u \in DOMAIN sec : Within(u) => Within(u)'
      <3> SUFFICES ASSUME NEW u \in DOMAIN sec, Within(u) PROVE Within(u)'
        OBVIOUS
      <3>1. \A i \in 1 .. Len(all) : all[i] < u + MaxChunk
        BY <1>5 DEF Within
      <3>2. QED
        BY <1>1, <1>6, <3>1 DEF Within
    <2>2. QED
      BY <1>1, <2>1, SameRecording DEF EndsThere
  <1>10. QED
    BY <1>2, <1>3, <1>7, <1>8, <1>9

\* A piece that was read goes on where the last one ended, and what is read next goes on
\* behind it.
LEMMA ReadGoesOn ==
    ASSUME IInv, UNCHANGED <<recording, sent, brun>>, NEW k \in Nat,
           thread = "read", thread' = "hold", brun, fp # 0,
           piece' = Units(k), Len(Units(k)) >= 1,
           fp' # 0 => pos' = pos + Len(Units(k))
    PROVE  GoesOn' /\ BeginsEarly'
  <1> USE DEF IInv
  <1> DEFINE p == Units(k)
             n == Len(p)
  <1>1. /\ p \in Seq(Nat) /\ n \in Nat /\ n >= 1 /\ \A i \in 1 .. n : p[i] = pos + i - 1
        /\ pos \in Nat
    <2>1. fp \in DOMAIN file /\ pos \in file[fp].first .. file[fp].last + 1
      BY DEF ListIsRest
    <2>2. pos \in Nat
      BY <2>1, RecordedTypes
    <2>3. QED
      BY <2>1, <2>2, UnitsProperties
  <1> HIDE DEF p
  <1>2. p # <<>> /\ p[1] = pos /\ p[n] = pos + n - 1
    BY <1>1, EmptySeq
  <1>3. Stretch(p)
    BY <1>1, <1>2 DEF Stretch
  <1>4. piece = <<>> /\ piece' = p
    BY DEF GoesOn, p
  <1>5. sent # <<>> => pos = sent[Len(sent)] + 1
    BY <1>4 DEF GoesOn
  <1>6. fp' # 0 => pos' = p[n] + 1
    BY <1>1, <1>2 DEF p
  <1>7. GoesOn'
    BY <1>2, <1>3, <1>4, <1>5, <1>6 DEF GoesOn, Stretch
  <1>8. sent = <<>> => Early(pos)
    BY <1>4 DEF BeginsEarly
  <1>9. BeginsEarly'
    BY <1>2, <1>4, <1>8, SameRecording DEF BeginsEarly
  <1>10. QED
    BY <1>7, <1>9

\* The first file is opened no later than at the first unit wanted.
LEMMA OpenFirstEarly ==
    ASSUME Recorded, Len(Select) > 0, OpenFirst(Select[1])
    PROVE  /\ fp' = Select[1] /\ fp' \in DOMAIN file /\ fp' # 0
           /\ pos' \in file[fp'].first .. file[fp'].last + 1
           /\ Early(pos')
  <1> DEFINE f == Select[1]
             exact == {u \in Index(f) : sec[u] = req.st}
  <1>1. f \in DOMAIN file /\ f \in 1 .. Len(file) /\ Len(file) \in Nat /\ fp' = f
    BY SelectProperties, RecordedTypes DEF OpenFirst
  <1>2. /\ file[f].first \in Nat /\ file[f].last \in Nat /\ file[f].first <= file[f].last
        /\ file[f].last <= Len(sec) /\ Len(sec) \in Nat /\ req.st \in Nat
    <2>1. file[f].first \in Nat /\ file[f].last \in Nat /\ Len(sec) \in Nat /\ req.st \in Nat
      BY <1>1, RecordedTypes
    <2>2. file[f].first <= file[f].last /\ file[f].last <= Len(sec)
      BY <1>1 DEF Recorded
    <2>3. QED
      BY <2>1, <2>2
  <1>3. pos' = Max(exact \cup {file[f].first})
    <2>1. {u \in {u \in Index(f) : sec[u] <= req.st} : sec[u] = req.st} = exact
      <3>1. \A u \in Index(f) : sec[u] = req.st => sec[u] <= req.st
        BY <1>2
      <3>2. QED
        BY <3>1
    <2>2. pos' = Max({u \in {u \in Index(f) : sec[u] <= req.st} : sec[u] = req.st}
                        \cup {file[f].first})
      BY DEF OpenFirst
    <2>3. QED
      BY <2>1, <2>2
  <1>4. exact \in SUBSET Nat /\ \A u \in exact : u \in file[f].first .. file[f].last
    BY <1>2 DEF Index
  <1>5. \A u, v \in exact : u = v
    BY <1>1, IndexUnique
  <1>6. pos' \in exact \cup {file[f].first}
    BY <1>2, <1>3, <1>4, <1>5, MaxOfOne
  <1>7. pos' \in file[f].first .. file[f].last + 1
    BY <1>2, <1>4, <1>6
  <1>8. Early(pos')
    <2> SUFFICES ASSUME NEW w \in Wanted PROVE pos' <= w
      BY DEF Early
    <2>1. CASE pos' = file[f].first
      BY <2>1, NothingBefore
    <2>2. CASE pos' \in exact
      <3>1. sec[pos'] = req.st /\ pos' \in 1 .. Len(sec)
        BY <1>1, <1>2, <1>4, <2>2, RecordedTypes
      <3>2. w \in 1 .. Len(sec) /\ req.st < sec[w]
        BY RecordedTypes DEF Wanted
      <3>3. w <= pos' => sec[w] <= sec[pos']
        BY <3>1, <3>2, RecordedTypes DEF Recorded
      <3>4. sec[w] \in Nat
        BY <3>2, RecordedTypes
      <3>5. QED
        BY <1>2, <3>1, <3>2, <3>3, <3>4
    <2>3. QED
      BY <1>6, <2>1, <2>2
  <1>9. QED
    BY <1>1, <1>7, <1>8

\* A transfer begins with the query's answer, whose first file is open or could not be
\* opened.
LEMMA CreateStep == IInv /\ Create => IInv'
  <1> SUFFICES ASSUME IInv, Create PROVE IInv'
    OBVIOUS
  <1> USE DEF IInv
  <1>1. /\ thread = "none" /\ thread' = "read" /\ brun' = TRUE
        /\ UNCHANGED <<recording, endpos, blast, piece, sent>>
        /\ sec' = sec /\ file' = file
        /\ list' = IF Select = <<>> THEN Select ELSE Tail(Select)
        /\ \/ Select # <<>> /\ OpenFirst(Select[1])
           \/ fp' = 0
    BY DEF Create, recording
  <1>2. Recorded'
    BY <1>1, SameRecording
  <1>3. sent = <<>> /\ piece = <<>> /\ ~blast
    BY <1>1 DEF GoesOn, EndsThere
  <1>4. /\ Select \in Seq(DOMAIN file) /\ Len(Select) \in Nat
        /\ Select # <<>> <=> Len(Select) > 0
    BY SelectProperties, EmptySeq
  <1>5. /\ list' \in Seq(DOMAIN file)
        /\ Len(list') = IF Select = <<>> THEN 0 ELSE Len(Select) - 1
        /\ \A i \in 1 .. Len(list') : list'[i] = Select[i + 1]
    <2>1. CASE Select = <<>>
      BY <1>1, <1>4, <2>1
    <2>2. CASE Select # <<>>
      <3>1. /\ Tail(Select) \in Seq(DOMAIN file) /\ Len(Tail(Select)) = Len(Select) - 1
            /\ \A i \in 1 .. Len(Tail(Select)) : Tail(Select)[i] = Select[i + 1]
        BY <1>4, <2>2, HeadTailProperties
      <3>2. QED
        BY <1>1, <2>2, <3>1
    <2>3. QED
      BY <2>1, <2>2
  <1>6. fp' # 0 => /\ Select # <<>> /\ fp' = Select[1] /\ fp' \in DOMAIN file
                   /\ pos' \in file[fp'].first .. file[fp'].last + 1
                   /\ Early(pos')
    BY <1>1, <1>4, OpenFirstEarly
  <1>7. ListIsRest'
    <2>1. Len(list') <= Len(Select)
      BY <1>4, <1>5
    <2>2. Taken' = IF Select = <<>> THEN 0 ELSE 1
      BY <1>1, <1>4, <1>5, SameRecording DEF Taken
    <2>3. \A i \in 1 .. Len(list') : list'[i] = Select[Taken' + i]
      <3>1. CASE Select = <<>>
        BY <1>5, <3>1
      <3>2. CASE Select # <<>>
        <4>1. \A i \in 1 .. Len(list') : i + 1 = 1 + i
          OBVIOUS
        <4>2. QED
          BY <1>5, <2>2, <3>2, <4>1
      <3>3. QED
        BY <3>1, <3>2
    <2>4. QED
      BY <1>1, <1>5, <1>6, <2>1, <2>2, <2>3, SameRecording DEF ListIsRest
  <1>8. GoesOn'
    BY <1>1, <1>3 DEF GoesOn, Stretch
  <1>9. BeginsEarly'
    BY <1>1, <1>3, <1>6, SameRecording DEF BeginsEarly
  <1>10. EndsThere'
    <2>1. Len(Select) > 1 => list' # <<>>
      BY <1>4, <1>5
    <2>2. \A u : Within(u)'
      BY <1>1, <1>3 DEF Within
    <2>3. QED
      BY <1>1, <1>3, <2>1, <2>2, SameRecording DEF EndsThere
  <1>11. QED
    BY <1>2, <1>7, <1>8, <1>9, <1>10

-------------------------------------------------------------------------------
(* The next file and the end position.                                     *)

\* The last file that the query finds.
LastFile == Select[Len(Select)]

\* Before the last file is opened, all that is read lies before the end second.
LEMMA BeforeTheEnd ==
    ASSUME IInv, fp # 0, list # <<>>, NEW u, IsEnd(u)
    PROVE  file[fp].last < u
  <1> USE DEF IInv
  <1>1. /\ Select \in Seq(DOMAIN file) /\ Len(Select) \in Nat /\ Len(Select) > 1
        /\ \A i, j \in 1 .. Len(Select) : i < j => Select[i] < Select[j]
        /\ \A i \in 1 .. Len(Select) : Select[i] \in DOMAIN file
    BY SelectProperties DEF IsEnd
  <1>2. u \in Index(LastFile)
    BY DEF IsEnd, LastFile
  <1>3. Len(list) \in Nat /\ Len(list) > 0 /\ Len(list) <= Len(Select)
    BY LenProperties, EmptySeq DEF ListIsRest
  <1>4. Taken \in 1 .. Len(Select) /\ Taken < Len(Select) /\ fp = Select[Taken]
    BY <1>1, <1>3 DEF ListIsRest, Taken
  <1>5. fp \in DOMAIN file /\ LastFile \in DOMAIN file /\ fp < LastFile
    BY <1>1, <1>4 DEF LastFile
  <1>6. file[fp].last < file[LastFile].first
    BY <1>5 DEF Recorded
  <1>7. file[LastFile].first <= u /\ u \in Int
    BY <1>2, <1>5, RecordedTypes DEF Index
  <1>8. file[fp].last \in Nat /\ file[LastFile].first \in Nat
    BY <1>5, RecordedTypes
  <1>9. QED
    BY <1>6, <1>7, <1>8

\* The next file follows the one that was open, and when it is the last one, the end
\* position is that of the end second.
LEMMA NextFileFollows ==
    ASSUME IInv, NextFile, UNCHANGED recording, fp # 0, thread' # "none"
    PROVE  /\ ListIsRest'
           /\ fp' # 0 => pos' = file[fp].last + 1
           /\ blast' \in BOOLEAN /\ endpos' \in Nat
           /\ ~blast' => endpos' = 0
           /\ ~blast' /\ fp' # 0 /\ Len(Select) > 1 => list' # <<>>
           /\ blast' => list' = <<>>
           /\ blast' /\ fp' # 0 => offsetpos' = pos'
           /\ \A u \in DOMAIN sec : IsEnd(u) =>
                 /\ blast' => endpos' = u
                 /\ blast' /\ fp' # 0 => pos' <= u
  <1> USE DEF IInv
  <1>1. /\ Select \in Seq(DOMAIN file) /\ Len(Select) \in Nat
        /\ \A i \in 1 .. Len(Select) : Select[i] \in DOMAIN file
        /\ \A i \in 2 .. Len(Select) : Select[i] = Select[i - 1] + 1
        /\ sec' = sec /\ file' = file /\ req' = req /\ Select' = Select
    BY SelectProperties, SameRecording DEF recording
  <1>2. /\ list \in Seq(DOMAIN file) /\ Len(list) \in Nat /\ Len(list) <= Len(Select)
        /\ (list = <<>> <=> Len(list) = 0)
        /\ \A i \in 1 .. Len(list) : list[i] = Select[Taken + i]
        /\ Taken \in Nat /\ Taken >= 1 /\ Taken = Len(Select) - Len(list)
        /\ fp = Select[Taken] /\ fp \in DOMAIN file
    BY <1>1, LenProperties, EmptySeq DEF ListIsRest, Taken
  <1>3. CASE list = <<>>
    <2>1. fp' = 0 /\ UNCHANGED <<list, pos, offsetpos, endpos, blast>>
      BY <1>3 DEF NextFile
    <2>2. ListIsRest'
      BY <1>1, <1>2, <1>3, <2>1 DEF ListIsRest, Taken
    <2>3. QED
      BY <1>3, <2>1, <2>2 DEF EndsThere
  <1>4. CASE list # <<>>
    <2> DEFINE f == Head(list)
    <2>1. /\ fp' = f /\ list' = Tail(list) /\ pos' = file[f].first /\ offsetpos' = pos'
          /\ IF Len(list) = 1
             THEN blast' = TRUE /\ endpos' \in EndPosition(f)
             ELSE UNCHANGED <<blast, endpos>>
      BY <1>4 DEF NextFile
    <2>2. /\ f = Select[Taken + 1] /\ Taken + 1 \in 2 .. Len(Select)
          /\ list' \in Seq(DOMAIN file) /\ Len(list') = Len(list) - 1
          /\ \A i \in 1 .. Len(list') : list'[i] = list[i + 1]
      <3>1. /\ f = list[1] /\ Tail(list) \in Seq(DOMAIN file) /\ Len(Tail(list)) = Len(list) - 1
            /\ \A i \in 1 .. Len(Tail(list)) : Tail(list)[i] = list[i + 1]
        BY <1>2, <1>4, HeadTailProperties
      <3>2. 1 \in 1 .. Len(list) /\ Taken + 1 \in 2 .. Len(Select)
        BY <1>1, <1>2, <1>4
      <3>3. QED
        BY <1>2, <2>1, <3>1, <3>2
    <2> HIDE DEF f
    <2>3. f \in DOMAIN file /\ f = fp + 1
      <3>1. Select[Taken + 1] = Select[(Taken + 1) - 1] + 1
        BY <1>1, <2>2
      <3>2. (Taken + 1) - 1 = Taken /\ Taken + 1 \in 1 .. Len(Select)
        BY <1>2, <2>2
      <3>3. QED
        BY <1>1, <1>2, <2>2, <3>1, <3>2
    <2>4. /\ file[f].first \in Nat /\ file[f].last \in Nat /\ file[f].first <= file[f].last
          /\ file[f].first = file[fp].last + 1
      <3>1. file[f].first \in Nat /\ file[f].last \in Nat /\ fp \in Nat /\ fp >= 1
        <4>1. fp \in 1 .. Len(file) /\ f \in 1 .. Len(file) /\ Len(file) \in Nat
          BY <1>2, <2>3, RecordedTypes
        <4>2. file[f].first \in 1 .. Len(sec) /\ file[f].last \in 1 .. Len(sec)
          BY <4>1, RecordedTypes
        <4>3. QED
          BY <4>1, <4>2
      <3>2. file[f].first <= file[f].last
        BY <2>3 DEF Recorded
      <3>3. f # 1 /\ f - 1 = fp
        BY <2>3, <3>1
      <3>4. file[f].first = file[f - 1].last + 1
        BY <2>3, <3>3 DEF Recorded
      <3>5. QED
        BY <3>1, <3>2, <3>3, <3>4
    <2>5. pos' \in file[f].first .. file[f].last + 1 /\ pos' \in Nat
      BY <2>1, <2>4
    <2>6. Taken' = Taken + 1
      BY <1>1, <1>2, <2>2 DEF Taken
    <2>7. \A i \in 1 .. Len(list') : list'[i] = Select[Taken' + i]
      <3> TAKE i \in 1 .. Len(list')
      <3>1. i + 1 \in 1 .. Len(list) /\ Taken + (i + 1) = (Taken + 1) + i
        BY <1>2, <2>2
      <3>2. QED
        BY <1>2, <2>2, <2>6, <3>1
    <2>8. ListIsRest'
      BY <1>1, <1>2, <2>1, <2>2, <2>3, <2>5, <2>6, <2>7, SMTT(20) DEF ListIsRest
    <2>9. ~blast /\ endpos = 0
      BY <1>4 DEF EndsThere
    <2>10. CASE Len(list) = 1
      <3>1. blast' = TRUE /\ endpos' \in EndPosition(f) /\ list' = <<>> /\ f = LastFile
        <4>1. Len(list') = 0 /\ Taken + 1 = Len(Select)
          BY <1>1, <1>2, <2>2, <2>10
        <4>2. list' = <<>>
          BY <2>2, <4>1, EmptySeq
        <4>3. QED
          BY <2>1, <2>2, <2>10, <4>1, <4>2 DEF LastFile
      <3> DEFINE T == {u \in Index(f) : sec[u] = req.et}
      <3>2. /\ T \in SUBSET Nat /\ (\A x, y \in T : x = y)
            /\ \A x \in T : 1 <= x
        <4>1. \A x \in Index(f) : x \in Nat /\ 1 <= x
          <5>1. 1 <= file[f].first
            BY <2>3 DEF Recorded
          <5>2. Index(f) \subseteq file[f].first .. file[f].last
            BY DEF Index
          <5>3. QED
            BY <2>4, <5>1, <5>2
        <4>2. \A x, y \in T : x = y
          BY <2>3, IndexUnique
        <4>3. QED
          BY <4>1, <4>2
      <3>3. Max(T \cup {0}) \in T \cup {0} /\ \A x \in T \cup {0} : x <= Max(T \cup {0})
        BY <3>2, MaxOfOne
      <3>4. endpos' \in Nat
        <4>1. CASE Cardinality(Index(f)) > 1
          BY <2>9, <3>1, <3>2, <3>3, <4>1 DEF EndPosition
        <4>2. CASE ~(Cardinality(Index(f)) > 1)
          BY <2>9, <3>1, <4>2, RecordedTypes DEF EndPosition
        <4>3. QED
          BY <4>1, <4>2
      <3>5. ASSUME NEW u \in DOMAIN sec, IsEnd(u)
            PROVE  endpos' = u /\ pos' <= u
        <4>1. u \in Index(f) /\ sec[u] = req.et /\ Cardinality(Index(f)) > 1
          BY <3>1, <3>5 DEF IsEnd, LastFile
        <4>2. u \in T
          BY <4>1
        <4>3. endpos' = Max(T \cup {0})
          BY <2>9, <3>1, <4>1 DEF EndPosition
        <4>4. u <= Max(T \cup {0}) /\ 1 <= u
          BY <3>2, <3>3, <4>2
        <4>5. Max(T \cup {0}) # 0
          BY <3>2, <3>3, <4>2, <4>4
        <4>6. endpos' \in T
          BY <3>3, <4>3, <4>5
        <4>7. endpos' = u
          BY <3>2, <4>2, <4>6
        <4>8. pos' <= u
          BY <2>1, <4>1 DEF Index
        <4>9. QED
          BY <4>7, <4>8
      <3>6. QED
        BY <2>1, <2>4, <2>8, <3>1, <3>4, <3>5
    <2>11. CASE Len(list) # 1
      <3>1. UNCHANGED <<blast, endpos>> /\ list' # <<>>
        <4>1. Len(list') # 0
          BY <1>2, <1>4, <2>2, <2>11
        <4>2. QED
          BY <2>1, <2>2, <2>11, <4>1
      <3>2. QED
        <4>1. ~blast' /\ blast' \in BOOLEAN
          BY <2>9, <3>1 DEF EndsThere
        <4>2. endpos' = 0
          BY <2>9, <3>1
        <4>3. QED
          BY <2>1, <2>4, <2>8, <3>1, <4>1, <4>2
    <2>12. QED
      BY <2>10, <2>11
  <1>5. QED
    BY <1>3, <1>4

-------------------------------------------------------------------------------
(* Reading.                                                                *)

\* A piece is read before the end position or in a file before the last one, and so
\* less than a piece's length behind the end second.
LEMMA ReadWithin ==
    ASSUME IInv, fp # 0, thread = "read", thread' = "hold", NEW k \in 1 .. MaxChunk,
           piece' = Units(k), sent' = sent, NEW u \in DOMAIN sec, IsEnd(u)
    PROVE  Within(u)'
  <1> USE DEF IInv
  <1>1. /\ fp \in DOMAIN file /\ pos \in file[fp].first .. file[fp].last + 1
        /\ u \in Nat /\ k \in Nat /\ k <= MaxChunk /\ MaxChunk \in Nat /\ MaxChunk >= 1
    <2>1. fp \in DOMAIN file /\ pos \in file[fp].first .. file[fp].last + 1
      BY DEF ListIsRest
    <2>2. MaxChunk \in Nat /\ MaxChunk >= 1
      BY PlaybackAssumption
    <2>3. k \in Nat /\ k <= MaxChunk
      BY <2>2
    <2>4. DOMAIN sec = 1 .. Len(sec) /\ Len(sec) \in Nat
      BY RecordedTypes
    <2>5. u \in Nat
      BY <2>4
    <2>6. QED
      BY <2>1, <2>2, <2>3, <2>5
  <1>2. pos \in Nat /\ file[fp].last \in Nat
    BY <1>1, RecordedTypes
  <1> DEFINE n == Len(Units(k))
  <1>3. /\ n \in Nat /\ n <= k /\ pos + n <= file[fp].last + 1
        /\ \A i \in 1 .. n : Units(k)[i] = pos + i - 1
    BY <1>1, UnitsProperties
  <1> HIDE DEF n
  <1>4. \A i \in 1 .. n : Units(k)[i] < u + MaxChunk
    <2> TAKE i \in 1 .. n
    <2>1. CASE blast
      <3>1. pos <= u
        BY <2>1 DEF EndsThere
      <3>2. QED
        BY <1>1, <1>2, <1>3, <3>1
    <2>2. CASE ~blast
      <3>1. list # <<>>
        BY <2>2 DEF EndsThere, IsEnd
      <3>2. file[fp].last < u
        BY <3>1, BeforeTheEnd
      <3>3. QED
        BY <1>1, <1>2, <1>3, <3>2
    <2>3. QED
      BY <2>1, <2>2
  <1>5. \A i \in 1 .. Len(sent) : sent[i] < u + MaxChunk
    BY DEF EndsThere, Within
  <1>6. QED
    BY <1>1, <1>4, <1>5 DEF Within, n

\* getbuf at the end of a file.
LEMMA ReadShortStep ==
    ASSUME IInv, NEW k \in 1 .. MaxChunk, ReadShort(k)
    PROVE  IInv'
  <1> USE DEF IInv
  <1>1. /\ thread = "read" /\ thread' = "hold" /\ brun /\ fp # 0 /\ NextFile
        /\ piece' = Units(k) /\ Len(Units(k)) \in 1 .. k - 1
        /\ UNCHANGED recording /\ sent' = sent /\ brun' = brun
        /\ sec' = sec /\ file' = file
    BY DEF ReadShort, recording
  <1>2. k \in Nat
    BY PlaybackAssumption
  <1>3. Recorded'
    BY <1>1, SameRecording
  <1>4. fp \in DOMAIN file /\ pos \in file[fp].first .. file[fp].last + 1
    BY <1>1 DEF ListIsRest
  <1>5. Len(Units(k)) >= 1 /\ pos + Len(Units(k)) = file[fp].last + 1
    <2>1. LET n == Len(Units(k)) IN n < k => pos + n = file[fp].last + 1
      BY <1>2, <1>4, UnitsProperties
    <2>2. QED
      BY <1>1, <1>2, <2>1
  <1>6. ListIsRest' /\ (fp' # 0 => pos' = file[fp].last + 1)
    BY <1>1, NextFileFollows
  <1>7. GoesOn' /\ BeginsEarly'
    <2>1. fp' # 0 => pos' = pos + Len(Units(k))
      BY <1>5, <1>6
    <2>2. QED
      BY <1>1, <1>2, <1>5, <2>1, ReadGoesOn
  <1>8. EndsThere'
    <2>1. \A u \in DOMAIN sec : IsEnd(u) => Within(u)'
      BY <1>1, ReadWithin
    <2>2. /\ blast' \in BOOLEAN /\ endpos' \in Nat
          /\ ~blast' => endpos' = 0
          /\ ~blast' /\ fp' # 0 /\ Len(Select) > 1 => list' # <<>>
          /\ blast' => list' = <<>>
          /\ blast' /\ fp' # 0 => offsetpos' = pos'
          /\ \A u \in DOMAIN sec : IsEnd(u) =>
                /\ blast' => endpos' = u
                /\ blast' /\ fp' # 0 => pos' <= u
      BY <1>1, NextFileFollows
    <2>3. QED
      BY <1>1, <2>1, <2>2, SameRecording DEF EndsThere
  <1>9. QED
    BY <1>3, <1>6, <1>7, <1>8

\* getbuf when the room is filled: the last file is closed behind the end position.
LEMMA ReadFullStep ==
    ASSUME IInv, NEW k \in 1 .. MaxChunk, ReadFull(k)
    PROVE  IInv'
  <1> USE DEF IInv
  <1>1. /\ thread = "read" /\ thread' = "hold" /\ brun /\ fp # 0
        /\ piece' = Units(k) /\ Len(Units(k)) = k /\ pos' = pos + k
        /\ UNCHANGED recording /\ sent' = sent /\ brun' = brun
        /\ list' = list /\ endpos' = endpos /\ blast' = blast
        /\ sec' = sec /\ file' = file
        /\ IF blast /\ offsetpos + k > endpos
           THEN fp' = 0 /\ offsetpos' = 0
           ELSE offsetpos' = offsetpos + k /\ fp' = fp
    BY DEF ReadFull, recording
  <1>2. k \in Nat /\ k >= 1
    BY PlaybackAssumption
  <1>3. Recorded'
    BY <1>1, SameRecording
  <1>4. fp \in DOMAIN file /\ pos \in file[fp].first .. file[fp].last + 1 /\ pos \in Nat
    BY <1>1, RecordedTypes DEF ListIsRest
  <1>5. pos + k <= file[fp].last + 1
    <2>1. pos + Len(Units(k)) <= file[fp].last + 1
      BY <1>2, <1>4, UnitsProperties
    <2>2. QED
      BY <1>1, <2>1
  <1>6. pos' \in file[fp].first .. file[fp].last + 1
    <2>1. file[fp].first \in Nat /\ file[fp].last \in Nat
      BY <1>4, RecordedTypes
    <2>2. QED
      BY <1>1, <1>2, <1>4, <1>5, <2>1
  <1>7. fp' # 0 => fp' = fp /\ ~(blast /\ offsetpos + k > endpos) /\ offsetpos' = offsetpos + k
    BY <1>1
  <1>8. ListIsRest'
    BY <1>1, <1>6, <1>7, SameRecording DEF ListIsRest, Taken
  <1>9. GoesOn' /\ BeginsEarly'
    BY <1>1, <1>2, ReadGoesOn
  <1>10. EndsThere'
    <2>1. \A u \in DOMAIN sec : IsEnd(u) => Within(u)'
      BY <1>1, ReadWithin
    <2>2. blast' /\ fp' # 0 => offsetpos' = pos'
      BY <1>1, <1>7 DEF EndsThere
    <2>3. ASSUME NEW u \in DOMAIN sec, IsEnd(u), blast, fp' # 0
          PROVE  pos' <= u
      <3>1. offsetpos = pos /\ endpos = u
        BY <1>1, <2>3 DEF EndsThere
      <3>2. ~(pos + k > u) /\ u \in Nat
        BY <1>7, <2>3, <3>1, RecordedTypes
      <3>3. QED
        BY <1>1, <1>2, <1>4, <3>2
    <2>4. QED
      BY <1>1, <1>7, <2>1, <2>2, <2>3, SameRecording DEF EndsThere
  <1>11. QED
    BY <1>3, <1>8, <1>9, <1>10
-------------------------------------------------------------------------------
(* Theorems about Playback.                                                *)

\* The invariant holds in every state, and with it what is played is in order, begins in
\* time and stops in time.
THEOREM InvariantAlways == Spec => []IInv
  <1>1. IInv /\ [Next]_vars => IInv'
    <2> SUFFICES ASSUME IInv, [Next]_vars PROVE IInv'
      OBVIOUS
    <2>1. CASE Create
      BY <2>1, CreateStep
    <2>2. CASE \E k \in 1 .. MaxChunk : ReadShort(k) \/ ReadFull(k)
      BY <2>2, ReadShortStep, ReadFullStep
    <2>3. CASE Send
      BY <2>3, SendStep
    <2>4. CASE ReadNothing
      <3>1. brun \in BOOLEAN
        BY DEF IInv, GoesOn
      <3>2. /\ thread = "read" /\ UNCHANGED <<recording, reader, piece, sent>>
            /\ \/ thread' = "over" /\ brun' = FALSE
               \/ thread' = "report" /\ brun' = brun
        BY <2>4 DEF ReadNothing, MediaEnd, ReportInVain
      <3>3. /\ brun' \in BOOLEAN /\ (brun' => brun)
            /\ (thread' = "hold" <=> thread = "hold")
            /\ (thread' = "none" <=> thread = "none")
        <4>1. CASE thread' = "over" /\ brun' = FALSE
          BY <3>2, <4>1
        <4>2. CASE thread' = "report" /\ brun' = brun
          BY <3>1, <3>2, <4>2
        <4>3. QED
          BY <3>2, <4>1, <4>2
      <3>4. QED
        BY <3>2, <3>3, QuietStep
    <2>5. CASE Leave \/ Pause \/ Speed \/ Stop
      <3>1. brun \in BOOLEAN
        BY DEF IInv, GoesOn
      <3>2. /\ UNCHANGED <<recording, reader, piece, sent>>
            /\ brun' \in BOOLEAN /\ (brun' => brun)
            /\ thread' = thread \/ (thread = "read" /\ thread' = "stopped")
        <4>1. CASE Leave
          BY <3>1, <4>1 DEF Leave
        <4>2. CASE Pause \/ Speed
          <5>1. /\ UNCHANGED <<recording, reader, piece, sent>>
                /\ brun' = brun /\ thread' = thread
            BY <4>2 DEF Pause, Speed
          <5>2. QED
            BY <3>1, <5>1
        <4>3. CASE Stop
          <5>1. /\ UNCHANGED <<recording, reader, piece, sent>>
                /\ brun' = FALSE /\ thread' = thread
            BY <4>3 DEF Stop
          <5>2. QED
            BY <5>1
        <4>4. QED
          BY <2>5, <4>1, <4>2, <4>3
      <3>3. thread' = "hold" <=> thread = "hold"
        BY <3>2
      <3>4. thread' = "none" <=> thread = "none"
        BY <3>2
      <3>5. QED
        BY <3>2, <3>3, <3>4, QuietStep
    <2>6. CASE UNCHANGED vars
      <3>1. UNCHANGED <<recording, reader, piece, sent, thread, brun>> /\ brun \in BOOLEAN
        BY <2>6 DEF vars, IInv, GoesOn
      <3>2. QED
        BY <3>1, QuietStep
    <2>7. QED
      BY <2>1, <2>2, <2>3, <2>4, <2>5, <2>6 DEF Next, Step
  <1>2. QED
    BY <1>1, InitInv, PTL DEF Spec

\* Nothing is repeated or left out between two files, or around a pause
\* (data_reader::getbuf, data_send_thread).
THEOREM InOrderAlways == Spec => []InOrder
  <1>1. IInv => InOrder
    <2> SUFFICES ASSUME IInv PROVE InOrder
      OBVIOUS
    <2>1. /\ Stretch(sent)
          /\ sent # <<>> /\ piece # <<>> => piece[1] = sent[Len(sent)] + 1
      BY DEF IInv, GoesOn
    <2>2. Len(sent) \in Nat /\ \A i \in 1 .. Len(sent) : sent[i] \in Nat /\ sent[i] = sent[1] + i - 1
      <3>1. sent \in Seq(Nat) /\ \A i \in 1 .. Len(sent) : sent[i] = sent[1] + i - 1
        BY <2>1 DEF Stretch
      <3>2. Len(sent) \in Nat /\ \A i \in 1 .. Len(sent) : sent[i] \in Nat
        BY <3>1, LenProperties, ElementOfSeq
      <3>3. QED
        BY <3>1, <3>2
    <2>3. \A i \in 2 .. Len(sent) : sent[i] = sent[i - 1] + 1
      <3> TAKE i \in 2 .. Len(sent)
      <3>1. i \in 1 .. Len(sent) /\ i - 1 \in 1 .. Len(sent) /\ 1 \in 1 .. Len(sent)
        BY <2>2
      <3>2. sent[i] = sent[1] + i - 1 /\ sent[i - 1] = sent[1] + (i - 1) - 1 /\ sent[1] \in Nat
        BY <2>2, <3>1
      <3>3. QED
        BY <2>2, <3>2
    <2>4. QED
      BY <2>1, <2>3 DEF InOrder, Last, IInv, GoesOn
  <1>2. QED
    BY <1>1, InvariantAlways, PTL

\* Nothing of the seconds after the first one of the span is passed over at the
\* beginning (data_reader::init_reader).
THEOREM StartsInTimeAlways == Spec => []StartsInTime
  <1>1. IInv => StartsInTime
    BY DEF IInv, BeginsEarly, Early, StartsInTime
  <1>2. QED
    BY <1>1, InvariantAlways, PTL

\* In a span of several files, what is sent ends with the piece in which the second begins
\* that the span ends with (data_reader::getbuf with m_blast).
THEOREM StopsInTimeAlways == Spec => []StopsInTime
  <1>1. IInv => StopsInTime
    <2> SUFFICES ASSUME IInv, Len(Select) > 1, Cardinality(Index(Last(Select))) > 1,
                        NEW u \in Index(Last(Select)), sec[u] = req.et
                 PROVE  \A i \in DOMAIN sent : sent[i] < u + MaxChunk
      BY DEF StopsInTime
    <2>1. IsEnd(u)
      BY DEF IsEnd, Last
    <2>2. u \in DOMAIN sec
      <3>1. Last(Select) \in DOMAIN file
        BY SelectProperties DEF Last, IInv
      <3>2. /\ file[Last(Select)].first \in 1 .. Len(sec) /\ file[Last(Select)].last \in 1 .. Len(sec)
            /\ DOMAIN sec = 1 .. Len(sec) /\ Len(sec) \in Nat
        BY <3>1, RecordedTypes DEF IInv
      <3>3. u \in file[Last(Select)].first .. file[Last(Select)].last
        BY DEF Index
      <3>4. QED
        BY <3>2, <3>3
    <2>3. Within(u) /\ sent \in Seq(Nat)
      BY <2>1, <2>2 DEF IInv, EndsThere, GoesOn, Stretch
    <2>4. DOMAIN sent = 1 .. Len(sent)
      BY <2>3, LenProperties
    <2>5. QED
      BY <2>3, <2>4 DEF Within
  <1>2. QED
    BY <1>1, InvariantAlways, PTL
===============================================================================
