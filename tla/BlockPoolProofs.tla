---------------------------- MODULE BlockPoolProofs --------------------------
(* Proofs about BlockPool, for every set of blocks and of devices.         *)
EXTENDS BlockPool, FiniteSetTheorems, TLAPS

\* The steps of a camera's writer and of the threads that start and stop it.
DeviceStep(d) ==
    \/ Attach(d) \/ StartWriter(d) \/ Detach(d)
    \/ (\E why \in {"plan", "detach", "remove"} : StopWriter(d, why))
    \/ Cancelled(d) \/ CancelledInCatalogue(d) \/ Joined(d)
    \/ EndWriter(d) \/ Writer(d)

\* The sets that the model counts are finite.
LEMMA Sizes ==
    ASSUME TypeOK
    PROVE  /\ Cardinality(Blocks) \in Nat
           /\ Cardinality(running) \in Nat
           /\ Cardinality(list) \in Nat
  BY PoolAssumption, FS_Subset, FS_CardinalityType DEF TypeOK

\* What the catalogue operations leave the rows as.
LEMMA StartRowType ==
    ASSUME TypeOK, NEW b \in Blocks \cup {NoBlock}, StartRow(b)
    PROVE  /\ ~db_held
           /\ status' \in [Blocks -> Statuses]
           /\ ord' \in [Blocks -> Int]
           /\ \A c \in Blocks : status'[c] = IF c = b THEN "ING" ELSE status[c]
  BY Sizes, PoolAssumption DEF StartRow, TypeOK, catalogue, Statuses

\* stop_video_file_sql finishes the row of the open file and no other.
LEMMA CloseFileType ==
    ASSUME TypeOK, NEW d \in Devices, CloseFile(d)
    PROVE  /\ status' \in [Blocks -> Statuses]
           /\ ord' = ord
           /\ datafp' = [datafp EXCEPT ![d] = NoBlock]
           /\ current' = [current EXCEPT ![d] = NoBlock]
           /\ datafp[d] # NoBlock => ~db_held
           /\ \A c \in Blocks :
                 status'[c] = IF datafp[d] # NoBlock /\ current[d] = c
                              THEN "VIDEO" ELSE status[c]
  BY PoolAssumption DEF CloseFile, StopRow, TypeOK, catalogue, Statuses

\* What a thread cancelled in a catalogue operation leaves.
LEMMA CancelledType ==
    ASSUME TypeOK, NEW d \in Devices, CancelledInCatalogue(d)
    PROVE  /\ ~db_held
           /\ status' \in [Blocks -> Statuses]
           /\ ord' \in [Blocks -> Int]
           /\ \A c \in Blocks : status'[c] # status[c] =>
                 \/ wpc[d] = "run" /\ c = current[d] /\ status'[c] = "VIDEO"
                 \/ wpc[d] \in {"open", "reopen"} /\ c = prefile_id[d] /\ status'[c] = "ING"
           /\ \/ wpc[d] = "run" /\ datafp' = datafp /\ current' = current
              \/ /\ wpc[d] \in {"open", "reopen"} /\ prefile[d] \in Blocks
                 /\ datafp' = [datafp EXCEPT ![d] = prefile[d]]
                 /\ current' = [current EXCEPT ![d] = prefile_id[d]]
  <1>1. prefile_id[d] \in Blocks \cup {NoBlock} /\ prefile[d] \in Blocks \cup {NoBlock}
    BY DEF TypeOK
  <1>2. CASE UNCHANGED catalogue /\ ~db_held
    BY <1>1, <1>2 DEF CancelledInCatalogue, TypeOK, catalogue, files
  <1>3. CASE wpc[d] = "run" /\ StopRow(current[d])
    BY <1>3 DEF CancelledInCatalogue, StopRow, TypeOK, Statuses, files
  <1>4. CASE wpc[d] \in {"open", "reopen"} /\ StartRow(prefile_id[d])
    BY <1>1, <1>4, StartRowType DEF CancelledInCatalogue, TypeOK
  <1>5. QED
    BY <1>2, <1>3, <1>4 DEF CancelledInCatalogue

\* Recycling frees finished recordings only.
LEMMA RecycleType ==
    ASSUME TypeOK, NEW n, RecycleFileBlock(n)
    PROVE  /\ status' \in [Blocks -> Statuses]
           /\ ord' = ord
           /\ \A c \in Blocks : \/ status'[c] = status[c]
                                \/ status[c] = "VIDEO" /\ status'[c] = "NEW"
  BY DEF RecycleFileBlock, Oldest, TypeOK, Statuses

\* get_free_block prepares free blocks and appends no others to the list.
LEMMA GetType ==
    ASSUME TypeOK, NEW n, GetFreeBlock(Oldest("NEW", n))
    PROVE  /\ ~db_held
           /\ status' \in [Blocks -> Statuses]
           /\ ord' = ord
           /\ broken' \in BOOLEAN
           /\ list' \subseteq Blocks
           /\ list \subseteq list'
           /\ \A c \in list' \ list : status[c] = "NEW" /\ status'[c] = "PRE"
           /\ \A c \in Blocks : \/ status'[c] = status[c]
                                \/ status[c] = "NEW" /\ status'[c] = "PRE"
  BY DEF GetFreeBlock, Oldest, TypeOK, Statuses
-------------------------------------------------------------------------------
(* Type correctness.                                                       *)

\* The cleared names are typed.
LEMMA NoneType == None \in [Devices -> Blocks \cup {NoBlock}]
  BY DEF None

\* The first start of the process is typed.
LEMMA InitTypeOK == Init => TypeOK
  <1> SUFFICES ASSUME Init PROVE TypeOK
    OBVIOUS
  <1>1. ord \in [Blocks -> Int]
    BY DEF Init
  <1>2. status \in [Blocks -> Statuses] /\ wpc \in [Devices -> WriterPoints]
    BY DEF Init, Statuses, WriterPoints
  <1>3. /\ broken \in BOOLEAN /\ up \in BOOLEAN /\ db_held \in BOOLEAN
        /\ stopping \in [Devices -> Reasons]
    BY DEF Init, Reasons
  <1>4. /\ prefile \in [Devices -> Blocks \cup {NoBlock}]
        /\ prefile_id \in [Devices -> Blocks \cup {NoBlock}]
        /\ datafp \in [Devices -> Blocks \cup {NoBlock}]
        /\ current \in [Devices -> Blocks \cup {NoBlock}]
        /\ handing \in [Devices -> Blocks \cup {NoBlock}]
    BY NoneType DEF Init
  <1>5. list \subseteq Blocks /\ running \subseteq Devices /\ todo \subseteq Devices
        /\ lock \in Devices \cup {Free, Prep, Stop}
        /\ need \in Int /\ short \in Int /\ ppc \in PrepPoints
    BY DEF Init, PrepPoints
  <1>6. QED
    BY <1>1, <1>2, <1>3, <1>4, <1>5 DEF TypeOK

\* A process that ends leaves typed, empty memory.
LEMMA ClearedType ==
    ASSUME MemoryCleared, status' \in [Blocks -> Statuses], ord' \in [Blocks -> Int],
           up' \in BOOLEAN
    PROVE  TypeOK'
  <1>1. wpc' \in [Devices -> WriterPoints]
    BY DEF MemoryCleared, WriterPoints
  <1>2. broken' \in BOOLEAN /\ db_held' \in BOOLEAN /\ stopping' \in [Devices -> Reasons]
    BY DEF MemoryCleared, Reasons
  <1>3. /\ prefile' \in [Devices -> Blocks \cup {NoBlock}]
        /\ prefile_id' \in [Devices -> Blocks \cup {NoBlock}]
        /\ datafp' \in [Devices -> Blocks \cup {NoBlock}]
        /\ current' \in [Devices -> Blocks \cup {NoBlock}]
        /\ handing' \in [Devices -> Blocks \cup {NoBlock}]
    BY NoneType DEF MemoryCleared
  <1>4. list' \subseteq Blocks /\ running' \subseteq Devices /\ todo' \subseteq Devices
        /\ lock' \in Devices \cup {Free, Prep, Stop}
        /\ need' \in Int /\ short' \in Int /\ ppc' \in PrepPoints
    BY DEF MemoryCleared, PrepPoints
  <1>5. QED
    BY <1>1, <1>2, <1>3, <1>4 DEF TypeOK

\* Every step of a writer, or of the threads that start and stop it, keeps
\* the types.
LEMMA WriterType ==
    ASSUME TypeOK, NEW d \in Devices,
           DeviceStep(d)
    PROVE  TypeOK'
  <1> USE PoolAssumption DEF catalogue, pool, prefiles, files, prep, proc
  <1>1. CASE Attach(d)
    BY <1>1 DEF Attach, TypeOK, WriterPoints
  <1>2. CASE StartWriter(d) \/ AskForBlock(d)
    BY <1>2 DEF StartWriter, AskForBlock, TypeOK, WriterPoints
  <1>3. CASE EndWriter(d)
    BY <1>3, CloseFileType DEF EndWriter, TypeOK, WriterPoints
  <1>4. CASE Detach(d) \/ Cancelled(d)
    BY <1>4 DEF Detach, Cancelled, TypeOK, WriterPoints
  <1>5. CASE Joined(d)
    BY <1>5, CloseFileType DEF Joined, TypeOK, Reasons
  <1>17. ASSUME NEW why \in {"plan", "detach", "remove"}, StopWriter(d, why)
         PROVE  TypeOK'
    BY <1>17 DEF StopWriter, TypeOK, Reasons
  <1>18. CASE CancelledInCatalogue(d)
    <2>1. /\ datafp' \in [Devices -> Blocks \cup {NoBlock}]
          /\ current' \in [Devices -> Blocks \cup {NoBlock}]
          /\ status' \in [Blocks -> Statuses] /\ ord' \in [Blocks -> Int]
      BY <1>18, CancelledType DEF TypeOK
    <2>2. wpc' \in [Devices -> WriterPoints]
      BY <1>18 DEF CancelledInCatalogue, TypeOK, WriterPoints
    <2>3. db_held' \in BOOLEAN
      BY <1>18 DEF CancelledInCatalogue
    <2>4. UNCHANGED <<pool, running, lock, prefiles, prep, stopping, up>>
      BY <1>18 DEF CancelledInCatalogue
    <2>5. QED
      BY <2>1, <2>2, <2>3, <2>4 DEF TypeOK
  <1>6. CASE NextFile(d)
    BY <1>6, CloseFileType DEF NextFile, TypeOK, WriterPoints
  <1>7. CASE PrepairFileBlock(d)
    BY <1>7, RecycleType DEF PrepairFileBlock, TypeOK, WriterPoints
  <1>8. CASE FetchBlocks(d)
    BY <1>8, GetType DEF FetchBlocks, TypeOK, WriterPoints
  <1>9. CASE PopPrefile(d)
    BY <1>9 DEF PopPrefile, TypeOK, WriterPoints
  <1>10. CASE PopEmptyList(d)
    BY <1>10, ClearedType DEF PopEmptyList, TypeOK
  <1>11. CASE OpenFile(d)
    <2>1. prefile_id[d] \in Blocks \cup {NoBlock} /\ prefile[d] \in Blocks \cup {NoBlock}
      BY DEF TypeOK
    <2>2. StartRow(prefile_id[d])
      BY <1>11 DEF OpenFile
    <2>3. QED
      BY <1>11, <2>1, <2>2, StartRowType DEF OpenFile, TypeOK, WriterPoints
  <1>12. CASE OpenFails(d)
    BY <1>12 DEF OpenFails, TypeOK, WriterPoints
  <1>13. CASE ClearPrefile(d)
    BY <1>13 DEF ClearPrefile, TypeOK, WriterPoints
  <1>14. CASE ClearPrefileId(d)
    BY <1>14 DEF ClearPrefileId, TypeOK, WriterPoints
  <1>15. CASE OpenIndex(d)
    BY <1>15, CloseFileType DEF OpenIndex, TypeOK, WriterPoints
  <1>16. QED
    BY <1>1, <1>2, <1>3, <1>4, <1>5, <1>6, <1>7, <1>8, <1>9, <1>10, <1>11, <1>12,
       <1>13, <1>14, <1>15, <1>17, <1>18 DEF DeviceStep, Writer

\* Every step of the preallocation thread keeps the types.
LEMMA PrepairType ==
    ASSUME TypeOK, Prepair
    PROVE  TypeOK'
  <1> USE PoolAssumption DEF catalogue, pool, prefiles, files, prep, proc, PrepAt, PrepRest
  <1>0. Cardinality(running) \in Nat /\ Size \in Nat
    BY Sizes DEF Size
  <1>1. CASE PrepBegin
    BY <1>0, <1>1 DEF PrepBegin, TypeOK, PrepPoints
  <1>2. CASE PrepGet
    <2> DEFINE S == Oldest("NEW", need - Size)
    <2>1. GetFreeBlock(S)
      BY <1>2 DEF PrepGet
    <2>2. S \subseteq Blocks
      BY DEF Oldest
    <2>3. Cardinality(S) \in Nat
      BY <2>2, FS_Subset, FS_CardinalityType
    <2>4. short' \in Int /\ ppc' \in PrepPoints /\ UNCHANGED <<need, todo>> /\ PrepRest
      BY <1>0, <1>2, <2>3 DEF PrepGet, TypeOK, PrepPoints
    <2>5. QED
      BY <2>1, <2>4, GetType DEF TypeOK
  <1>3. CASE PrepRecycle("recycle", "get2")
    BY <1>3, RecycleType DEF PrepRecycle, TypeOK, PrepPoints
  <1>4. CASE PrepGetAgain("get2", "check")
    BY <1>4, GetType DEF PrepGetAgain, TypeOK, PrepPoints
  <1>5. CASE PrepCheck
    BY <1>0, <1>5 DEF PrepCheck, TypeOK, PrepPoints
  <1>6. CASE PrepRecycle("recycle2", "get3")
    BY <1>6, RecycleType DEF PrepRecycle, TypeOK, PrepPoints
  <1>7. CASE PrepGetAgain("get3", "check3")
    BY <1>7, GetType DEF PrepGetAgain, TypeOK, PrepPoints
  <1>8. CASE PrepEnough
    BY <1>8 DEF PrepEnough, TypeOK, PrepPoints
  <1>9. CASE Exit
    BY <1>9, ClearedType DEF Exit, TypeOK
  <1>16. CASE GiveUp
    BY <1>16 DEF GiveUp, TypeOK, PrepPoints
  <1>17. ASSUME NEW d \in Devices, GiveUpStop(d) PROVE TypeOK'
    BY <1>17 DEF GiveUpStop, TypeOK, PrepPoints, Reasons
  <1>10. CASE PrepLock
    BY <1>10 DEF PrepLock, TypeOK, PrepPoints
  <1>11. ASSUME NEW d \in Devices, PrepGiveName(d) PROVE TypeOK'
    BY <1>11 DEF PrepGiveName, TypeOK, PrepPoints
  <1>12. ASSUME NEW d \in Devices, PrepGiveId(d) PROVE TypeOK'
    BY <1>12 DEF PrepGiveId, TypeOK, PrepPoints
  <1>13. ASSUME NEW d \in Devices, PrepSkip(d) PROVE TypeOK'
    BY <1>13 DEF PrepSkip, TypeOK, PrepPoints
  <1>14. CASE PrepUnlock
    BY <1>14 DEF PrepUnlock, TypeOK, PrepPoints
  <1>15. QED
    BY <1>1, <1>2, <1>3, <1>4, <1>5, <1>6, <1>7, <1>8, <1>9, <1>10, <1>11, <1>12,
       <1>13, <1>14, <1>16, <1>17 DEF Prepair

\* Every step keeps the types.
LEMMA StepType == TypeOK /\ [Next]_vars => TypeOK'
  <1> SUFFICES ASSUME TypeOK, [Next]_vars PROVE TypeOK'
    OBVIOUS
  <1>1. CASE Crash
    BY <1>1, ClearedType DEF Crash, TypeOK, catalogue
  <1>2. CASE Restart
    BY <1>2 DEF Restart, TypeOK, Statuses, Reasons, pool, prefiles, files, prep
  <1>3. CASE Prepair
    BY <1>3, PrepairType
  <1>4. ASSUME NEW d \in Devices,
               DeviceStep(d)
        PROVE  TypeOK'
    BY <1>4, WriterType
  <1>5. CASE UNCHANGED vars
    BY <1>5 DEF vars, TypeOK, catalogue, pool, prefiles, files, prep, proc
  <1>6. QED
    BY <1>1, <1>2, <1>3, <1>4, <1>5 DEF Next, DeviceStep

\* The variables keep their types, for any number of blocks and cameras.
THEOREM TypeCorrect == Spec => []TypeOK
  BY InitTypeOK, StepType, PTL DEF Spec
-------------------------------------------------------------------------------
(* One holder per block: the inductive invariant.                          *)

\* The part of the invariant that concerns names and rows.
Safe == OneHolder /\ HeldIsReserved /\ NamesCoherent /\ DownIsEmpty

\* At the first start no memory names a block.
LEMMA InitSafe == Init => Safe
  BY PoolAssumption
  DEF Init, Safe, OneHolder, HeldIsReserved, NamesCoherent, DownIsEmpty, Names, None

\* Memory that names no block is safe, whatever the catalogue says.
LEMMA ClearedSafe ==
    ASSUME MemoryCleared
    PROVE  Safe'
  BY PoolAssumption
  DEF MemoryCleared, Safe, OneHolder, HeldIsReserved, NamesCoherent, DownIsEmpty, Names, None

\* Closing a file catalogues as finished a block that nothing else names, so
\* that all the other names remain reserved; the names of the next file may be
\* forgotten together.
LEMMA CloseFileSafe ==
    ASSUME TypeOK, Safe, NEW d \in Devices, CloseFile(d),
           wpc[d] \notin {"clear", "clear_id"}, up,
           UNCHANGED <<list, handing, db_held, up>>,
           \/ UNCHANGED <<prefile, prefile_id>>
           \/ /\ prefile' = [prefile EXCEPT ![d] = NoBlock]
              /\ prefile_id' = [prefile_id EXCEPT ![d] = NoBlock],
           \A e \in Devices \ {d} : wpc'[e] = wpc[e]
    PROVE  Safe'
  <1> USE PoolAssumption
  <1>1. /\ datafp' = [datafp EXCEPT ![d] = NoBlock]
        /\ current' = [current EXCEPT ![d] = NoBlock]
        /\ datafp[d] # NoBlock => ~db_held
        /\ \A c \in Blocks :
              status'[c] = IF datafp[d] # NoBlock /\ current[d] = c
                           THEN "VIDEO" ELSE status[c]
    BY CloseFileType
  <1>2. \A e \in Devices, b \in Blocks : Names(e, b)' => Names(e, b)
    BY <1>1 DEF Names, TypeOK
  <1>3. OneHolder'
    BY <1>2 DEF Safe, OneHolder
  <1>4. HeldIsReserved'
    <2>1. \A c \in Blocks : status'[c] # status[c] =>
             /\ ~db_held /\ current[d] = c
             /\ prefile[d] # c /\ prefile_id[d] # c /\ handing[d] # c
      BY <1>1 DEF Safe, NamesCoherent, TypeOK
    <2>2. \A b \in list' : status'[b] = "PRE"
      BY <2>1 DEF Safe, HeldIsReserved, OneHolder, Names, TypeOK
    <2>3. ASSUME NEW e \in Devices, NEW b \in Blocks, Names(e, b)', ~db_held
          PROVE  status'[b] \in {"PRE", "ING"}
      <3>1. Names(e, b)
        BY <1>2, <2>3
      <3>2. status'[b] = status[b]
        <4>1. CASE e = d
          BY <1>1, <2>1, <2>3, <4>1 DEF Safe, NamesCoherent, Names, TypeOK
        <4>2. CASE e # d
          BY <2>1, <3>1, <4>2 DEF Safe, OneHolder, Names
        <4>3. QED
          BY <4>1, <4>2
      <3>3. QED
        BY <2>3, <3>1, <3>2 DEF Safe, HeldIsReserved
    <2>4. QED
      BY <2>2, <2>3 DEF HeldIsReserved
  <1>5. NamesCoherent'
    BY <1>1 DEF Safe, NamesCoherent, TypeOK
  <1>6. DownIsEmpty'
    BY DEF DownIsEmpty
  <1>7. QED
    BY <1>3, <1>4, <1>5, <1>6 DEF Safe

\* A change of the catalogue that leaves every named block alone, with memory
\* as it was but for blocks that were free and join the list as prepared.
LEMMA CatalogueSafe ==
    ASSUME TypeOK, Safe, up, up' = up,
           UNCHANGED db_held, list' # list => ~db_held,
           list' \subseteq Blocks, list \subseteq list',
           \A c \in Blocks : status'[c] # status[c] => status[c] \in {"NEW", "VIDEO"},
           \A c \in list' \ list : status[c] = "NEW" /\ status'[c] = "PRE",
           UNCHANGED <<prefile, prefile_id, datafp, current, handing>>,
           \A e \in Devices : wpc'[e] \in {"clear", "clear_id"} <=> wpc[e] \in {"clear", "clear_id"},
           \A e \in Devices : wpc'[e] = "clear" <=> wpc[e] = "clear"
    PROVE  Safe'
  <1>1. \A e \in Devices, b \in Blocks : Names(e, b)' <=> Names(e, b)
    BY DEF Names
  <1>2. OneHolder'
    BY <1>1 DEF Safe, OneHolder, HeldIsReserved
  <1>3. HeldIsReserved'
    BY <1>1 DEF Safe, HeldIsReserved, TypeOK
  <1>4. NamesCoherent'
    BY DEF Safe, NamesCoherent
  <1>5. DownIsEmpty'
    BY DEF DownIsEmpty
  <1>6. QED
    BY <1>2, <1>3, <1>4, <1>5 DEF Safe

\* The steps of a writer that give, open and clear the names of files.
LEMMA NamesSafe ==
    ASSUME TypeOK, Safe, NEW d \in Devices,
           \/ PopPrefile(d) \/ OpenFile(d) \/ ClearPrefile(d) \/ ClearPrefileId(d)
    PROVE  Safe'
  <1> USE PoolAssumption DEF catalogue, pool, prefiles, files, prep, proc
  <1>1. CASE PopPrefile(d)
    <2>1. CASE UNCHANGED <<prefile, prefile_id, list>>
      BY <1>1, <2>1, CatalogueSafe DEF PopPrefile, TypeOK
    <2>2. ASSUME NEW b \in list,
                 prefile[d] = NoBlock,
                 prefile' = [prefile EXCEPT ![d] = b],
                 prefile_id' = [prefile_id EXCEPT ![d] = b],
                 list' = list \ {b}
          PROVE  Safe'
      <3>1. /\ UNCHANGED <<status, datafp, current, handing, db_held, up>>
            /\ up /\ wpc' = [wpc EXCEPT ![d] = "reopen"]
        BY <1>1 DEF PopPrefile
      <3>2. \A e \in Devices : ~Names(e, b)
        BY DEF Safe, OneHolder, TypeOK
      <3>3. OneHolder'
        BY <2>2, <3>1, <3>2 DEF Safe, OneHolder, Names, TypeOK
      <3>4. HeldIsReserved'
        BY <2>2, <3>1 DEF Safe, HeldIsReserved, Names, TypeOK
      <3>5. NamesCoherent'
        BY <2>2, <3>1, <3>2 DEF Safe, NamesCoherent, Names, TypeOK, WriterPoints
      <3>6. QED
        BY <3>1, <3>3, <3>4, <3>5 DEF Safe, DownIsEmpty
    <2>3. QED
      BY <1>1, <2>1, <2>2 DEF PopPrefile
  <1>2. CASE OpenFile(d)
    <2>1. /\ UNCHANGED <<list, prefile, prefile_id, handing, db_held, up>>
          /\ up /\ wpc' = [wpc EXCEPT ![d] = "clear"]
          /\ prefile[d] \in Blocks
          /\ datafp' = [datafp EXCEPT ![d] = prefile[d]]
          /\ current' = [current EXCEPT ![d] = prefile_id[d]]
      BY <1>2 DEF OpenFile, TypeOK
    <2>2. \A c \in Blocks : status'[c] = IF c = prefile_id[d] THEN "ING" ELSE status[c]
      BY <1>2, StartRowType DEF OpenFile, TypeOK
    <2>3. OneHolder'
      BY <2>1 DEF Safe, OneHolder, Names, TypeOK
    <2>4. HeldIsReserved'
      BY <2>1, <2>2 DEF Safe, HeldIsReserved, OneHolder, Names, TypeOK
    <2>5. NamesCoherent'
      BY <2>1 DEF Safe, NamesCoherent, TypeOK
    <2>6. QED
      BY <2>1, <2>3, <2>4, <2>5 DEF Safe, DownIsEmpty
  <1>3. CASE ClearPrefile(d)
    <2>1. /\ UNCHANGED <<status, list, prefile_id, datafp, current, handing, db_held, up>>
          /\ up /\ wpc' = [wpc EXCEPT ![d] = "clear_id"]
          /\ prefile' = [prefile EXCEPT ![d] = NoBlock]
      BY <1>3 DEF ClearPrefile
    <2>2. QED
      BY <2>1 DEF Safe, OneHolder, HeldIsReserved, NamesCoherent, DownIsEmpty, Names, TypeOK
  <1>4. CASE ClearPrefileId(d)
    <2>1. /\ UNCHANGED <<status, list, prefile, datafp, current, handing, db_held, up>>
          /\ up /\ wpc[d] = "clear_id" /\ wpc' = [wpc EXCEPT ![d] = "index"]
          /\ prefile_id' = [prefile_id EXCEPT ![d] = NoBlock]
      BY <1>4 DEF ClearPrefileId
    <2>2. QED
      BY <2>1 DEF Safe, OneHolder, HeldIsReserved, NamesCoherent, DownIsEmpty, Names, TypeOK
  <1>5. QED
    BY <1>1, <1>2, <1>3, <1>4

\* A thread cancelled in a catalogue operation leaves the catalogue locked: no
\* block can pass to another camera any more.
LEMMA CancelledSafe ==
    ASSUME TypeOK, Safe, NEW d \in Devices, CancelledInCatalogue(d)
    PROVE  Safe'
  <1>1. /\ ~db_held /\ db_held' = TRUE /\ up /\ up' = up
        /\ UNCHANGED <<list, prefile, prefile_id, handing>>
    BY CancelledType DEF CancelledInCatalogue, pool, prefiles, prep
  <1>2. \A c \in Blocks : status'[c] # status[c] =>
           \/ c = current[d]
           \/ c = prefile_id[d]
    BY CancelledType
  <1>3. \/ datafp' = datafp /\ current' = current
        \/ /\ prefile[d] \in Blocks
           /\ datafp' = [datafp EXCEPT ![d] = prefile[d]]
           /\ current' = [current EXCEPT ![d] = prefile_id[d]]
    BY CancelledType
  <1>4. \A e \in Devices, b \in Blocks : Names(e, b)' => Names(e, b)
    BY <1>1, <1>3 DEF Names, TypeOK
  <1>5. OneHolder'
    BY <1>1, <1>4 DEF Safe, OneHolder
  <1>6. HeldIsReserved'
    BY <1>1, <1>2 DEF Safe, HeldIsReserved, OneHolder, Names, TypeOK
  <1>7. NamesCoherent'
    <2>1. \A e \in Devices : handing[e] # NoBlock => handing[e] # prefile_id[e]
      BY DEF Safe, NamesCoherent
    <2>2. \A e \in Devices : current'[e] = current[e] \/ current'[e] = prefile_id[e]
      BY <1>3 DEF TypeOK
    <2>3. \A e \in Devices : datafp'[e] = NoBlock => current'[e] = NoBlock
      BY <1>3, PoolAssumption DEF Safe, NamesCoherent, TypeOK
    <2>4. QED
      BY <1>1, <2>1, <2>2, <2>3 DEF Safe, NamesCoherent
  <1>8. DownIsEmpty'
    BY <1>1 DEF DownIsEmpty
  <1>9. QED
    BY <1>5, <1>6, <1>7, <1>8 DEF Safe

\* The steps of a writer and of the threads that drive it are safe.
LEMMA WriterSafe ==
    ASSUME TypeOK, Safe, NEW d \in Devices,
           DeviceStep(d)
    PROVE  Safe'
  <1> USE PoolAssumption DEF catalogue, pool, prefiles, files, prep, proc
  <1>1. CASE Attach(d)
    BY <1>1, CatalogueSafe DEF Attach, TypeOK
  <1>2. CASE StartWriter(d) \/ AskForBlock(d)
    BY <1>2, CatalogueSafe DEF StartWriter, AskForBlock, TypeOK
  <1>3. CASE EndWriter(d)
    BY <1>3, CloseFileSafe DEF EndWriter, TypeOK
  <1>4. CASE Detach(d) \/ Cancelled(d)
    BY <1>4, CatalogueSafe DEF Detach, Cancelled, TypeOK
  <1>5. CASE Joined(d)
    BY <1>5, CloseFileSafe DEF Joined, TypeOK
  <1>14. ASSUME NEW why, StopWriter(d, why) PROVE Safe'
    BY <1>14, CatalogueSafe DEF StopWriter, TypeOK
  <1>15. CASE CancelledInCatalogue(d)
    BY <1>15, CancelledSafe
  <1>6. CASE NextFile(d)
    BY <1>6, CloseFileSafe DEF NextFile, TypeOK
  <1>7. CASE PrepairFileBlock(d)
    <2>1. \A c \in Blocks : status'[c] # status[c] => status[c] \in {"NEW", "VIDEO"}
      BY <1>7, RecycleType DEF PrepairFileBlock
    <2>2. QED
      BY <1>7, <2>1, CatalogueSafe DEF PrepairFileBlock, TypeOK
  <1>8. CASE FetchBlocks(d)
    BY <1>8, GetType, CatalogueSafe DEF FetchBlocks, TypeOK
  <1>9. CASE PopEmptyList(d)
    BY <1>9, ClearedSafe DEF PopEmptyList
  <1>10. CASE PopPrefile(d) \/ OpenFile(d) \/ ClearPrefile(d) \/ ClearPrefileId(d)
    BY <1>10, NamesSafe
  <1>11. CASE OpenFails(d)
    BY <1>11, CatalogueSafe DEF OpenFails, TypeOK
  <1>12. CASE OpenIndex(d)
    <2>1. CASE CloseFile(d) /\ wpc' = [wpc EXCEPT ![d] = "idle"]
      BY <1>12, <2>1, CloseFileSafe DEF OpenIndex, TypeOK
    <2>2. CASE wpc' = [wpc EXCEPT ![d] = "run"] /\ UNCHANGED <<catalogue, files>>
      BY <1>12, <2>2, CatalogueSafe DEF OpenIndex, TypeOK
    <2>3. QED
      BY <1>12, <2>1, <2>2 DEF OpenIndex
  <1>13. QED
    BY <1>1, <1>2, <1>3, <1>4, <1>5, <1>6, <1>7, <1>8, <1>9, <1>10, <1>11, <1>12,
       <1>14, <1>15 DEF DeviceStep, Writer

\* The steps of the preallocation thread are safe.
LEMMA PrepairSafe ==
    ASSUME TypeOK, Safe, Prepair
    PROVE  Safe'
  <1> USE PoolAssumption DEF catalogue, pool, prefiles, files, prep, proc, PrepAt, PrepRest
  <1>1. CASE PrepBegin \/ PrepCheck \/ PrepEnough \/ PrepUnlock \/ PrepLock
    BY <1>1, CatalogueSafe DEF PrepBegin, PrepCheck, PrepEnough, PrepUnlock, PrepLock, TypeOK
  <1>2. CASE PrepGet
    BY <1>2, GetType, CatalogueSafe DEF PrepGet, TypeOK
  <1>3. ASSUME NEW from, NEW to, PrepRecycle(from, to) PROVE Safe'
    <2>1. \A c \in Blocks : status'[c] # status[c] => status[c] \in {"NEW", "VIDEO"}
      BY <1>3, RecycleType DEF PrepRecycle
    <2>2. QED
      BY <1>3, <2>1, CatalogueSafe DEF PrepRecycle, TypeOK
  <1>4. ASSUME NEW from, NEW to, PrepGetAgain(from, to) PROVE Safe'
    BY <1>4, GetType, CatalogueSafe DEF PrepGetAgain, TypeOK
  <1>5. CASE Exit
    BY <1>5, ClearedSafe DEF Exit
  <1>10. CASE GiveUp
    BY <1>10, CatalogueSafe DEF GiveUp, TypeOK
  <1>11. ASSUME NEW d \in Devices, GiveUpStop(d) PROVE Safe'
    BY <1>11, CatalogueSafe DEF GiveUpStop, TypeOK
  <1>6. ASSUME NEW d \in Devices, PrepSkip(d) PROVE Safe'
    BY <1>6, CatalogueSafe DEF PrepSkip, TypeOK
  <1>7. ASSUME NEW d \in Devices, PrepGiveName(d) PROVE Safe'
    <2>1. PICK b \in list :
             /\ prefile' = [prefile EXCEPT ![d] = b]
             /\ handing' = [handing EXCEPT ![d] = b]
             /\ list' = list \ {b}
      BY <1>7 DEF PrepGiveName
    <2>2. up /\ UNCHANGED <<status, prefile_id, datafp, current, wpc, db_held, up>>
      BY <1>7 DEF PrepGiveName
    <2>3. b \in Blocks /\ \A e \in Devices : ~Names(e, b)
      BY DEF Safe, OneHolder, TypeOK
    <2>4. OneHolder'
      BY <2>1, <2>2, <2>3 DEF Safe, OneHolder, Names, TypeOK
    <2>5. HeldIsReserved'
      BY <2>1, <2>2 DEF Safe, HeldIsReserved, Names, TypeOK
    <2>6. NamesCoherent'
      BY <2>1, <2>2, <2>3 DEF Safe, NamesCoherent, Names, TypeOK
    <2>7. QED
      BY <2>2, <2>4, <2>5, <2>6 DEF Safe, DownIsEmpty
  <1>8. ASSUME NEW d \in Devices, PrepGiveId(d) PROVE Safe'
    <2>1. /\ up /\ UNCHANGED <<status, list, prefile, datafp, current, wpc, db_held, up>>
          /\ handing[d] # NoBlock
          /\ prefile_id' = [prefile_id EXCEPT ![d] = handing[d]]
          /\ handing' = [handing EXCEPT ![d] = NoBlock]
      BY <1>8 DEF PrepGiveId
    <2>2. QED
      BY <2>1 DEF Safe, OneHolder, HeldIsReserved, NamesCoherent, DownIsEmpty, Names, TypeOK
  <1>9. QED
    BY <1>1, <1>2, <1>3, <1>4, <1>5, <1>6, <1>7, <1>8, <1>10, <1>11 DEF Prepair

\* Every step keeps one holder per block.
LEMMA StepSafe == TypeOK /\ Safe /\ [Next]_vars => Safe'
  <1> SUFFICES ASSUME TypeOK, Safe, [Next]_vars PROVE Safe'
    OBVIOUS
  <1>1. CASE Crash
    BY <1>1, ClearedSafe DEF Crash
  <1>2. CASE Restart
    <2>1. \A e \in Devices, b \in Blocks : ~Names(e, b)' /\ list' = {}
      BY <1>2 DEF Restart, Safe, DownIsEmpty, Names, pool, prefiles, files, prep
    <2>2. QED
      BY <1>2, <2>1, PoolAssumption
      DEF Restart, Safe, OneHolder, HeldIsReserved, NamesCoherent, DownIsEmpty, Names,
          TypeOK, pool, prefiles, files, prep
  <1>3. CASE Prepair
    BY <1>3, PrepairSafe
  <1>4. ASSUME NEW d \in Devices,
               DeviceStep(d)
        PROVE  Safe'
    BY <1>4, WriterSafe
  <1>5. CASE UNCHANGED vars
    BY <1>5 DEF vars, Safe, OneHolder, HeldIsReserved, NamesCoherent, DownIsEmpty, Names,
                catalogue, pool, prefiles, files, prep, proc
  <1>6. QED
    BY <1>1, <1>2, <1>3, <1>4, <1>5 DEF Next, DeviceStep

\* Whatever the number of blocks and cameras and the interleaving of their
\* threads, two writers never hold one block and the catalogue never offers a
\* block that is held.
THEOREM OneHolderAlways == Spec => [](OneHolder /\ HeldIsReserved)
  <1>1. Safe => OneHolder /\ HeldIsReserved
    BY DEF Safe
  <1>2. QED
    BY <1>1, InitSafe, StepSafe, TypeCorrect, PTL DEF Spec
-------------------------------------------------------------------------------
(* open_file never truncates a file that holds a recording.                *)

\* At the first start no file is open.
LEMMA InitUse == Init => UseCoherent
  BY PoolAssumption DEF Init, UseCoherent, Names, None

\* No file is open in the memory of a process that ends.
LEMMA ClearedUse ==
    ASSUME MemoryCleared
    PROVE  UseCoherent'
  BY PoolAssumption DEF MemoryCleared, UseCoherent, Names, None

\* Closing a file leaves a writer without a row in use.
LEMMA CloseFileUse ==
    ASSUME TypeOK, Safe, UseCoherent, NEW d \in Devices, CloseFile(d),
           \A e \in Devices, b \in Blocks : Names(e, b)' => Names(e, b),
           \A e \in Devices \ {d} : wpc'[e] = wpc[e]
    PROVE  UseCoherent'
  <1>1. /\ datafp' = [datafp EXCEPT ![d] = NoBlock]
        /\ current' = [current EXCEPT ![d] = NoBlock]
        /\ \A c \in Blocks :
              status'[c] = IF datafp[d] # NoBlock /\ current[d] = c
                           THEN "VIDEO" ELSE status[c]
    BY CloseFileType
  <1>2. QED
    BY <1>1, PoolAssumption DEF Safe, NamesCoherent, UseCoherent, TypeOK

\* The catalogue may change as long as no row of a named block gets in use.
LEMMA CatalogueUse ==
    ASSUME TypeOK, Safe, UseCoherent,
           \A c \in Blocks : status'[c] = "ING" => status[c] = "ING",
           UNCHANGED <<prefile, prefile_id, datafp, current, handing>>,
           \A e \in Devices : wpc'[e] \in {"open", "wait", "fetch", "pop", "reopen"}
                             => wpc[e] \in {"open", "wait", "fetch", "pop", "reopen"}
    PROVE  UseCoherent'
  BY DEF UseCoherent, Names

\* The steps of a writer keep its file and its row in step.
LEMMA WriterUse ==
    ASSUME TypeOK, Safe, UseCoherent, NEW d \in Devices,
           DeviceStep(d)
    PROVE  UseCoherent'
  <1> USE PoolAssumption DEF catalogue, pool, prefiles, files, prep, proc
  <1>1. CASE Attach(d) \/ StartWriter(d) \/ AskForBlock(d) \/ OpenFails(d)
    BY <1>1, CatalogueUse DEF Attach, StartWriter, AskForBlock, OpenFails, TypeOK
  <1>2. CASE EndWriter(d)
    BY <1>2, CloseFileType, CloseFileUse DEF EndWriter, Names, TypeOK
  <1>3. CASE NextFile(d)
    BY <1>3, CloseFileType, CloseFileUse DEF NextFile, Names, TypeOK
  <1>4. CASE Detach(d) \/ Cancelled(d)
    BY <1>4, CatalogueUse DEF Detach, Cancelled, TypeOK
  <1>5. CASE Joined(d)
    BY <1>5, CloseFileType, CloseFileUse DEF Joined, Names, TypeOK
  <1>14. ASSUME NEW why, StopWriter(d, why) PROVE UseCoherent'
    BY <1>14, CatalogueUse DEF StopWriter, TypeOK
  <1>15. CASE CancelledInCatalogue(d)
    <2>1. /\ UNCHANGED <<prefile, prefile_id, handing>>
          /\ wpc' = [wpc EXCEPT ![d] = "idle"]
      BY <1>15 DEF CancelledInCatalogue
    <2>2. CASE wpc[d] = "run"
      BY <1>15, <2>1, <2>2, CancelledType, CatalogueUse DEF TypeOK
    <2>3. CASE wpc[d] \in {"open", "reopen"}
      <3>1. current[d] = NoBlock /\ datafp[d] = NoBlock
        BY <2>3 DEF Safe, NamesCoherent, UseCoherent
      <3>2. /\ datafp' = [datafp EXCEPT ![d] = prefile[d]]
            /\ current' = [current EXCEPT ![d] = prefile_id[d]]
            /\ \A c \in Blocks : status'[c] # status[c] => c = prefile_id[d]
        BY <1>15, <2>3, CancelledType
      <3>3. \A e \in Devices, b \in Blocks : Names(e, b)' => Names(e, b)
        BY <2>1, <3>2 DEF Names, TypeOK
      <3>4. \A b \in Blocks : Names(d, b) => status[b] # "ING"
        BY <3>1, PoolAssumption DEF UseCoherent
      <3>5. \A e \in Devices, b \in Blocks : Names(e, b)' /\ status'[b] = "ING" => current'[e] = b
        BY <3>2, <3>3, <3>4, PoolAssumption DEF UseCoherent, Safe, OneHolder, Names, TypeOK
      <3>6. \A e \in Devices :
               wpc'[e] \in {"open", "wait", "fetch", "pop", "reopen"} => datafp'[e] = NoBlock
        BY <2>1, <3>2 DEF UseCoherent, TypeOK
      <3>7. QED
        BY <3>5, <3>6 DEF UseCoherent
    <2>4. QED
      BY <1>15, <2>2, <2>3 DEF CancelledInCatalogue
  <1>6. CASE PrepairFileBlock(d)
    <2>1. \A c \in Blocks : status'[c] = "ING" => status[c] = "ING"
      BY <1>6, RecycleType DEF PrepairFileBlock
    <2>2. QED
      BY <1>6, <2>1, CatalogueUse DEF PrepairFileBlock, TypeOK
  <1>7. CASE FetchBlocks(d)
    BY <1>7, GetType, CatalogueUse DEF FetchBlocks, TypeOK
  <1>8. CASE PopPrefile(d)
    <2>1. CASE UNCHANGED <<prefile, prefile_id, list>>
      BY <1>8, <2>1, CatalogueUse DEF PopPrefile, TypeOK
    <2>2. ASSUME NEW b \in list,
                 prefile' = [prefile EXCEPT ![d] = b],
                 prefile_id' = [prefile_id EXCEPT ![d] = b]
          PROVE  UseCoherent'
      BY <1>8, <2>2 DEF PopPrefile, Safe, HeldIsReserved, UseCoherent, Names, TypeOK
    <2>3. QED
      BY <1>8, <2>1, <2>2 DEF PopPrefile
  <1>9. CASE PopEmptyList(d)
    BY <1>9, ClearedUse DEF PopEmptyList
  <1>10. CASE OpenFile(d)
    <2>1. \A c \in Blocks : status'[c] = IF c = prefile_id[d] THEN "ING" ELSE status[c]
      BY <1>10, StartRowType DEF OpenFile, TypeOK
    <2>2. current[d] = NoBlock
      BY <1>10 DEF OpenFile, Safe, NamesCoherent, UseCoherent
    <2>3. QED
      BY <1>10, <2>1, <2>2 DEF OpenFile, Safe, OneHolder, UseCoherent, Names, TypeOK
  <1>11. CASE ClearPrefile(d) \/ ClearPrefileId(d)
    BY <1>11 DEF ClearPrefile, ClearPrefileId, UseCoherent, Names, TypeOK
  <1>12. CASE OpenIndex(d)
    <2>1. CASE CloseFile(d) /\ wpc' = [wpc EXCEPT ![d] = "idle"]
      BY <1>12, <2>1, CloseFileType, CloseFileUse DEF OpenIndex, Names, TypeOK
    <2>2. CASE wpc' = [wpc EXCEPT ![d] = "run"] /\ UNCHANGED <<catalogue, files>>
      BY <1>12, <2>2, CatalogueUse DEF OpenIndex, TypeOK
    <2>3. QED
      BY <1>12, <2>1, <2>2 DEF OpenIndex
  <1>13. QED
    BY <1>1, <1>2, <1>3, <1>4, <1>5, <1>6, <1>7, <1>8, <1>9, <1>10, <1>11, <1>12,
       <1>14, <1>15 DEF DeviceStep, Writer

\* So do the steps of the preallocation thread.
LEMMA PrepairUse ==
    ASSUME TypeOK, Safe, UseCoherent, Prepair
    PROVE  UseCoherent'
  <1> USE PoolAssumption DEF catalogue, pool, prefiles, files, prep, proc, PrepAt, PrepRest
  <1>1. CASE PrepBegin \/ PrepCheck \/ PrepEnough \/ PrepUnlock \/ PrepLock
    BY <1>1, CatalogueUse DEF PrepBegin, PrepCheck, PrepEnough, PrepUnlock, PrepLock, TypeOK
  <1>2. CASE PrepGet
    BY <1>2, GetType, CatalogueUse DEF PrepGet, TypeOK
  <1>3. ASSUME NEW from, NEW to, PrepRecycle(from, to) PROVE UseCoherent'
    <2>1. \A c \in Blocks : status'[c] = "ING" => status[c] = "ING"
      BY <1>3, RecycleType DEF PrepRecycle
    <2>2. QED
      BY <1>3, <2>1, CatalogueUse DEF PrepRecycle, TypeOK
  <1>4. ASSUME NEW from, NEW to, PrepGetAgain(from, to) PROVE UseCoherent'
    BY <1>4, GetType, CatalogueUse DEF PrepGetAgain, TypeOK
  <1>5. CASE Exit
    BY <1>5, ClearedUse DEF Exit
  <1>10. CASE GiveUp
    BY <1>10, CatalogueUse DEF GiveUp, TypeOK
  <1>11. ASSUME NEW d \in Devices, GiveUpStop(d) PROVE UseCoherent'
    BY <1>11, CatalogueUse DEF GiveUpStop, TypeOK
  <1>6. ASSUME NEW d \in Devices, PrepSkip(d) PROVE UseCoherent'
    BY <1>6, CatalogueUse DEF PrepSkip, TypeOK
  <1>7. ASSUME NEW d \in Devices, PrepGiveName(d) PROVE UseCoherent'
    BY <1>7 DEF PrepGiveName, Safe, HeldIsReserved, UseCoherent, Names, TypeOK
  <1>8. ASSUME NEW d \in Devices, PrepGiveId(d) PROVE UseCoherent'
    BY <1>8 DEF PrepGiveId, UseCoherent, Names, TypeOK
  <1>9. QED
    BY <1>1, <1>2, <1>3, <1>4, <1>5, <1>6, <1>7, <1>8, <1>10, <1>11 DEF Prepair

\* Every step keeps files and rows in step.
LEMMA StepUse == TypeOK /\ Safe /\ UseCoherent /\ [Next]_vars => UseCoherent'
  <1> SUFFICES ASSUME TypeOK, Safe, UseCoherent, [Next]_vars PROVE UseCoherent'
    OBVIOUS
  <1>1. CASE Crash
    BY <1>1, ClearedUse DEF Crash
  <1>2. CASE Restart
    BY <1>2 DEF Restart, Safe, DownIsEmpty, UseCoherent, Names, pool, prefiles, files, prep
  <1>3. CASE Prepair
    BY <1>3, PrepairUse
  <1>4. ASSUME NEW d \in Devices,
               DeviceStep(d)
        PROVE  UseCoherent'
    BY <1>4, WriterUse
  <1>5. CASE UNCHANGED vars
    BY <1>5 DEF vars, UseCoherent, Names, catalogue, pool, prefiles, files, prep, proc
  <1>6. QED
    BY <1>1, <1>2, <1>3, <1>4, <1>5 DEF Next, DeviceStep

\* The inductive invariant that the runs check holds of every instance.
THEOREM InvariantAlways == Spec => []IInv
  <1>1. TypeOK /\ Safe /\ UseCoherent => IInv
    BY DEF IInv, Safe
  <1>2. QED
    BY <1>1, InitSafe, StepSafe, InitUse, StepUse, TypeCorrect, PTL DEF Spec

\* What OpensReservedOnly says of one step.
OpensReserved ==
    \A d \in Devices : datafp'[d] \notin {NoBlock, datafp[d]} =>
        /\ status[datafp'[d]] = "PRE"
        /\ \A e \in Devices : datafp[e] # datafp'[d]

\* A step that opens a file opens a preallocated block nobody has open.
LEMMA OpenStep == IInv /\ [Next]_vars => OpensReserved
  <1> SUFFICES ASSUME IInv, [Next]_vars PROVE OpensReserved
    OBVIOUS
  <1> USE PoolAssumption DEF catalogue, pool, prefiles, files, prep, proc
  <1>0. TypeOK /\ Safe /\ UseCoherent
    BY DEF IInv, Safe
  <1>1. CASE \/ datafp' = datafp \/ MemoryCleared
             \/ \E d \in Devices : datafp' = [datafp EXCEPT ![d] = NoBlock]
    BY <1>0, <1>1 DEF OpensReserved, MemoryCleared, None, TypeOK
  <1>2. CASE Crash \/ Restart \/ UNCHANGED vars
    BY <1>1, <1>2 DEF Crash, Restart, vars
  <1>3. CASE Prepair
    BY <1>1, <1>3
    DEF Prepair, PrepBegin, PrepGet, PrepRecycle, PrepGetAgain, PrepCheck, PrepEnough,
        GiveUp, GiveUpStop, Exit, PrepLock, PrepGiveName, PrepGiveId, PrepSkip, PrepUnlock, PrepRest
  <1>4. ASSUME NEW d \in Devices,
               DeviceStep(d)
        PROVE  OpensReserved
    <2>1. ASSUME wpc[d] \in {"open", "reopen"}, prefile[d] # NoBlock, ~db_held,
                 datafp' = [datafp EXCEPT ![d] = prefile[d]]
          PROVE  OpensReserved
      <3>1. prefile[d] \in Blocks /\ Names(d, prefile[d])
        BY <1>0, <2>1 DEF TypeOK, Names
      <3>2. datafp[d] = NoBlock /\ current[d] = NoBlock
        BY <1>0, <2>1 DEF Safe, NamesCoherent, UseCoherent
      <3>3. status[prefile[d]] = "PRE"
        BY <1>0, <2>1, <3>1, <3>2 DEF Safe, HeldIsReserved, UseCoherent
      <3>4. \A e \in Devices : datafp[e] # prefile[d]
        BY <1>0, <3>1, <3>2 DEF Safe, OneHolder, Names
      <3>5. QED
        BY <1>0, <2>1, <3>3, <3>4 DEF OpensReserved, TypeOK
    <2>2. CASE OpenFile(d)
      BY <2>1, <2>2 DEF OpenFile, StartRow
    <2>3. CASE CancelledInCatalogue(d)
      BY <1>0, <1>1, <2>1, <2>3, CancelledType DEF CancelledInCatalogue
    <2>4. CASE ~OpenFile(d) /\ ~CancelledInCatalogue(d)
      BY <1>1, <1>4, <2>4
      DEF DeviceStep, Attach, StartWriter, StopWriter, EndWriter, Detach, Cancelled, Joined,
          Writer, NextFile, AskForBlock, PrepairFileBlock, FetchBlocks, PopPrefile, PopEmptyList,
          OpenFails, ClearPrefile, ClearPrefileId, OpenIndex, CloseFile
    <2>5. QED
      BY <2>2, <2>3, <2>4
  <1>5. QED
    BY <1>2, <1>3, <1>4 DEF Next, DeviceStep

\* No open_file ever truncates a finished recording or one in progress.
THEOREM OpensReservedAlways == Spec => OpensReservedOnly
  <1>1. IInv /\ [Next]_vars => [OpensReserved]_vars
    BY OpenStep
  <1>2. QED
    BY <1>1, InvariantAlways, PTL DEF Spec, OpensReservedOnly, OpensReserved
-------------------------------------------------------------------------------
(* BlockPool implements FileBlocks.                                        *)

\* The inductive invariant in its parts.
Inv == TypeOK /\ Safe /\ UseCoherent

\* Some writer names the block.
Held(b) == \E d \in Devices : Names(d, b)

\* The owner of each block, without the choice of a holder.
OwnerFacts ==
    /\ Owner \in [Blocks -> FB!Owners]
    /\ \A b \in Blocks :
          /\ \A d \in Devices : Names(d, b) <=> Owner[b] = d
          /\ ~Held(b) /\ b \in list => Owner[b] = "pool"
          /\ ~Held(b) /\ b \notin list /\ status[b] \in {"NEW", "VIDEO"} => Owner[b] = "free"
          /\ ~Held(b) /\ b \notin list /\ status[b] \notin {"NEW", "VIDEO"} => Owner[b] = "lost"

\* The invariant determines the owner of every block.
LEMMA OwnerOf == Inv => OwnerFacts
  <1> SUFFICES ASSUME Inv PROVE OwnerFacts
    OBVIOUS
  <1> DEFINE holders(c) == {d \in Devices : Names(d, c)}
             choice(c) == CHOOSE d \in holders(c) : TRUE
             own(c) == IF holders(c) # {} THEN choice(c)
                       ELSE IF c \in list THEN "pool"
                       ELSE IF status[c] \in {"NEW", "VIDEO"} THEN "free" ELSE "lost"
  <1>1. Owner = [c \in Blocks |-> own(c)]
    BY DEF Owner
  <1>2. \A c \in Blocks : holders(c) # {} => choice(c) \in Devices /\ Names(choice(c), c)
    OBVIOUS
  <1>3. \A c \in Blocks : own(c) \in FB!Owners
    BY <1>2 DEF FB!Owners
  <1>4. Owner \in [Blocks -> FB!Owners] /\ \A b \in Blocks : Owner[b] = own(b)
    BY <1>1, <1>3
  <1>5. ASSUME NEW d \in Devices, NEW b \in Blocks, Names(d, b) PROVE own(b) = d
    <2>1. holders(b) # {}
      BY <1>5
    <2>2. choice(b) = d
      BY <1>2, <1>5, <2>1 DEF Inv, Safe, OneHolder
    <2>3. QED
      BY <2>1, <2>2
  <1>6. ASSUME NEW d \in Devices, NEW b \in Blocks, own(b) = d PROVE Names(d, b)
    <2>1. holders(b) # {}
      BY <1>6, PoolAssumption
    <2>2. QED
      BY <1>2, <1>6, <2>1
  <1>7. \A b \in Blocks : ~Held(b) => holders(b) = {}
    BY DEF Held
  <1>8. QED
    BY <1>4, <1>5, <1>6, <1>7 DEF OwnerFacts

\* The same facts of the next state.
LEMMA OwnerOfNext == Inv' => OwnerFacts'
  BY OwnerOf, PTL
-------------------------------------------------------------------------------
(* The kinds of steps.                                                     *)

\* Nobody gets a block: a device may let go of blocks.
LEMMA ReleaseStep ==
    ASSUME Inv, Inv', NEW d \in Devices,
           list' = list,
           \A e \in Devices, b \in Blocks : Names(e, b)' => Names(e, b),
           \A e \in Devices \ {d}, b \in Blocks : Names(e, b) => Names(e, b)',
           \A b \in Blocks : ~Names(d, b) /\ b \notin list
              => (status'[b] \in {"NEW", "VIDEO"} <=> status[b] \in {"NEW", "VIDEO"})
    PROVE  FB!Release(d)
  <1>1. OwnerFacts /\ OwnerFacts'
    BY OwnerOf, OwnerOfNext
  <1>2. ASSUME NEW b \in Blocks, Owner'[b] # Owner[b]
        PROVE  <<Owner[b], Owner'[b]>> \in {<<d, "free">>, <<d, "lost">>}
    <2>1. CASE Names(d, b)
      <3>1. Owner[b] = d /\ b \notin list
        BY <1>1, <2>1 DEF OwnerFacts, Inv, Safe, OneHolder
      <3>2. ~Held(b)'
        BY <1>1, <1>2, <3>1 DEF OwnerFacts, Held
      <3>3. QED
        BY <1>1, <3>1, <3>2 DEF OwnerFacts
    <2>2. CASE ~Names(d, b) /\ Held(b)
      <3>1. PICK e \in Devices : Names(e, b)
        BY <2>2 DEF Held
      <3>2. Names(e, b)'
        BY <2>2, <3>1
      <3>3. QED
        BY <1>1, <1>2, <3>1, <3>2 DEF OwnerFacts
    <2>3. CASE ~Held(b)
      <3>1. ~Held(b)' /\ ~Names(d, b)
        BY <2>3 DEF Held
      <3>2. QED
        BY <1>1, <1>2, <2>3, <3>1 DEF OwnerFacts
    <2>4. QED
      BY <2>1, <2>2, <2>3
  <1>3. QED
    BY <1>1, <1>2 DEF OwnerFacts, FB!Release, FB!Step

\* The pool takes free blocks.
LEMMA ReserveStep ==
    ASSUME Inv, Inv',
           list \subseteq list',
           \A e \in Devices, b \in Blocks : Names(e, b)' <=> Names(e, b),
           \A b \in list' \ list : status[b] = "NEW",
           \A b \in Blocks : status'[b] # status[b] =>
              \/ status[b] = "NEW" /\ status'[b] = "PRE"
              \/ status[b] = "VIDEO" /\ status'[b] = "NEW"
    PROVE  FB!Reserve
  <1>1. OwnerFacts /\ OwnerFacts'
    BY OwnerOf, OwnerOfNext
  <1>2. ASSUME NEW b \in Blocks, Owner'[b] # Owner[b]
        PROVE  <<Owner[b], Owner'[b]>> \in {<<"free", "pool">>, <<"free", "lost">>}
    <2>1. CASE Held(b)
      <3>1. PICK e \in Devices : Names(e, b) /\ Names(e, b)'
        BY <2>1 DEF Held
      <3>2. QED
        BY <1>1, <1>2, <3>1 DEF OwnerFacts
    <2>2. CASE ~Held(b)
      <3>1. ~Held(b)'
        BY <2>2 DEF Held
      <3>2. QED
        BY <1>1, <1>2, <2>2, <3>1 DEF OwnerFacts
    <2>3. QED
      BY <2>1, <2>2
  <1>3. QED
    BY <1>1, <1>2 DEF OwnerFacts, FB!Reserve, FB!Step

\* A device is given a block of the list, and may let go of another.
LEMMA AssignStep ==
    ASSUME Inv, Inv', NEW d \in Devices, NEW b \in list,
           list' = list \ {b}, status' = status,
           Names(d, b)',
           \A c \in Blocks : Names(d, c)' => c = b \/ Names(d, c),
           \A e \in Devices \ {d}, c \in Blocks : Names(e, c)' <=> Names(e, c)
    PROVE  FB!Assign(d)
  <1>1. OwnerFacts /\ OwnerFacts' /\ b \in Blocks
    BY OwnerOf, OwnerOfNext DEF Inv, TypeOK
  <1>2. ASSUME NEW c \in Blocks, Owner'[c] # Owner[c]
        PROVE  \/ c = b /\ <<Owner[c], Owner'[c]>> = <<"pool", d>>
               \/ <<Owner[c], Owner'[c]>> \in {<<d, "free">>, <<d, "lost">>}
    <2>1. CASE c = b
      <3>1. ~Held(b)
        BY <1>1 DEF Inv, Safe, OneHolder, Held
      <3>2. Owner[b] = "pool" /\ Owner'[b] = d
        BY <1>1, <3>1 DEF OwnerFacts
      <3>3. QED
        BY <2>1, <3>2
    <2>2. CASE c # b /\ Names(d, c)
      <3>1. Owner[c] = d /\ c \notin list
        BY <1>1, <2>2 DEF OwnerFacts, Inv, Safe, OneHolder
      <3>2. ~Held(c)'
        BY <1>1, <1>2, <3>1 DEF OwnerFacts, Held
      <3>3. QED
        BY <1>1, <3>1, <3>2 DEF OwnerFacts
    <2>3. CASE c # b /\ ~Names(d, c) /\ Held(c)
      <3>1. PICK e \in Devices \ {d} : Names(e, c)
        BY <2>3 DEF Held
      <3>2. Names(e, c)'
        BY <3>1
      <3>3. QED
        BY <1>1, <1>2, <3>1, <3>2 DEF OwnerFacts
    <2>4. CASE c # b /\ ~Held(c)
      <3>1. ~Held(c)' /\ (c \in list' <=> c \in list)
        BY <2>4 DEF Held
      <3>2. QED
        BY <1>1, <1>2, <2>4, <3>1 DEF OwnerFacts
    <2>5. QED
      BY <2>1, <2>2, <2>3, <2>4
  <1>3. QED
    BY <1>1, <1>2, PoolAssumption DEF OwnerFacts, FB!Assign, FB!Step

\* The memory of a process that ends owns no block.
LEMMA EndStep ==
    ASSUME Inv, Inv', MemoryCleared, UNCHANGED catalogue
    PROVE  FB!End
  <1>1. OwnerFacts /\ OwnerFacts'
    BY OwnerOf, OwnerOfNext
  <1>2. \A b \in Blocks : ~Held(b)' /\ b \notin list'
    BY PoolAssumption DEF MemoryCleared, Held, Names, None
  <1>3. \A b \in Blocks : Owner'[b] \in {"free", "lost"}
    BY <1>1, <1>2 DEF OwnerFacts
  <1>4. ASSUME NEW b \in Blocks, Owner[b] \in {"free", "lost"}
        PROVE  Owner'[b] = Owner[b]
    <2>1. ~Held(b) /\ b \notin list
      BY <1>1, <1>4, PoolAssumption DEF OwnerFacts, Held
    <2>2. QED
      BY <1>1, <1>2, <2>1 DEF OwnerFacts, catalogue
  <1>5. QED
    BY <1>1, <1>3, <1>4 DEF OwnerFacts, FB!End, FB!Step, FB!Owners

\* The next start brings lost blocks back.
LEMMA RecoverStep ==
    ASSUME Inv, Inv', Restart
    PROVE  FB!Recover
  <1>1. OwnerFacts /\ OwnerFacts'
    BY OwnerOf, OwnerOfNext
  <1>2. \A b \in Blocks : ~Held(b) /\ b \notin list
    BY DEF Restart, Inv, Safe, DownIsEmpty, Held
  <1>3. \A b \in Blocks : ~Held(b)' /\ b \notin list'
    BY <1>2 DEF Restart, Held, Names, pool, prefiles, files, prep
  <1>4. \A b \in Blocks : status[b] \in {"NEW", "VIDEO"} => status'[b] \in {"NEW", "VIDEO"}
    BY DEF Restart, Inv, TypeOK
  <1>5. QED
    BY <1>1, <1>2, <1>3, <1>4 DEF OwnerFacts, FB!Recover, FB!Step
-------------------------------------------------------------------------------
(* Every step of BlockPool is one of them.                                 *)

\* A step of a camera releases blocks, is given one, or ends the process.
LEMMA DeviceRefines ==
    ASSUME Inv, Inv', NEW d \in Devices, DeviceStep(d)
    PROVE  FB!Release(d) \/ FB!Assign(d) \/ FB!Reserve \/ FB!End
  <1> USE PoolAssumption DEF catalogue, pool, prefiles, files, prep, proc
  <1>0. TypeOK
    BY DEF Inv
  <1>1. CASE \/ Attach(d) \/ StartWriter(d) \/ Detach(d) \/ Cancelled(d)
             \/ AskForBlock(d) \/ OpenFails(d)
             \/ \E why \in {"plan", "detach", "remove"} : StopWriter(d, why)
    BY <1>1, ReserveStep
    DEF Attach, StartWriter, Detach, Cancelled, AskForBlock, OpenFails, StopWriter, Names
  <1>2. ASSUME CloseFile(d), list' = list, handing' = handing,
               \/ UNCHANGED <<prefile, prefile_id>>
               \/ /\ prefile' = [prefile EXCEPT ![d] = NoBlock]
                  /\ prefile_id' = [prefile_id EXCEPT ![d] = NoBlock]
        PROVE  FB!Release(d)
    <2>1. /\ datafp' = [datafp EXCEPT ![d] = NoBlock]
          /\ current' = [current EXCEPT ![d] = NoBlock]
          /\ \A c \in Blocks : status'[c] # status[c] => Names(d, c)
      BY <1>0, <1>2, CloseFileType DEF Names
    <2>2. \A e \in Devices, b \in Blocks : Names(e, b)' => Names(e, b)
      BY <1>0, <1>2, <2>1 DEF Names, TypeOK
    <2>3. \A e \in Devices \ {d}, b \in Blocks : Names(e, b) => Names(e, b)'
      BY <1>0, <1>2, <2>1 DEF Names, TypeOK
    <2>4. QED
      BY <1>2, <2>1, <2>2, <2>3, ReleaseStep
  <1>3. CASE EndWriter(d) \/ NextFile(d) \/ Joined(d)
    BY <1>2, <1>3 DEF EndWriter, NextFile, Joined
  <1>4. CASE OpenIndex(d)
    BY <1>2, <1>4, ReserveStep DEF OpenIndex, Names
  <1>5. CASE PrepairFileBlock(d)
    <2>1. \A b \in Blocks : status'[b] # status[b] => status[b] = "VIDEO" /\ status'[b] = "NEW"
      BY <1>0, <1>5, RecycleType DEF PrepairFileBlock
    <2>2. QED
      BY <1>5, <2>1, ReserveStep DEF PrepairFileBlock, Names
  <1>6. CASE FetchBlocks(d)
    <2>1. /\ list \subseteq list'
          /\ \A c \in list' \ list : status[c] = "NEW"
          /\ \A c \in Blocks : status'[c] # status[c] => status[c] = "NEW" /\ status'[c] = "PRE"
      BY <1>0, <1>6, GetType DEF FetchBlocks
    <2>2. QED
      BY <1>6, <2>1, ReserveStep DEF FetchBlocks, Names
  <1>7. CASE PopPrefile(d)
    <2>1. CASE UNCHANGED <<prefiles, list>>
      BY <1>7, <2>1, ReserveStep DEF PopPrefile, Names
    <2>2. ASSUME NEW b \in list,
                 prefile' = [prefile EXCEPT ![d] = b],
                 prefile_id' = [prefile_id EXCEPT ![d] = b],
                 list' = list \ {b}
          PROVE  FB!Assign(d)
      <3>1. UNCHANGED <<status, datafp, current, handing>>
        BY <1>7 DEF PopPrefile
      <3>2. QED
        BY <1>0, <2>2, <3>1, AssignStep DEF Names, TypeOK
    <2>3. QED
      BY <1>7, <2>1, <2>2 DEF PopPrefile
  <1>8. CASE PopEmptyList(d)
    BY <1>8, EndStep DEF PopEmptyList
  <1>9. CASE OpenFile(d)
    <2>1. \A c \in Blocks : status'[c] # status[c] => Names(d, c)
      BY <1>0, <1>9, StartRowType DEF OpenFile, Names, TypeOK
    <2>2. QED
      BY <1>0, <1>9, <2>1, ReleaseStep DEF OpenFile, Names, TypeOK
  <1>10. CASE CancelledInCatalogue(d)
    <2>1. \A c \in Blocks : status'[c] # status[c] => Names(d, c)
      BY <1>0, <1>10, CancelledType DEF Names
    <2>2. UNCHANGED <<list, prefile, prefile_id, handing>>
      BY <1>10 DEF CancelledInCatalogue
    <2>3. QED
      BY <1>0, <1>10, <2>1, <2>2, CancelledType, ReleaseStep DEF Names, TypeOK
  <1>11. CASE ClearPrefile(d)
    BY <1>0, <1>11, ReleaseStep DEF ClearPrefile, Names, TypeOK
  <1>12. CASE ClearPrefileId(d)
    BY <1>0, <1>12, ReleaseStep DEF ClearPrefileId, Names, TypeOK
  <1>13. QED
    BY <1>1, <1>3, <1>4, <1>5, <1>6, <1>7, <1>8, <1>9, <1>10, <1>11, <1>12
    DEF DeviceStep, Writer

\* A step of the preallocation thread is a step of the abstract blocks.
LEMMA PrepairRefines ==
    ASSUME Inv, Inv', Prepair
    PROVE  FB!Next
  <1> USE PoolAssumption DEF catalogue, pool, prefiles, files, prep, proc, PrepAt, PrepRest
  <1>0. TypeOK
    BY DEF Inv
  <1>1. CASE PrepBegin \/ PrepCheck \/ PrepEnough \/ GiveUp \/ PrepLock \/ PrepUnlock
    BY <1>1, ReserveStep
    DEF PrepBegin, PrepCheck, PrepEnough, GiveUp, PrepLock, PrepUnlock, Names, FB!Next
  <1>2. ASSUME NEW d \in Devices, PrepSkip(d) \/ GiveUpStop(d) PROVE FB!Next
    BY <1>2, ReserveStep DEF PrepSkip, GiveUpStop, Names, FB!Next
  <1>3. ASSUME NEW n, GetFreeBlock(Oldest("NEW", n)),
               UNCHANGED <<prefile, prefile_id, datafp, current, handing>>
        PROVE  FB!Next
    <2>1. /\ list \subseteq list'
          /\ \A c \in list' \ list : status[c] = "NEW"
          /\ \A c \in Blocks : status'[c] # status[c] => status[c] = "NEW" /\ status'[c] = "PRE"
      BY <1>0, <1>3, GetType
    <2>2. QED
      BY <1>3, <2>1, ReserveStep DEF Names, FB!Next
  <1>4. CASE PrepGet
    BY <1>3, <1>4 DEF PrepGet
  <1>5. ASSUME NEW from, NEW to, PrepGetAgain(from, to) PROVE FB!Next
    BY <1>3, <1>5 DEF PrepGetAgain
  <1>6. ASSUME NEW from, NEW to, PrepRecycle(from, to) PROVE FB!Next
    <2>1. \A b \in Blocks : status'[b] # status[b] => status[b] = "VIDEO" /\ status'[b] = "NEW"
      BY <1>0, <1>6, RecycleType DEF PrepRecycle
    <2>2. QED
      BY <1>6, <2>1, ReserveStep DEF PrepRecycle, Names, FB!Next
  <1>7. CASE Exit
    BY <1>7, EndStep DEF Exit, FB!Next
  <1>8. ASSUME NEW d \in Devices, PrepGiveName(d) PROVE FB!Next
    <2>1. PICK b \in list :
             /\ prefile' = [prefile EXCEPT ![d] = b]
             /\ handing' = [handing EXCEPT ![d] = b]
             /\ list' = list \ {b}
      BY <1>8 DEF PrepGiveName
    <2>2. UNCHANGED <<status, prefile_id, datafp, current>>
      BY <1>8 DEF PrepGiveName
    <2>3. FB!Assign(d)
      BY <1>0, <2>1, <2>2, AssignStep DEF Names, TypeOK
    <2>4. QED
      BY <2>3 DEF FB!Next
  <1>9. ASSUME NEW d \in Devices, PrepGiveId(d) PROVE FB!Next
    <2>1. /\ prefile_id' = [prefile_id EXCEPT ![d] = handing[d]]
          /\ handing' = [handing EXCEPT ![d] = NoBlock]
          /\ UNCHANGED <<status, list, prefile, datafp, current>>
      BY <1>9 DEF PrepGiveId
    <2>2. FB!Release(d)
      BY <1>0, <2>1, ReleaseStep DEF Names, TypeOK
    <2>3. QED
      BY <2>2 DEF FB!Next
  <1>10. QED
    BY <1>1, <1>2, <1>4, <1>5, <1>6, <1>7, <1>8, <1>9 DEF Prepair

\* Every step is a step of the abstract blocks, or leaves them alone.
LEMMA StepRefines ==
    ASSUME Inv, Inv', [Next]_vars
    PROVE  [FB!Next]_Owner
  <1>1. CASE Crash
    BY <1>1, EndStep DEF Crash, FB!Next
  <1>2. CASE Restart
    BY <1>2, RecoverStep DEF FB!Next
  <1>3. CASE Prepair
    BY <1>3, PrepairRefines
  <1>4. ASSUME NEW d \in Devices, DeviceStep(d) PROVE FB!Next
    BY <1>4, DeviceRefines DEF FB!Next
  <1>5. CASE UNCHANGED vars
    <2>1. list' = list /\ status' = status
      BY <1>5 DEF vars, catalogue, pool
    <2>2. \A d \in Devices, b \in Blocks : Names(d, b)' <=> Names(d, b)
      BY <1>5 DEF vars, Names, prefiles, files, prep
    <2>3. FB!Reserve
      BY <2>1, <2>2, ReserveStep
    <2>4. QED
      BY <2>3 DEF FB!Next
  <1>6. QED
    BY <1>1, <1>2, <1>3, <1>4, <1>5 DEF Next, DeviceStep

\* The first start is a state of the abstract blocks.
LEMMA InitRefines == Init /\ Inv => FB!Init
  <1> SUFFICES ASSUME Init, Inv PROVE FB!Init
    OBVIOUS
  <1>1. OwnerFacts
    BY OwnerOf
  <1>2. \A b \in Blocks : ~Held(b) /\ b \notin list
    BY PoolAssumption DEF Init, Held, Names, None
  <1>3. QED
    BY <1>1, <1>2 DEF OwnerFacts, FB!Init

\* Whatever its threads do, a block of the recorder has one owner at a time
\* and passes from a camera to another only by way of the catalogue and the
\* pool.
THEOREM Refinement == Spec => OneOwner
  <1>1. Init => Inv
    BY InitTypeOK, InitSafe, InitUse DEF Inv
  <1>2. Inv /\ [Next]_vars => Inv'
    BY StepType, StepSafe, StepUse DEF Inv
  <1>3. Init => FB!Init
    BY <1>1, InitRefines
  <1>4. Inv /\ Inv' /\ [Next]_vars => [FB!Next]_Owner
    BY StepRefines
  <1>5. QED
    BY <1>1, <1>2, <1>3, <1>4, PTL DEF Spec, OneOwner, FB!Spec
===============================================================================
