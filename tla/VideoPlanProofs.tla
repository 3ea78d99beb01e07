---------------------------- MODULE VideoPlanProofs ----------------------------
(***************************************************************************)
(* Proofs about VideoPlan, for any plans and any hours other threads ask   *)
(* for, whoever runs while the plan thread waits for m_stream_lock, and    *)
(* for however long it waits.                                              *)
(*                                                                         *)
(* A camera is recorded by its plan because a check that was not disturbed *)
(* decides by the hour it woke in, because the hour that localtime gives   *)
(* counts the hour of the week that comes (HourThatComes), and because     *)
(* that hour is the next one of the clock (HourThatCame).                  *)
(***************************************************************************)
EXTENDS VideoPlan, TLAPS

IInv == TypeOK /\ WriterInPlan /\ PlannedIsRecorded

\* A time that localtime may give.
Times == [wday : 0 .. 6, hour : 0 .. 23]

\* The hour after a time is an hour of the week, Sunday 23 being followed by hour 0.
LEMMA HourIsOfWeek ==
    ASSUME NEW t \in Times
    PROVE  NextHour(t) \in Hours
  <1>1. t.wday \in 0 .. 6 /\ t.hour \in 0 .. 23
    BY DEF Times
  <1>2. QED
    BY <1>1 DEF NextHour, Hours

\* The hour by which a check decides is the one after the hour of the week.
LEMMA HourThatComes ==
    ASSUME wday \in 0 .. 6, hour \in 0 .. 23
    PROVE  NextHour(Now) = Coming /\ Coming \in Hours
  <1>1. Now.wday = wday /\ Now.hour = hour
    BY DEF Now
  <1>2. NextHour(Now) =
           LET h == ((IF wday = 0 THEN 7 ELSE wday) - 1) * 24 + hour + 1
           IN  IF h = 168 THEN 0 ELSE h
    BY <1>1 DEF NextHour
  <1>3. \/ wday = 0 /\ (wday + 6) % 7 = 6
        \/ wday = 1 /\ (wday + 6) % 7 = 0
        \/ wday = 2 /\ (wday + 6) % 7 = 1
        \/ wday = 3 /\ (wday + 6) % 7 = 2
        \/ wday = 4 /\ (wday + 6) % 7 = 3
        \/ wday = 5 /\ (wday + 6) % 7 = 4
        \/ wday = 6 /\ (wday + 6) % 7 = 5
    OBVIOUS
  <1>4. QED
    BY <1>2, <1>3 DEF Coming, HourOfWeek, Hours

\* When the clock ticks the hour that was to come has come.
LEMMA HourThatCame ==
    ASSUME wday \in 0 .. 6, hour \in 0 .. 23,
           hour' = (hour + 1) % 24, wday' = IF hour = 23 THEN (wday + 1) % 7 ELSE wday
    PROVE  /\ wday' \in 0 .. 6 /\ hour' \in 0 .. 23
           /\ HourOfWeek' = Coming
  <1>1. CASE hour = 23
    <2>1. hour' = 0
      BY <1>1
    <2>2. \/ wday = 0 /\ wday' = 1 /\ (wday + 6) % 7 = 6 /\ (wday' + 6) % 7 = 0
          \/ wday = 1 /\ wday' = 2 /\ (wday + 6) % 7 = 0 /\ (wday' + 6) % 7 = 1
          \/ wday = 2 /\ wday' = 3 /\ (wday + 6) % 7 = 1 /\ (wday' + 6) % 7 = 2
          \/ wday = 3 /\ wday' = 4 /\ (wday + 6) % 7 = 2 /\ (wday' + 6) % 7 = 3
          \/ wday = 4 /\ wday' = 5 /\ (wday + 6) % 7 = 3 /\ (wday' + 6) % 7 = 4
          \/ wday = 5 /\ wday' = 6 /\ (wday + 6) % 7 = 4 /\ (wday' + 6) % 7 = 5
          \/ wday = 6 /\ wday' = 0 /\ (wday + 6) % 7 = 5 /\ (wday' + 6) % 7 = 6
      BY <1>1
    <2>3. QED
      BY <1>1, <2>1, <2>2 DEF Coming, HourOfWeek
  <1>2. CASE hour # 23
    <2>1. hour' = hour + 1 /\ wday' = wday /\ hour' \in 0 .. 23
      BY <1>2
    <2>2. (wday + 6) % 7 \in 0 .. 6
      OBVIOUS
    <2>3. QED
      BY <2>1, <2>2 DEF Coming, HourOfWeek
  <1>3. QED
    BY <1>1, <1>2

\* A check decides as the plan says.
LEMMA CheckIsCover ==
    ASSUME TypeOK, NEW t \in Times, NEW h \in Hours, NextHour(t) = h
    PROVE  check_next_hour_video_plan(t) <=> Covers(plan, h)
  <1>1. plan \subseteq Hours \X Hours
    BY VideoPlanAssumption DEF TypeOK, Week, Hours
  <1>2. \A s \in plan : s[1] \in Int /\ s[2] \in Int
    BY <1>1 DEF Hours
  <1>3. h \in Int
    BY DEF Hours
  <1>4. \A s \in plan : h \in s[1] .. s[2] <=> s[1] <= h /\ h <= s[2]
    BY <1>2, <1>3
  <1>5. QED
    BY <1>4 DEF check_next_hour_video_plan, Covers
-------------------------------------------------------------------------------
(* The steps.                                                              *)

\* At the first start the plan is the whole week and the camera does not record.
LEMMA InitInv == Init => IInv
  <1> SUFFICES ASSUME Init PROVE IInv
    OBVIOUS
  <1>1. tm \in Times
    BY DEF Init, Now, Times
  <1>2. NextHour(tm) \in Hours
    BY <1>1, HourIsOfWeek
  <1>3. TypeOK
    BY <1>1, <1>2 DEF Init, TypeOK, Times
  <1>4. QED
    BY <1>3 DEF Init, IInv, Late, WriterInPlan, PlannedIsRecorded

\* A step that leaves the clock and the plan thread, and does not begin a
\* recording that should end or miss one that should begin.
LEMMA SameHour ==
    ASSUME IInv, UNCHANGED <<clock, pc>>, TypeOK',
           \/ ~writer' /\ ~since'
           \/ /\ plan' = plan /\ since' = since /\ misled' = misled
              /\ writer => writer'
              /\ writer' => writer \/ Covers(plan, Coming)
    PROVE  IInv'
  <1>1. /\ Coming' = Coming /\ HourOfWeek' = HourOfWeek /\ checked' = checked /\ pc' = pc
    BY DEF clock, Coming, HourOfWeek
  <1>2. CASE ~writer' /\ ~since'
    BY <1>2 DEF IInv, WriterInPlan, PlannedIsRecorded
  <1>3. ASSUME plan' = plan, since' = since, misled' = misled,
               writer => writer', writer' => writer \/ Covers(plan, Coming)
        PROVE  WriterInPlan' /\ PlannedIsRecorded'
    <2>1. Covers(plan, Coming)' = Covers(plan, Coming)
      BY <1>1, <1>3 DEF Covers
    <2>2. Covers(plan, HourOfWeek)' = Covers(plan, HourOfWeek)
      BY <1>1, <1>3 DEF Covers
    <2>3. QED
      BY <1>1, <1>3, <2>1, <2>2 DEF IInv, Late, WriterInPlan, PlannedIsRecorded
  <1>4. QED
    BY <1>2, <1>3 DEF IInv

\* The hour that begins is the one that was checked, or its check is late.
LEMMA TickKeeps ==
    ASSUME IInv, Tick
    PROVE  IInv'
  <1>1. /\ wday \in 0 .. 6 /\ hour \in 0 .. 23 /\ ~checked'
        /\ checked \/ pc = "waits"
        /\ UNCHANGED <<pc, tm, stored, plan, enable, writer, since, misled, renewed>>
    BY DEF IInv, TypeOK, Tick
  <1>2. wday' \in 0 .. 6 /\ hour' \in 0 .. 23 /\ HourOfWeek' = Coming
    BY <1>1, HourThatCame DEF Tick
  <1>3. TypeOK'
    BY <1>1, <1>2, ZenonT(40) DEF IInv, TypeOK, Tick, NextHour
  <1>4. CASE pc = "waits"
    BY <1>1, <1>3, <1>4 DEF IInv, Late, WriterInPlan, PlannedIsRecorded
  <1>5. CASE pc # "waits"
    <2>1. checked /\ pc = "sleeps"
      BY <1>1, <1>5 DEF IInv, TypeOK
    <2>2. WriterInPlan' /\ PlannedIsRecorded'
      BY <1>1, <1>2, <2>1 DEF IInv, Late, WriterInPlan, PlannedIsRecorded, Covers
    <2>3. QED
      BY <1>3, <2>2 DEF IInv
  <1>6. QED
    BY <1>4, <1>5

\* A check that was not disturbed decides by the hour that comes.
LEMMA CheckKeeps ==
    ASSUME IInv, Check
    PROVE  IInv'
  <1>1. TypeOK /\ tm \in Times
    BY DEF IInv, TypeOK, Times
  <1>2. /\ pc' = "sleeps" /\ writer' = ((writer \/ enable) /\ check_next_hour_video_plan(tm))
        /\ since' = (enable /\ ~Disturbed) /\ misled' = Disturbed
        /\ UNCHANGED <<clock, tm, stored, plan, enable, renewed>>
    BY DEF Check
  <1>3. check_next_hour_video_plan(tm) \in BOOLEAN /\ Disturbed \in BOOLEAN
    BY DEF check_next_hour_video_plan, Disturbed, Late
  <1>4. TypeOK'
    BY <1>1, <1>2, <1>3 DEF TypeOK, clock, NextHour
  <1>5. CASE Disturbed
    BY <1>2, <1>4, <1>5 DEF IInv, WriterInPlan, PlannedIsRecorded
  <1>6. CASE ~Disturbed
    <2>1. checked /\ tm = Now
      BY <1>6 DEF Disturbed, Late, Check
    <2>2. NextHour(tm) = Coming /\ Coming \in Hours
      BY <1>1, <2>1, HourThatComes DEF TypeOK
    <2>3. check_next_hour_video_plan(tm) <=> Covers(plan, Coming)
      BY <1>1, <2>2, CheckIsCover
    <2>4. writer' = ((writer \/ enable) /\ Covers(plan, Coming))
      BY <1>2, <2>3
    <2>5. WriterInPlan' /\ PlannedIsRecorded'
      BY <1>1, <1>2, <2>1, <2>4 DEF WriterInPlan, PlannedIsRecorded, Covers, clock, Coming, HourOfWeek
    <2>6. QED
      BY <1>4, <2>5 DEF IInv
  <1>7. QED
    BY <1>5, <1>6

\* Every step keeps the invariant.
LEMMA StepInv == IInv /\ [Next]_vars => IInv'
  <1> SUFFICES ASSUME IInv, [Next]_vars PROVE IInv'
    OBVIOUS
  <1>0. TypeOK
    BY DEF IInv
  <1>1. CASE Tick
    BY <1>1, TickKeeps
  <1>2. CASE Wake
    <2>1. tm' = Now /\ Now \in Times /\ NextHour(Now) \in Hours
      BY <1>0, <1>2, HourThatComes DEF Wake, TypeOK, Now, Times
    <2>2. TypeOK'
      BY <1>0, <1>2, <2>1 DEF Wake, TypeOK, Times, NextHour
    <2>3. WriterInPlan' /\ PlannedIsRecorded'
      BY <1>2 DEF IInv, Wake, Late, WriterInPlan, PlannedIsRecorded, Covers, Coming, HourOfWeek
    <2>4. QED
      BY <2>2, <2>3 DEF IInv
  <1>3. CASE Check
    BY <1>3, CheckKeeps
  <1>4. CASE Start
    <2>1. /\ tm' = Now /\ Now \in Times /\ NextHour(Now) \in Hours
          /\ NextHour(Now) = Coming /\ Coming \in Hours
      BY <1>0, <1>4, HourThatComes DEF Start, TypeOK, Now, Times
    <2>2. check_next_hour_video_plan(Now) <=> Covers(plan, Coming)
      BY <1>0, <2>1, CheckIsCover
    <2>3. writer' = (writer \/ check_next_hour_video_plan(tm')) /\ enable' = TRUE
          /\ UNCHANGED <<clock, pc, stored, plan, since, misled, renewed>>
      BY <1>4 DEF Start
    <2>4. check_next_hour_video_plan(tm') <=> Covers(plan, Coming)
      BY <2>1, <2>2
    <2>5. writer' = (writer \/ Covers(plan, Coming))
      BY <2>3, <2>4
    <2>6. TypeOK'
      BY <1>0, <2>1, <2>3, <2>5 DEF TypeOK, Times, clock, NextHour
    <2>7. QED
      BY <2>3, <2>5, <2>6, SameHour
  <1>5. CASE Stop
    <2>1. TypeOK'
      BY <1>0, <1>5 DEF Stop, TypeOK, clock, NextHour
    <2>2. QED
      BY <1>5, <2>1, SameHour DEF Stop
  <1>6. CASE WriterEnds
    <2>1. TypeOK'
      BY <1>0, <1>6 DEF WriterEnds, TypeOK, clock, NextHour
    <2>2. QED
      BY <1>6, <2>1, SameHour DEF WriterEnds
  <1>7. CASE Restart
    <2>1. load_video_plan \in Plans \cup {Week, {}}
      BY <1>0 DEF load_video_plan, TypeOK
    <2>2. TypeOK'
      BY <1>0, <1>7, <2>1 DEF Restart, TypeOK, clock, NextHour
    <2>3. QED
      BY <1>7, <2>2 DEF Restart, IInv, WriterInPlan, PlannedIsRecorded
  <1>8. ASSUME NEW p \in Plans, NEW rest \in BOOLEAN, UpdatePlan(p, rest) PROVE IInv'
    <2>1. TypeOK'
      BY <1>0, <1>8 DEF UpdatePlan, TypeOK, clock, NextHour
    <2>2. QED
      BY <1>8, <2>1, SameHour DEF UpdatePlan
  <1>9. ASSUME NEW t \in Times, QueryTime(t) PROVE IInv'
    <2>1. NextHour(t) \in Hours /\ tm' = t
      BY <1>9, HourIsOfWeek DEF QueryTime
    <2>2. TypeOK'
      BY <1>0, <1>9, <2>1 DEF QueryTime, TypeOK, Times, clock, NextHour
    <2>3. QED
      BY <1>9, <2>2, SameHour DEF QueryTime
  <1>10. CASE UNCHANGED vars
    BY <1>10 DEF vars, IInv, TypeOK, Late, WriterInPlan, PlannedIsRecorded, Covers, Coming,
                 HourOfWeek, NextHour
  <1>11. QED
    BY <1>1, <1>2, <1>3, <1>4, <1>5, <1>6, <1>7, <1>8, <1>9, <1>10 DEF Next, Times
-------------------------------------------------------------------------------
(* The theorems.                                                           *)

\* The invariant holds in every behaviour.
THEOREM InvariantAlways == Spec => []IInv
  <1>1. IInv /\ [Next]_vars => IInv'
    BY StepInv
  <1>2. QED
    BY <1>1, InitInv, PTL DEF Spec

\* A data_writer runs only in an hour of the plan or in the hour before one,
\* but for checks that are late or were disturbed.
THEOREM WriterInPlanAlways == Spec => []WriterInPlan
  <1>1. IInv => WriterInPlan
    BY DEF IInv
  <1>2. QED
    BY <1>1, InvariantAlways, PTL

\* A camera that stays enabled after a check that was not disturbed is recorded
\* in every hour its plan covers whose check is not late.
THEOREM PlannedIsRecordedAlways == Spec => []PlannedIsRecorded
  <1>1. IInv => PlannedIsRecorded
    BY DEF IInv
  <1>2. QED
    BY <1>1, InvariantAlways, PTL
===============================================================================
