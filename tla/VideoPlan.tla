------------------------------- MODULE VideoPlan -------------------------------
(***************************************************************************)
(* The recording plan of one camera: the hours of the week in which its    *)
(* data_writer runs.  A plan is a text of six digits per span, kept in     *)
(* table device and read when the camera's object is made.  It is the set  *)
(* of its whole spans here, and whether digits are left over.  Hours are   *)
(* counted from Monday, 0 to 167.                                          *)
(*                                                                         *)
(* thread_check_video_plan decides two seconds before each hour; starting  *)
(* the camera decides at once, and for the next hour as well.  Both take   *)
(* the time from localtime, whose result every thread of the process       *)
(* shares.  The plan thread waits for m_stream_lock between localtime and  *)
(* the use of its result, as long as a login takes that holds the lock:    *)
(* others may overwrite the result meanwhile, and the hour may end.        *)
(***************************************************************************)
EXTENDS Integers

CONSTANTS
    Plans,      \* the plans that are stored: sets of spans <<sthour, ethour>>
    Queried     \* hours other threads ask localtime for (files of a query)

Hours   == 0 .. 167
Week    == {<<0, 167>>}

ASSUME VideoPlanAssumption ==
    /\ Plans \subseteq SUBSET (Hours \X Hours)
    /\ Queried \subseteq Hours

VARIABLES
    wday, hour,  \* the local time, as localtime gives it: Sunday is 0
    checked,     \* the last two seconds of the hour have come
    pc,          \* the plan thread "sleeps" or "waits" for the lock
    tm,          \* the tm_wday and tm_hour in the result of localtime
    stored,      \* video_plan of the row
    plan,        \* m_plan
    enable,      \* m_benable
    writer,      \* m_brun of the data_writer
    since,       \* enabled, and the writer never ended, since the last check
    misled,      \* the last check was disturbed
    renewed      \* updatevideoplan has succeeded since the process began

clock == <<wday, hour, checked>>
vars  == <<wday, hour, checked, pc, tm, stored, plan, enable, writer, since, misled, renewed>>

Now == [wday |-> wday, hour |-> hour]

Init ==
    /\ wday \in 0 .. 6 /\ hour \in 0 .. 23 /\ checked = FALSE
    /\ pc = "sleeps"
    /\ tm = Now
    /\ stored = [spans |-> Week, rest |-> FALSE] /\ plan = Week
    /\ enable = FALSE /\ writer = FALSE /\ since = FALSE
    /\ misled = FALSE /\ renewed = FALSE

NextHour(t) ==
    LET h == ((IF t.wday = 0 THEN 7 ELSE t.wday) - 1) * 24 + t.hour + 1
    IN IF h = 168 THEN 0 ELSE h

TypeOK ==
    /\ wday \in 0 .. 6 /\ hour \in 0 .. 23 /\ checked \in BOOLEAN
    /\ pc \in {"sleeps", "waits"}
    /\ tm \in [wday : 0 .. 6, hour : 0 .. 23]
    /\ stored \in [spans : Plans \cup {Week}, rest : BOOLEAN]
    /\ plan \in Plans \cup {Week, {}}
    /\ {enable, writer, since, misled, renewed} \subseteq BOOLEAN
    /\ NextHour(tm) \in Hours

\* Mutant: the end of a span is taken as exclusive.
check_half_open(t) == \E s \in plan : s[1] <= NextHour(t) /\ NextHour(t) < s[2]

check_next_hour_video_plan(t) ==
    \E s \in plan : s[1] <= NextHour(t) /\ NextHour(t) <= s[2]
-------------------------------------------------------------------------------
\* The hour has ended while the plan thread waits.
Late == pc = "waits" /\ ~checked

\* So that, or because the time it has taken was overwritten, the check that
\* waits does not decide by the hour that comes.
Disturbed == Late \/ (pc = "waits" /\ tm # Now)

\* The hour ends, not before its last two seconds.
Tick ==
    /\ checked \/ pc = "waits"
    /\ hour' = (hour + 1) % 24
    /\ wday' = IF hour = 23 THEN (wday + 1) % 7 ELSE wday
    /\ checked' = FALSE
    /\ UNCHANGED <<pc, tm, stored, plan, enable, writer, since, misled, renewed>>

\* thread_check_video_plan in the last two seconds of an hour: localtime.  (Its
\* first check, when the process starts, finds cameras that are not connected
\* yet or decides what their start has just decided.)
Wake ==
    /\ ~checked /\ pc = "sleeps"
    /\ checked' = TRUE
    /\ pc' = "waits"
    /\ tm' = Now
    /\ UNCHANGED <<wday, hour, stored, plan, enable, writer, since, misled, renewed>>

\* Mutant: a camera out of its plan is not stopped.
CheckStarts ==
    /\ pc = "waits"
    /\ pc' = "sleeps"
    /\ writer' = (writer \/ (enable /\ check_next_hour_video_plan(tm)))
    /\ since' = (enable /\ ~Disturbed)
    /\ misled' = Disturbed
    /\ UNCHANGED <<clock, tm, stored, plan, enable, renewed>>

\* It has the lock: start_writer, which needs m_benable, or stop_writer.
Check ==
    /\ pc = "waits"
    /\ pc' = "sleeps"
    /\ writer' = ((writer \/ enable) /\ check_next_hour_video_plan(tm))
    /\ since' = (enable /\ ~Disturbed)
    /\ misled' = Disturbed
    /\ UNCHANGED <<clock, tm, stored, plan, enable, renewed>>

\* start_video_stream and thread_reconnect, when the camera answers.
Start ==
    /\ enable' = TRUE
    /\ tm' = Now
    /\ writer' = (writer \/ check_next_hour_video_plan(tm'))
    /\ UNCHANGED <<clock, pc, stored, plan, since, misled, renewed>>

\* The camera is stopped or lost, or the data_writer ends by itself.
Stop ==
    /\ enable' = FALSE /\ writer' = FALSE /\ since' = FALSE
    /\ UNCHANGED <<clock, pc, tm, stored, plan, misled, renewed>>

WriterEnds ==
    /\ writer
    /\ writer' = FALSE /\ since' = FALSE
    /\ UNCHANGED <<clock, pc, tm, stored, plan, enable, misled, renewed>>

\* process_device, updatevideoplan: update_device_plan_sql only.  The object
\* has update_plan_by_cmd, which nothing calls.
UpdatePlan(p, rest) ==
    /\ stored' = [spans |-> p, rest |-> rest]
    /\ renewed' = TRUE
    /\ UNCHANGED <<clock, pc, tm, plan, enable, writer, since, misled>>

\* A list of recordings is written out, in another thread.
QueryTime(t) ==
    /\ NextHour(t) \in Queried
    /\ tm' = t
    /\ UNCHANGED <<clock, pc, stored, plan, enable, writer, since, misled, renewed>>

\* A text whose length is not a multiple of six has no span
load_video_plan == IF stored.rest THEN {} ELSE stored.spans

\* The process starts again: create_by_sql and load_video_plan.
Restart ==
    /\ plan' = load_video_plan
    /\ pc' = "sleeps"
    /\ enable' = FALSE /\ writer' = FALSE /\ since' = FALSE
    /\ misled' = FALSE /\ renewed' = FALSE
    /\ UNCHANGED <<clock, tm, stored>>

Next ==
    \/ Tick \/ Wake \/ Check \/ Start \/ Stop \/ WriterEnds \/ Restart
    \/ \E p \in Plans, rest \in BOOLEAN : UpdatePlan(p, rest)
    \/ \E t \in [wday : 0 .. 6, hour : 0 .. 23] : QueryTime(t)

Spec == Init /\ [][Next]_vars
-------------------------------------------------------------------------------
\* The hour of the week, counted from Monday, and whether p covers hour h.
HourOfWeek == ((wday + 6) % 7) * 24 + hour
Coming     == (HourOfWeek + 1) % 168
Covers(p, h) == \E s \in p : h \in s[1] .. s[2]

\* A data_writer runs only in an hour of the plan, or, when its camera was
\* started by a command or reconnected, in the hour before one; in the two
\* seconds after the check it runs only for the hour that comes.  This may fail
\* while a check is late, and until the next one after a check that was
\* disturbed (localtime at video_manger.cpp:688, the lock at 691).
WriterInPlan ==
    writer /\ ~Late /\ ~misled =>
        \/ Covers(plan, Coming)
        \/ (~checked \/ pc = "waits") /\ Covers(plan, HourOfWeek)

\* A camera that has been enabled, with a writer that did not end by itself,
\* since a check that was not disturbed records in every hour its plan covers,
\* the first of the week after the last one included, unless the check of the
\* hour is late.
PlannedIsRecorded ==
    since /\ ~Late =>
        /\ ~checked /\ Covers(plan, HourOfWeek) => writer
        /\ checked /\ pc = "sleeps" /\ Covers(plan, Coming) => writer

\* A plan that has been updated is in force from the next hour on
\* (http_manger.cpp:552): the check decides by the plan that is stored.
UpdatedPlanTakesEffect ==
    [][Check /\ enable /\ renewed => writer' = Covers(load_video_plan, Coming)]_vars

\* The check before an hour decides by that hour (check_next_hour_video_plan,
\* after "start to check the recording plans", video_manger.cpp:690).
ChecksTheComingHour ==
    [][Check /\ checked => NextHour(tm) = Coming]_vars
===============================================================================
