-------------------------------- MODULE Commands --------------------------------
(***************************************************************************)
(* What the requests of the HTTP server do to the NVR: the sessions that   *)
(* let them in, and the cameras that are added and deleted by command, in  *)
(* table device, among the objects of video_manger, and in the map from    *)
(* SIP ids to device ids.  What a camera does is module Devices; which of  *)
(* the two maps of video_manger has its object does not matter here.       *)
(*                                                                         *)
(* A command runs in a worker of the server.  dblock is m_db_lock where it *)
(* is held over a sleep; a step under m_stream_lock is one step.  The map  *)
(* of SIP ids is read without a lock, as one step.  Names, addresses,      *)
(* passwords, the pages and the answers are left out.                      *)
(***************************************************************************)
EXTENDS Integers, FiniteSets

CONSTANTS
    SipIds,   \* SIP ids of cameras
    Workers,  \* worker threads of the server
    Life,     \* seconds a session lasts, 1800
    MaxNow,   \* bound: seconds that pass
    MaxAdds   \* bound: rows that are ever added

ASSUME CommandsAssumption ==
    /\ "none" \notin SipIds /\ 0 \notin Workers
    /\ Life \in Nat /\ MaxNow \in Nat /\ MaxAdds \in Nat

VARIABLES
    up,       \* the process runs
    now,      \* time(NULL) + TIME_OFFSET
    idens,    \* g_idenmap: the time of login of each session
    rows,     \* table device: the SIP id of each device id, or "none"
    adds,     \* rows added since the table was made (sqlite_sequence)
    born,     \* history: which of them a device id is
    planned,  \* the rows whose video_plan was set by a command
    dblock,   \* the worker that sleeps with m_db_lock, or 0
    objects,  \* device ids with an object in a map of video_manger
    sipmap,   \* m_sip_map_id: the device id of each SIP id, or 0
    op        \* what each worker is about

table == <<rows, adds, born, planned>>
vars  == <<up, now, idens, table, dblock, objects, sipmap, op>>

Ids  == 1..MaxAdds
Idle == [do |-> "idle", id |-> 0, sip |-> "none", born |-> 0]

TypeOK ==
    /\ up \in BOOLEAN /\ now \in 0..MaxNow /\ idens \subseteq 0..MaxNow
    /\ rows \in [Ids -> SipIds \cup {"none"}] /\ adds \in 0..MaxAdds
    /\ born \in [Ids -> 0..MaxAdds] /\ planned \subseteq Ids
    /\ dblock \in Workers \cup {0}
    /\ objects \subseteq Ids /\ sipmap \in [SipIds -> Ids \cup {0}]
    /\ op \in [Workers -> [do : {"idle", "command", "row", "object", "delete", "plan", "list"},
                           id : Ids \cup {0}, sip : SipIds \cup {"none"}, born : 0..MaxAdds]]

Init ==
    /\ up = TRUE /\ now = 0 /\ idens = {}
    /\ rows = [i \in Ids |-> "none"] /\ adds = 0 /\ born = [i \in Ids |-> 0] /\ planned = {}
    /\ dblock = 0 /\ objects = {} /\ sipmap = [s \in SipIds |-> 0]
    /\ op = [w \in Workers |-> Idle]

Set(w, o) == op' = [op EXCEPT ![w] = o]

-----------------------------------------------------------------------------
\* process_login: a session of this second, which may be there already
Login(w) ==
    /\ up /\ op[w].do = "idle" /\ idens' = idens \cup {now}
    /\ UNCHANGED <<up, now, table, dblock, objects, sipmap, op>>

Expired == {k \in idens : now > k + Life}

\* Mutant: the lifetime is left out
EraseOlder == {k \in idens : k >= now}

\* The loop of process_identity over the sessions in order of time: after each
\* erase it goes back to the first and steps over it, so that the second of those
\* that are over stays
EraseExpired ==
    LET second == {k \in Expired : Cardinality({e \in Expired : e < k}) = 1}
    IN (idens \ Expired) \cup second

\* process_identity of a request that names session k
Identity(w) ==
    /\ up /\ op[w].do = "idle"
    /\ \E k \in idens :
         IF now < k + Life
         THEN idens' = EraseExpired /\ Set(w, [Idle EXCEPT !.do = "command"])
         ELSE idens' = idens \ {k} /\ UNCHANGED op
    /\ UNCHANGED <<up, now, table, dblock, objects, sipmap>>

\* event_handler: a request logs in, or has to name a session
Request(w) == Login(w) \/ Identity(w)

\* A command that is answered and leaves all this as it is
Answered(w) ==
    /\ up /\ op[w].do = "command" /\ Set(w, Idle)
    /\ UNCHANGED <<up, now, idens, table, dblock, objects, sipmap>>

\* What these do to the camera is module Devices
StartDev(w) == Answered(w)
StopDev(w)  == Answered(w)

\* Map m_sip_map_id, without a lock; 0 is no camera and no row
get_id_from_sip_id(s) == sipmap[s]

\* update_device_sql waits for m_db_lock; its text has no quotes around the values,
\* and sqlite refuses it
update_device_sql == dblock = 0 /\ UNCHANGED rows

\* updatedev: of a camera that is there it tries to change the row, and the object
\* not at all; the error is not looked at
UpdateDev(w) ==
    /\ Answered(w)
    /\ \E s \in SipIds : get_id_from_sip_id(s) \in objects => update_device_sql

\* restart, and what is no command: main is told to end, which Down does
OtherCommand(w) == Answered(w)

\* process_search knows no search; the gets that look at the system and at the
\* settings, the sets that write the file of settings, and those that do nothing
Search(w)  == Answered(w)
Get(w)     == Answered(w)
GetSip(w)  == Answered(w)
SetConf(w) == Answered(w)
SetNone(w) == Answered(w)

\* get of videotrack waits for m_db_lock; what it finds is module Tracks
GetTracks(w) == dblock = 0 /\ Answered(w)

\* servertime, and ntp_server: the clock goes anywhere
SetTime(w) ==
    /\ up /\ op[w].do = "command" /\ Set(w, Idle)
    /\ now' \in 0..MaxNow
    /\ UNCHANGED <<up, idens, table, dblock, objects, sipmap>>

\* get of devlist, on the map of the cameras without its lock: an entry, and then
\* one of those behind it
List(w) ==
    /\ up /\ op[w].do \in {"command", "list"} /\ (op[w].id = 0 \/ op[w].id \in objects)
    /\ \/ \E i \in {j \in objects : j > op[w].id} :
             Set(w, [do |-> "list", id |-> i, sip |-> "none", born |-> 0])
       \/ Set(w, Idle)
    /\ UNCHANGED <<up, now, idens, table, dblock, objects, sipmap>>

\* Its entry has been deleted: it goes on with any other, or ends (or Down)
ListDeleted(w) ==
    /\ up /\ op[w].do = "list" /\ op[w].id \notin objects
    /\ \/ \E i \in objects : Set(w, [op[w] EXCEPT !.id = i])
       \/ Set(w, Idle)
    /\ UNCHANGED <<up, now, idens, table, dblock, objects, sipmap>>

\* The rows, under m_db_lock
get_device_list_sql == {i \in Ids : rows[i] # "none"}

\* get of dev: among the rows the one of a SIP id
GetDev(w) == dblock = 0 /\ Answered(w)

-----------------------------------------------------------------------------
\* Mutant: sqlite gives the number after the highest that is in use
NextFree == CHOOSE i \in Ids : /\ \A j \in Ids : rows[j] # "none" => j < i
                              /\ (i = 1 \/ rows[i - 1] # "none")

\* AUTOINCREMENT (create_db): a number is given once
NextId == adds + 1

\* add_device_sql: the SIP id is new, a row, and a second of sleep with the lock
AddRow(w, s) ==
    /\ dblock = 0
    /\ IF \E i \in Ids : rows[i] = s
       THEN Set(w, Idle) /\ UNCHANGED <<table, dblock>>
       ELSE /\ adds < MaxAdds /\ adds' = adds + 1
            /\ rows' = [rows EXCEPT ![NextId] = s]
            /\ born' = [born EXCEPT ![NextId] = adds + 1]
            /\ dblock' = w /\ UNCHANGED planned
            /\ Set(w, [do |-> "row", id |-> NextId, sip |-> s, born |-> adds + 1])

\* adddev, up to the sleep
AddDev(w) ==
    /\ up /\ op[w].do = "command"
    /\ \E s \in SipIds : AddRow(w, s)
    /\ UNCHANGED <<up, now, idens, objects, sipmap>>

\* The row is read again for its device id
AddedRow(w) ==
    /\ up /\ op[w].do = "row" /\ dblock' = 0
    /\ Set(w, [op[w] EXCEPT !.do = "object"])
    /\ UNCHANGED <<up, now, idens, table, objects, sipmap>>

\* add_video_stream: the object, and the SIP id unless it is there
AddObject(w) ==
    /\ up /\ op[w].do = "object"
    /\ objects' = objects \cup {op[w].id}
    /\ sipmap' = [sipmap EXCEPT ![op[w].sip] = IF @ = 0 THEN op[w].id ELSE @]
    /\ Set(w, Idle)
    /\ UNCHANGED <<up, now, idens, table, dblock>>

\* deldev and updatevideoplan look the device id up before they ask for a lock
Lookup(w) ==
    /\ up /\ op[w].do = "command"
    /\ \E s \in SipIds, k \in {"delete", "plan"} :
         LET i == get_id_from_sip_id(s) IN
         IF i = 0 THEN Set(w, Idle)
         ELSE Set(w, [do |-> k, id |-> i, sip |-> s, born |-> born[i]])
    /\ UNCHANGED <<up, now, idens, table, dblock, objects, sipmap>>

\* update_device_plan_sql, whether the row is still there or not
UpdatePlan(w) ==
    /\ up /\ op[w].do = "plan" /\ dblock = 0 /\ Set(w, Idle)
    /\ planned' = planned \cup ({op[w].id} \cap get_device_list_sql)
    /\ UNCHANGED <<up, now, idens, rows, adds, born, dblock, objects, sipmap>>

\* Mutant: the SIP id of a deleted camera stays in the map
KeepSip(i) == sipmap

\* The first SIP id of this device
EraseSip(i) == [s \in SipIds |-> IF sipmap[s] = i THEN 0 ELSE sipmap[s]]

\* delete_device_sql
delete_device_sql(i) ==
    rows' = [rows EXCEPT ![i] = "none"] /\ planned' = planned \ {i}

\* delete_video_stream; it does nothing when the camera is no longer there, or when
\* its row cannot be deleted
Delete(w) ==
    /\ up /\ op[w].do = "delete" /\ dblock = 0 /\ Set(w, Idle)
    /\ LET i == op[w].id IN
       \/ /\ i \in objects
          /\ delete_device_sql(i)
          /\ objects' = objects \ {i} /\ sipmap' = EraseSip(i)
       \/ UNCHANGED <<rows, planned, objects, sipmap>>
    /\ UNCHANGED <<up, now, idens, adds, born, dblock>>

-----------------------------------------------------------------------------
Tick ==
    /\ now < MaxNow /\ now' = now + 1
    /\ UNCHANGED <<up, idens, table, dblock, objects, sipmap, op>>

\* The process ends, by command or by a crash: only the table is left
Down ==
    /\ up /\ up' = FALSE /\ idens' = {} /\ dblock' = 0 /\ objects' = {}
    /\ sipmap' = [s \in SipIds |-> 0] /\ op' = [w \in Workers |-> Idle]
    /\ UNCHANGED <<now, table>>

\* load_video_stream
Load ==
    /\ ~up /\ up' = TRUE
    /\ objects' = get_device_list_sql
    /\ sipmap' = [s \in SipIds |->
                    IF \E i \in Ids : rows[i] = s THEN CHOOSE i \in Ids : rows[i] = s ELSE 0]
    /\ UNCHANGED <<now, idens, table, dblock, op>>

Next ==
    \/ \E w \in Workers :
         \/ Request(w) \/ StartDev(w) \/ StopDev(w) \/ UpdateDev(w) \/ OtherCommand(w)
         \/ Search(w) \/ Get(w) \/ List(w) \/ ListDeleted(w) \/ GetDev(w)
         \/ GetTracks(w) \/ GetSip(w) \/ SetConf(w) \/ SetNone(w) \/ SetTime(w)
         \/ AddDev(w) \/ AddedRow(w) \/ AddObject(w)
         \/ Lookup(w) \/ UpdatePlan(w) \/ Delete(w)
    \/ Tick \/ Down \/ Load

Spec == Init /\ [][Next]_vars

-----------------------------------------------------------------------------
\* A request of another never ends a session that is not over, and a request that
\* is let in leaves at most one session behind that is (process_identity).
SessionsKept ==
    [][up' => /\ \A k \in idens : now < k + Life => k \in idens'
              /\ (\E w \in Workers : op[w].do = "idle" /\ op'[w].do = "command") =>
                    Cardinality({k \in idens' : now > k + Life}) <= 1]_<<idens, op>>

\* Every command of a client finds the camera it names, also after a crash between
\* the row and the object of a new one: when no worker is about to make its object,
\* the camera of a row has one and its SIP id leads to it, and a SIP id leads to
\* nothing else.
SipIdFindsCamera ==
    up => /\ \A i \in Ids : rows[i] # "none" =>
               \/ \E w \in Workers : op[w].do \in {"row", "object"} /\ op[w].id = i
               \/ i \in objects /\ sipmap[rows[i]] = i
          /\ \A s \in SipIds : sipmap[s] # 0 => rows[sipmap[s]] = s

\* A command that deletes a camera or gives it a recording plan never does so to
\* another one, added under the same SIP id or the same number after the command
\* looked the number up.
ActsOnItsOwn ==
    [][\A i \in Ids :
         /\ rows[i] # "none" /\ rows'[i] = "none" =>
              \E w \in Workers : op[w].do = "delete" /\ op[w].born = born[i]
         /\ i \in planned' \ planned =>
              \E w \in Workers : op[w].do = "plan" /\ op[w].born = born[i]]_table
=============================================================================
