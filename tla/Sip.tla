---------------------------------- MODULE Sip ----------------------------------
(***************************************************************************)
(* The signalling side, sip_manger: the calls SIP servers make for live    *)
(* and recorded streams and for relays of other cameras, the four maps     *)
(* that remember them, and the check for servers that fell silent.         *)
(*                                                                         *)
(* Two threads work on the maps: wait_event takes one event at a time and  *)
(* check_sip_server_alive closes the channels of a silent server, one at a *)
(* time.  The maps have no lock.  A call of close_dialog is one step here, *)
(* and an INVITE is several, since its stream takes long to end or start.  *)
(*                                                                         *)
(* video_manger is what the calls need of it: it starts a stream or not,   *)
(* and to end one it looks at the cameras that are in m_manger_map, not at *)
(* those it is calling again.                                              *)
(* Messages are left out, except what their handlers do to the maps.       *)
(***************************************************************************)
EXTENDS Integers, FiniteSets, Transit

CONSTANTS
    Calls,    \* bound: the pairs of did and cid in use at a time
    Servers,  \* SIP servers
    MaxReal   \* MAX_TRANSFER_REAL, 64

CONSTANT None

ASSUME SipAssumption ==
    /\ None \notin Calls \cup Dests \cup Servers \cup Cameras
    /\ None \notin [st : {"real", "data"}, dest : Dests] \cup Fans
    /\ None \notin [cdid : Calls, server : Servers]
    /\ None \notin [id : Calls, st : {"real", "data"}, dest : Dests,
                    from : Servers, at : {"check", "insert", "start"}]
    /\ MaxReal \in Nat

VARIABLES
    call,      \* what eXosip has of a call: none, up, over
    dialog,    \* m_dialog_map: a real or recorded stream and where it goes
    channel,   \* m_stream_channel_map: the call and server of a destination
    source,    \* m_db_source_map: the camera a call is to receive from
    target,    \* m_gb_dest_map: the camera a call is to be sent, and where
    server,    \* m_sip_server_update_map: how old the last sign of life is
    invite,    \* the INVITE in hand, and how far it is
    closing,   \* the server whose channels check_sip_server_alive closes
    sent,      \* destinations video_manger sends a live stream to
    played,    \* calls with a video_data_manger
    left,      \* destinations whose stream no camera was found to end (history)
    unnamed    \* calls answered without a dialog (history)

tables == <<dialog, channel, source, target>>
video  == <<sent, played, transit>>
hist   == <<left, unnamed>>
vars   == <<call, tables, server, invite, closing, video, hist>>

Dialogs == [st : {"real", "data"}, dest : Dests]

TypeOK ==
    /\ call \in [Calls -> {"none", "up", "over"}]
    /\ dialog \in [Calls -> Dialogs \cup {None}]
    /\ channel \in [Dests -> [cdid : Calls, server : Servers] \cup {None}]
    /\ source \in [Calls -> Cameras \cup {None}]
    /\ target \in [Calls -> Fans \cup {None}]
    /\ server \in [Servers -> {"none", "fresh", "ask", "dead"}]
    /\ invite \in {None} \cup [id : Calls, st : {"real", "data"}, dest : Dests,
                               from : Servers, at : {"check", "insert", "start"}]
    /\ closing \in Servers \cup {None}
    /\ sent \subseteq Dests /\ played \subseteq Calls /\ TransitType
    /\ left \subseteq Dests /\ unnamed \subseteq Calls

Init ==
    /\ call = [c \in Calls |-> "none"] /\ dialog = [c \in Calls |-> None]
    /\ channel = [d \in Dests |-> None]
    /\ source = [c \in Calls |-> None] /\ target = [c \in Calls |-> None]
    /\ server = [s \in Servers |-> "none"] /\ invite = None /\ closing = None
    /\ sent = {} /\ played = {} /\ TransitInit
    /\ left = {} /\ unnamed = {}

Channels == {d \in Dests : channel[d] # None}

-----------------------------------------------------------------------------
\* del_dest asks every camera of m_manger_map; one that is called again keeps d
del_dest_addr(d) ==
    \/ sent' = sent \ {d} /\ left' = left \ {d}
    \/ d \in sent /\ sent' = sent /\ left' = left \cup {d}

\* The stream of a dialog ends, live or recorded
StopStream(c, g) ==
    \/ g.st = "real" /\ del_dest_addr(g.dest) /\ UNCHANGED played
    \/ g.st = "data" /\ played' = played \ {c} /\ UNCHANGED <<sent, left>>

CloseChannels(ds) == channel' = [d \in Dests |-> IF d \in ds THEN None ELSE channel[d]]

\* Without a dialog: a target or a source, whichever the call is found as first
CloseRelay(c) ==
    /\ UNCHANGED <<channel, sent, played, left>>
    /\ target' = [target EXCEPT ![c] = None]
    /\ source' = IF target[c] = None THEN [source EXCEPT ![c] = None] ELSE source
    /\ CASE target[c] # None -> del_transit_dest(target[c].cam, target[c].dest)
         [] target[c] = None /\ source[c] # None -> del_transit_reciver(source[c])
         [] OTHER -> UNCHANGED transit

\* Mutant: the stream goes on when its dialog is closed
CloseKeepsStream(c) ==
    LET g == dialog[c] IN
    /\ dialog' = [dialog EXCEPT ![c] = None]
    /\ CloseChannels(IF g = None THEN {} ELSE {g.dest})
    /\ UNCHANGED <<sent, played, left, target, source, transit>>

\* Mutant: the channel stays when its dialog is closed
CloseKeepsChannel(c) ==
    LET g == dialog[c] IN
    /\ dialog' = [dialog EXCEPT ![c] = None]
    /\ IF g = None THEN UNCHANGED <<sent, played, left>> ELSE StopStream(c, g)
    /\ UNCHANGED <<channel, target, source, transit>>

\* close_dialog
Close(c) ==
    LET g == dialog[c] IN
    /\ dialog' = [dialog EXCEPT ![c] = None]
    /\ \/ /\ g # None /\ StopStream(c, g) /\ CloseChannels({g.dest})
          /\ UNCHANGED <<target, source, transit>>
       \/ g = None /\ CloseRelay(c)

-----------------------------------------------------------------------------
\* The answer to an INVITE: 200 with a port, and 500 without
Answer(c, port) == call' = [call EXCEPT ![c] = IF port THEN "up" ELSE "over"]

\* The next event is taken when the last is done
Idle == invite = None

\* INVITE: the server's time is set only if it has none yet
TakeInvite(c, st, d, s) ==
    /\ Idle /\ closing = None /\ call[c] = "none"
    /\ server' = [server EXCEPT ![s] = IF @ = "none" THEN "fresh" ELSE @]
    /\ invite' = [id |-> c, st |-> st, dest |-> d, from |-> s, at |-> "check"]
    /\ UNCHANGED <<call, tables, closing, video, hist>>

\* The camera is unknown: only the server is noted, and the call refused
RefuseInvite(s) ==
    /\ Idle /\ closing = None /\ server[s] = "none"
    /\ server' = [server EXCEPT ![s] = "fresh"]
    /\ UNCHANGED <<call, tables, invite, closing, video, hist>>

\* The destination has a channel: the dialog of it is closed, and if the new
\* stream is live its call is ended; if it is recorded it gets no channel
EndPrevious ==
    /\ invite # None /\ invite.at = "check" /\ channel[invite.dest] # None
    /\ LET old == channel[invite.dest].cdid IN
         /\ Close(old)
         /\ call' = IF invite.st = "real" /\ old # invite.id
                    THEN [call EXCEPT ![old] = "over"] ELSE call
    /\ invite' = [invite EXCEPT !.at = IF invite.st = "real" THEN "insert" ELSE "start"]
    /\ UNCHANGED <<server, closing, unnamed>>

NoPrevious ==
    /\ invite # None /\ invite.at = "check" /\ channel[invite.dest] = None
    /\ invite' = [invite EXCEPT !.at = "insert"]
    /\ UNCHANGED <<call, tables, server, closing, video, hist>>

\* The channel, kept as it is if there still is one, before the stream
Insert ==
    /\ invite # None /\ invite.at = "insert"
    /\ invite.st = "real" => Cardinality(Channels) < MaxReal
    /\ channel' = [channel EXCEPT ![invite.dest] =
                     IF @ = None THEN [cdid |-> invite.id, server |-> invite.from] ELSE @]
    /\ invite' = [invite EXCEPT !.at = "start"]
    /\ UNCHANGED <<call, dialog, source, target, server, closing, video, hist>>

Enter == [dialog EXCEPT ![invite.id] = [st |-> invite.st, dest |-> invite.dest]]

\* At the limit there is a dialog, if the source parsed, no stream, and the call is
\* refused
AtLimit ==
    /\ invite # None /\ invite.at = "insert" /\ invite.st = "real"
    /\ Cardinality(Channels) >= MaxReal
    /\ dialog' \in {Enter, dialog} /\ invite' = None
    /\ Answer(invite.id, FALSE)
    /\ UNCHANGED <<channel, source, target, server, closing, video, hist>>

\* add_dest or add_video_data_stream gave a port.  A recorded stream is started
\* also if its source did not parse, and then has no dialog
Accept ==
    /\ invite # None /\ invite.at = "start"
    /\ invite' = None /\ Answer(invite.id, TRUE)
    /\ \/ /\ invite.st = "real" /\ dialog' = Enter
          /\ sent' = sent \cup {invite.dest} /\ left' = left \ {invite.dest}
          /\ UNCHANGED <<played, unnamed>>
       \/ /\ invite.st = "data" /\ played' = played \cup {invite.id}
          /\ \/ dialog' = Enter /\ UNCHANGED unnamed
             \/ UNCHANGED dialog /\ unnamed' = unnamed \cup {invite.id}
          /\ UNCHANGED <<sent, left>>
    /\ UNCHANGED <<channel, source, target, server, closing, transit>>

\* It did not: 500.  A dialog is entered for a recorded stream all the same, if its
\* source parsed
Refuse ==
    /\ invite # None /\ invite.at = "start"
    /\ dialog' \in IF invite.st = "data" THEN {Enter, dialog} ELSE {dialog}
    /\ invite' = None /\ Answer(invite.id, FALSE)
    /\ UNCHANGED <<channel, source, target, server, closing, video, hist>>

\* The first INVITE of a relay, without SDP: a call to receive from the camera,
\* kept whether there is a port for it or not
InviteSource(c, g, s) ==
    /\ Idle /\ closing = None /\ call[c] = "none"
    /\ server' = [server EXCEPT ![s] = IF @ = "none" THEN "fresh" ELSE @]
    /\ source' = [source EXCEPT ![c] = g]
    /\ \E port \in BOOLEAN : add_transit_reciver(g, port) /\ Answer(c, port)
    /\ UNCHANGED <<dialog, channel, target, invite, closing, sent, played, hist>>

\* The second: a camera that is a source is sent on
InviteTarget(c, g, d, s) ==
    /\ Idle /\ closing = None /\ call[c] = "none" /\ \E b \in Calls : source[b] = g
    /\ server' = [server EXCEPT ![s] = IF @ = "none" THEN "fresh" ELSE @]
    /\ target' = [target EXCEPT ![c] = [cam |-> g, dest |-> d]]
    /\ \E port \in BOOLEAN : add_transit_dest(g, d, port) /\ Answer(c, port)
    /\ UNCHANGED <<dialog, channel, source, invite, closing, sent, played, hist>>

Bye(c) ==
    /\ Idle /\ call[c] = "up" /\ call' = [call EXCEPT ![c] = "over"]
    /\ Close(c)
    /\ UNCHANGED <<server, invite, closing, unnamed>>

\* An INFO within a call; PLAY and PAUSE change nothing here (Playback has them)
Info(c) == Idle /\ call[c] = "up"

\* INFO with TEARDOWN: the recorded stream ends and its dialog stays
Teardown(c) ==
    /\ Info(c) /\ c \in played /\ played' = played \ {c}
    /\ UNCHANGED <<call, tables, server, invite, closing, sent, transit, hist>>

\* The time of a server that is known
Refresh(s) ==
    /\ closing = None /\ server[s] # "none"
    /\ server' = [server EXCEPT ![s] = "fresh"]
    /\ UNCHANGED <<call, tables, invite, closing, video, hist>>

\* process_message: a Keepalive.  What it answers to a query changes nothing
Keepalive(s) == Idle /\ Refresh(s)

\* The answer to a message of check_sip_server_alive
Answered(s) == Idle /\ Refresh(s)

\* The pair of did and cid is given to another call when nothing is left of it
Forget(c) ==
    /\ call[c] = "over" /\ dialog[c] = None /\ source[c] = None /\ target[c] = None
    /\ c \notin played /\ \A d \in Channels : channel[d].cdid # c
    /\ call' = [call EXCEPT ![c] = "none"] /\ unnamed' = unnamed \ {c}
    /\ UNCHANGED <<tables, server, invite, closing, video, left>>

-----------------------------------------------------------------------------
\* More than 180 s and 200 s without a sign of life
Silence(s) ==
    /\ \/ server[s] = "fresh" /\ server' = [server EXCEPT ![s] = "ask"]
       \/ server[s] = "ask" /\ server' = [server EXCEPT ![s] = "dead"]
    /\ UNCHANGED <<call, tables, invite, closing, video, hist>>

\* check_sip_server_alive, with the lock of the servers from here to CheckDone
CheckServer(s) ==
    /\ closing = None /\ server[s] = "dead" /\ closing' = s
    /\ UNCHANGED <<call, tables, server, invite, video, hist>>

OfServer(s) == {d \in Channels : channel[d].server = s}

\* close_all_on_sip_server, one channel; the call itself is left as it is
CloseChannel(d) ==
    /\ closing # None /\ d \in OfServer(closing)
    /\ dialog[channel[d].cdid] # None /\ Close(channel[d].cdid)
    /\ UNCHANGED <<call, server, invite, closing, unnamed>>

\* Mutant: a channel that no dialog closes does not end the search
CheckGoesOn ==
    /\ closing # None /\ OfServer(closing) = {}
    /\ server' = [server EXCEPT ![closing] = "none"] /\ closing' = None
    /\ UNCHANGED <<call, tables, invite, video, hist>>

\* No channel of it is left, or one that no dialog closes ends the search; the
\* server is forgotten either way
CheckDone ==
    /\ closing # None
    /\ \/ OfServer(closing) = {}
       \/ \E d \in OfServer(closing) : dialog[channel[d].cdid] = None
    /\ server' = [server EXCEPT ![closing] = "none"] /\ closing' = None
    /\ UNCHANGED <<call, tables, invite, video, hist>>

\* A receive or send thread of a relay
Relay ==
    /\ TransitStep
    /\ UNCHANGED <<call, tables, server, invite, closing, sent, played, hist>>

Next ==
    \/ \E c \in Calls, st \in {"real", "data"}, d \in Dests, s \in Servers :
          TakeInvite(c, st, d, s)
    \/ \E s \in Servers : RefuseInvite(s) \/ Keepalive(s) \/ Answered(s) \/ Silence(s) \/ CheckServer(s)
    \/ EndPrevious \/ NoPrevious \/ Insert \/ AtLimit \/ Accept \/ Refuse
    \/ \E c \in Calls, g \in Cameras, s \in Servers :
          InviteSource(c, g, s) \/ \E d \in Dests : InviteTarget(c, g, d, s)
    \/ \E c \in Calls : Bye(c) \/ Teardown(c) \/ Forget(c)
    \/ \E d \in Dests : CloseChannel(d)
    \/ CheckDone
    \/ Relay

\* check_sip_server_alive goes on with the server it has begun to close
Spec ==
    /\ Init /\ [][Next]_vars
    /\ WF_vars(\E d \in Dests : CloseChannel(d)) /\ WF_vars(CheckDone)

-----------------------------------------------------------------------------
\* A stream that is sent, played or relayed has a dialog, so that a BYE can end it:
\* in whatever order calls replace one another at a destination, are refused, torn
\* down, or closed for a silent server (process_invite, close_dialog); except a live
\* stream whose camera was being called again when its dialog was closed, and a
\* recorded one whose source does not parse.
StreamHasDialog ==
    /\ \A d \in sent \ left : \E c \in Calls : dialog[c] = [st |-> "real", dest |-> d]
    /\ \A c \in played \ unnamed : dialog[c] # None /\ dialog[c].st = "data"
    /\ \A g \in Cameras : relay[g] # "none" => \E c \in Calls : source[c] = g
    /\ \A f \in Fanned : \E c \in Calls : target[c] = f

\* A channel leads to the dialog of its destination, or the INVITE it was
\* entered for is in hand or was refused: closing the channels of a server never
\* ends another destination's stream; except that the channel of a call that was
\* answered without a dialog leads to none.
ChannelHasOwner ==
    \A d \in Channels :
        LET c == channel[d].cdid IN
            \/ dialog[c] # None /\ dialog[c].dest = d
            \/ invite # None /\ invite.id = c
            \/ dialog[c] = None /\ (call[c] # "up" \/ c \in unnamed)

\* process_invite answers 200 with the port of a stream (sip_manger.cpp:310), and
\* del_dest of a BYE returns true (video_manger.cpp:447): a stream that was answered
\* has a dialog, and one whose dialog was closed has ended.
EveryStreamHasDialog ==
    /\ \A d \in sent : \E c \in Calls : dialog[c] = [st |-> "real", dest |-> d]
    /\ \A c \in played : dialog[c] # None

\* A destination that is sent a live stream is not added to video_manger again
\* while it is: the search for its channel finds the dialog to end
\* (sip_manger.cpp:168).
AddedOnce == [][\A d \in sent : invite # None /\ invite.dest = d => ~(Accept /\ invite.st = "real")]_vars

\* Closing the channels of a silent server ends, and with it the wait of every
\* INVITE and Keepalive for m_sip_server_lock, also when a channel has no dialog
\* that would take it away (close_all_on_sip_server).
CheckEnds == (closing # None) ~> (closing = None)
=============================================================================
