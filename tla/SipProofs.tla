--------------------------------- MODULE SipProofs -----------------------------
(***************************************************************************)
(* Proofs about Sip and the relays of Transit, for any calls, addresses,   *)
(* servers and cameras and any limit of live streams.                      *)
(*                                                                         *)
(* A stream keeps its dialog because nothing is entered twice: whatever is *)
(* entered is entered under a pair of did and cid that is in no map yet    *)
(* (NewIsBlank), the INVITE in hand is of such a pair (InviteIsNew), and   *)
(* the only channel of such a pair is the one that INVITE entered          *)
(* (ChannelOfNew).                                                         *)
(***************************************************************************)
EXTENDS Sip, TLAPS

\* A call eXosip has nothing of is in none of the maps.
NewIsBlank ==
    \A c \in Calls : call[c] = "none" =>
        dialog[c] = None /\ source[c] = None /\ target[c] = None

\* The call of the INVITE in hand is not answered yet.
InviteIsNew == invite # None => call[invite.id] = "none"

\* A channel of a call that is not answered is the channel its INVITE asked for.
ChannelOfNew ==
    \A d \in Channels : call[channel[d].cdid] = "none" =>
        invite # None /\ invite.id = channel[d].cdid /\ invite.dest = d

\* The four parts of StreamHasDialog: live and recorded streams, relays, and
\* the addresses they are sent to.
SentHasDialog ==
    \A d \in sent \ left : \E c \in Calls : dialog[c] = [st |-> "real", dest |-> d]
PlayedHasDialog ==
    \A c \in played \ unnamed : dialog[c] # None /\ dialog[c].st = "data"
RelayHasSource == \A g \in Cameras : relay[g] # "none" => \E c \in Calls : source[c] = g
FanHasTarget ==
    \A g \in Cameras, d \in Dests : fan[g][d] # "none" =>
        \E c \in Calls : target[c] = [cam |-> g, dest |-> d]

Safe ==
    /\ NewIsBlank /\ InviteIsNew /\ ChannelOfNew
    /\ SentHasDialog /\ PlayedHasDialog /\ RelayHasSource /\ FanHasTarget
    /\ ChannelHasOwner

IInv == TypeOK /\ Safe

\* The four parts say what the whole does.
LEMMA StreamParts ==
    SentHasDialog /\ PlayedHasDialog /\ RelayHasSource /\ FanHasTarget => StreamHasDialog
  <1> SUFFICES ASSUME SentHasDialog, PlayedHasDialog, RelayHasSource, FanHasTarget,
                      NEW f \in Fanned
               PROVE  \E c \in Calls : target[c] = f
    BY DEF StreamHasDialog, SentHasDialog, PlayedHasDialog, RelayHasSource
  <1>1. PICK g \in Cameras, d \in Dests : f = [cam |-> g, dest |-> d]
    BY DEF Fanned, Fans
  <1>2. fan[g][d] # "none"
    BY <1>1 DEF Fanned
  <1>3. QED
    BY <1>1, <1>2 DEF FanHasTarget
-------------------------------------------------------------------------------
(* The operations of the relays.                                           *)

\* A camera is received from or not, and nobody is sent more than before.
LEMMA ReceiverAdded ==
    ASSUME TransitType, NEW g \in Cameras, NEW port \in BOOLEAN,
           add_transit_reciver(g, port)
    PROVE  /\ TransitType'
           /\ \A h \in Cameras : relay'[h] # "none" => relay[h] # "none" \/ h = g
           /\ \A h \in Cameras, d \in Dests : fan'[h][d] # "none" => fan[h][d] # "none"
  <1>1. CASE Create(g, port)
    BY <1>1 DEF Create, NoFan, TransitType
  <1>2. CASE UNCHANGED transit
    BY <1>2 DEF transit, TransitType
  <1>3. QED
    BY <1>1, <1>2 DEF add_transit_reciver

\* One address more is sent to, at most.
LEMMA DestAdded ==
    ASSUME TransitType, NEW g \in Cameras, NEW d \in Dests, NEW port \in BOOLEAN,
           add_transit_dest(g, d, port)
    PROVE  /\ TransitType' /\ relay' = relay
           /\ \A h \in Cameras, e \in Dests :
                 fan'[h][e] # "none" => fan[h][e] # "none" \/ (h = g /\ e = d)
  BY DEF add_transit_dest, add_dest, TransitType

\* A relay is deleted with what it sends.
LEMMA ReceiverDeleted ==
    ASSUME TransitType, NEW g \in Cameras, del_transit_reciver(g)
    PROVE  /\ TransitType' /\ relay'[g] = "none"
           /\ \A h \in Cameras : relay'[h] # "none" => relay[h] # "none"
           /\ \A h \in Cameras, d \in Dests : fan'[h][d] # "none" => fan[h][d] # "none"
  BY DEF del_transit_reciver, NoFan, TransitType

\* One address less is sent to.
LEMMA DestDeleted ==
    ASSUME TransitType, NEW g \in Cameras, NEW d \in Dests, del_transit_dest(g, d)
    PROVE  /\ TransitType' /\ relay' = relay /\ fan'[g][d] = "none"
           /\ \A h \in Cameras, e \in Dests : fan'[h][e] # "none" => fan[h][e] # "none"
  BY DEF del_transit_dest, del_dest, TransitType

\* The threads of the relays begin nothing.
LEMMA ThreadsBeginNothing ==
    ASSUME TransitType, TransitStep
    PROVE  /\ TransitType'
           /\ \A h \in Cameras : relay'[h] # "none" => relay[h] # "none"
           /\ \A h \in Cameras, d \in Dests : fan'[h][d] # "none" => fan[h][d] # "none"
  <1>1. PICK g \in Cameras :
           TimesOut(g) \/ Ends(g) \/ \E d \in Dests : SenderGivesUp(g, d)
    BY DEF TransitStep
  <1>2. CASE TimesOut(g)
    BY <1>2 DEF TimesOut, NoFan, TransitType
  <1>3. CASE Ends(g)
    BY <1>3 DEF Ends, TransitType
  <1>4. ASSUME NEW d \in Dests, SenderGivesUp(g, d)
        PROVE  /\ TransitType' /\ relay' = relay
               /\ \A h \in Cameras, e \in Dests : fan'[h][e] # "none" => fan[h][e] # "none"
    BY <1>4 DEF SenderGivesUp, TransitType
  <1>5. QED
    BY <1>1, <1>2, <1>3, <1>4
-------------------------------------------------------------------------------
(* close_dialog.                                                           *)

\* What it takes from the relays is what it takes from the maps.
LEMMA ClosedRelay ==
    ASSUME TypeOK, NEW c \in Calls, Close(c)
    PROVE  /\ TransitType'
           /\ \A h \in Cameras : relay'[h] # "none" => relay[h] # "none"
           /\ \A h \in Cameras, d \in Dests : fan'[h][d] # "none" => fan[h][d] # "none"
           /\ dialog[c] = None /\ target[c] # None =>
                 fan'[target[c].cam][target[c].dest] = "none"
           /\ dialog[c] = None /\ target[c] = None /\ source[c] # None =>
                 relay'[source[c]] = "none"
  <1> USE SipAssumption
  <1>0. TransitType
    BY DEF TypeOK
  <1>1. CASE dialog[c] # None
    <2>1. UNCHANGED transit
      BY <1>1 DEF Close, CloseRelay
    <2>2. QED
      BY <1>0, <1>1, <2>1 DEF transit, TransitType
  <1>2. CASE dialog[c] = None /\ target[c] # None
    <2>1. target[c].cam \in Cameras /\ target[c].dest \in Dests
      BY <1>2 DEF TypeOK, Fans
    <2>2. del_transit_dest(target[c].cam, target[c].dest)
      BY <1>2 DEF Close, CloseRelay
    <2>3. QED
      BY <1>0, <1>2, <2>1, <2>2, DestDeleted
  <1>3. CASE dialog[c] = None /\ target[c] = None /\ source[c] # None
    <2>1. source[c] \in Cameras
      BY <1>3 DEF TypeOK
    <2>2. del_transit_reciver(source[c])
      BY <1>3 DEF Close, CloseRelay
    <2>3. QED
      BY <1>0, <1>3, <2>1, <2>2, ReceiverDeleted
  <1>4. CASE dialog[c] = None /\ target[c] = None /\ source[c] = None
    <2>1. UNCHANGED transit
      BY <1>4 DEF Close, CloseRelay
    <2>2. QED
      BY <1>0, <1>4, <2>1 DEF transit, TransitType
  <1>5. QED
    BY <1>1, <1>2, <1>3, <1>4

\* It keeps the types of what it changes.
LEMMA ClosedType ==
    ASSUME TypeOK, NEW c \in Calls, Close(c)
    PROVE  /\ dialog' \in [Calls -> Dialogs \cup {None}]
           /\ channel' \in [Dests -> [cdid : Calls, server : Servers] \cup {None}]
           /\ source' \in [Calls -> Cameras \cup {None}]
           /\ target' \in [Calls -> Fans \cup {None}]
           /\ sent' \subseteq Dests /\ left' \subseteq Dests /\ played' \subseteq Calls
           /\ TransitType'
  <1>1. TransitType'
    BY ClosedRelay
  <1>2. dialog' \in [Calls -> Dialogs \cup {None}]
    BY DEF Close, TypeOK
  <1>3. ASSUME dialog[c] # None, StopStream(c, dialog[c]), CloseChannels({dialog[c].dest}),
               UNCHANGED <<target, source, transit>>
        PROVE  /\ channel' \in [Dests -> [cdid : Calls, server : Servers] \cup {None}]
               /\ source' \in [Calls -> Cameras \cup {None}]
               /\ target' \in [Calls -> Fans \cup {None}]
               /\ sent' \subseteq Dests /\ left' \subseteq Dests /\ played' \subseteq Calls
    <2>1. dialog[c].dest \in Dests
      BY <1>3 DEF TypeOK, Dialogs
    <2>2. sent' \subseteq Dests /\ left' \subseteq Dests /\ played' \subseteq Calls
      BY <1>3, <2>1 DEF StopStream, del_dest_addr, TypeOK
    <2>3. QED
      BY <1>3, <2>2 DEF CloseChannels, TypeOK
  <1>4. CASE CloseRelay(c)
    BY <1>1, <1>2, <1>4 DEF CloseRelay, TypeOK
  <1>5. QED
    BY <1>1, <1>2, <1>3, <1>4 DEF Close

\* It ends the streams whose dialog it takes, and no others.
LEMMA ClosedStreams ==
    ASSUME TypeOK, Safe, NEW c \in Calls, Close(c), unnamed' = unnamed
    PROVE  SentHasDialog' /\ PlayedHasDialog' /\ RelayHasSource' /\ FanHasTarget'
  <1> USE SipAssumption
  <1>0. /\ \A b \in Calls : dialog'[b] = IF b = c THEN None ELSE dialog[b]
        /\ dialog[c] # None => dialog[c].st \in {"real", "data"} /\ dialog[c].dest \in Dests
    BY DEF Close, TypeOK, Dialogs
  <1>1. SentHasDialog'
    <2>1. ASSUME NEW d \in sent' \ left'
          PROVE  \E b \in Calls : dialog'[b] = [st |-> "real", dest |-> d]
      <3>1. /\ d \in sent \ left
            /\ dialog[c] # None /\ dialog[c].st = "real" => d # dialog[c].dest
        BY <2>1 DEF Close, CloseRelay, StopStream, del_dest_addr
      <3>2. PICK b \in Calls : dialog[b] = [st |-> "real", dest |-> d]
        BY <3>1 DEF Safe, SentHasDialog
      <3>3. dialog[b].st = "real" /\ dialog[b].dest = d /\ d \in Dests
        BY <3>1, <3>2 DEF TypeOK
      <3>4. dialog[b] # None
        <4>1. [st |-> "real", dest |-> d] \in [st : {"real", "data"}, dest : Dests]
          BY <3>3
        <4>2. QED
          BY <3>2, <4>1
      <3>5. b # c
        BY <3>1, <3>3, <3>4
      <3>6. QED
        BY <1>0, <3>2, <3>5
    <2>2. QED
      BY <2>1 DEF SentHasDialog
  <1>2. PlayedHasDialog'
    <2>1. \A b \in played' \ unnamed' : b \in played \ unnamed /\ b \in Calls /\ b # c
      BY DEF Close, CloseRelay, StopStream, Safe, PlayedHasDialog, TypeOK
    <2>2. QED
      BY <1>0, <2>1 DEF Safe, PlayedHasDialog
  <1>3. RelayHasSource'
    <2>1. ASSUME NEW g \in Cameras, relay'[g] # "none"
          PROVE  \E b \in Calls : source'[b] = g
      <3>1. relay[g] # "none"
        BY <2>1, ClosedRelay
      <3>2. PICK b \in Calls : source[b] = g
        BY <3>1 DEF Safe, RelayHasSource
      <3>3. CASE dialog[c] = None /\ target[c] = None
        <4>1. b # c
          BY <2>1, <3>2, <3>3, ClosedRelay
        <4>2. source' = [source EXCEPT ![c] = None]
          BY <3>3 DEF Close, CloseRelay
        <4>3. QED
          BY <3>2, <4>1, <4>2 DEF TypeOK
      <3>4. CASE ~(dialog[c] = None /\ target[c] = None)
        BY <3>2, <3>4, SipAssumption DEF Close, CloseRelay, TypeOK
      <3>5. QED
        BY <3>3, <3>4
    <2>2. QED
      BY <2>1 DEF RelayHasSource
  <1>4. FanHasTarget'
    <2>1. ASSUME NEW g \in Cameras, NEW d \in Dests, fan'[g][d] # "none"
          PROVE  \E b \in Calls : target'[b] = [cam |-> g, dest |-> d]
      <3> DEFINE f == [cam |-> g, dest |-> d]
      <3>1. fan[g][d] # "none"
        BY <2>1, ClosedRelay
      <3>2. PICK b \in Calls : target[b] = f
        BY <3>1 DEF Safe, FanHasTarget
      <3>3. f \in Fans /\ f.cam = g /\ f.dest = d
        BY DEF Fans
      <3> HIDE DEF f
      <3>4. CASE dialog[c] = None
        <4>1. b # c
          BY <2>1, <3>2, <3>3, <3>4, ClosedRelay
        <4>2. target' = [target EXCEPT ![c] = None]
          BY <3>4 DEF Close, CloseRelay
        <4>3. target'[b] = f
          BY <3>2, <4>1, <4>2 DEF TypeOK
        <4>4. QED
          BY <4>3 DEF f
      <3>5. CASE dialog[c] # None
        <4>1. target'[b] = f
          BY <3>2, <3>5 DEF Close, CloseRelay
        <4>2. QED
          BY <4>1 DEF f
      <3>6. QED
        BY <3>4, <3>5
    <2>2. QED
      BY <2>1 DEF FanHasTarget
  <1>5. QED
    BY <1>1, <1>2, <1>3, <1>4

\* No call gets into a map, and no channel but those of the destination it
\* closes is left without the dialog it leads to.
LEMMA ClosedMaps ==
    ASSUME TypeOK, Safe, NEW c \in Calls, Close(c)
    PROVE  /\ \A b \in Calls : /\ dialog[b] = None => dialog'[b] = None
                               /\ source[b] = None => source'[b] = None
                               /\ target[b] = None => target'[b] = None
           /\ \A d \in Dests : channel'[d] # None => channel'[d] = channel[d]
           /\ \A d \in Channels' :
                 LET b == channel[d].cdid IN
                     \/ dialog'[b] # None /\ dialog'[b].dest = d
                     \/ invite # None /\ invite.id = b
                     \/ dialog'[b] = None /\ (call[b] # "up" \/ b \in unnamed)
  <1>1. /\ \A b \in Calls : dialog'[b] = IF b = c THEN None ELSE dialog[b]
        /\ \A b \in Calls : source[b] = None => source'[b] = None
        /\ \A b \in Calls : target[b] = None => target'[b] = None
    BY DEF Close, CloseRelay, TypeOK
  <1>2. \A d \in Dests : /\ channel'[d] # None => channel'[d] = channel[d]
                         /\ channel'[d] # None => dialog[c] = None \/ d # dialog[c].dest
    BY DEF Close, CloseRelay, CloseChannels
  <1>3. ASSUME NEW d \in Channels'
        PROVE  LET b == channel[d].cdid IN
                   \/ dialog'[b] # None /\ dialog'[b].dest = d
                   \/ invite # None /\ invite.id = b
                   \/ dialog'[b] = None /\ (call[b] # "up" \/ b \in unnamed)
    <2>1. d \in Dests /\ d \in Channels /\ (dialog[c] = None \/ d # dialog[c].dest)
      BY <1>2, <1>3 DEF Channels
    <2>2. channel[d].cdid \in Calls
      BY <2>1 DEF TypeOK, Channels
    <2>3. QED
      BY <1>1, <2>1, <2>2 DEF Safe, ChannelHasOwner
  <1>4. QED
    BY <1>1, <1>2, <1>3
-------------------------------------------------------------------------------
(* Type correctness.                                                       *)

\* The first state is typed.
LEMMA InitTypeOK == Init => TypeOK
  <1>1. Init => TransitType
    BY DEF Init, TransitInit, TransitType, NoFan
  <1>2. Init => /\ call \in [Calls -> {"none", "up", "over"}]
                /\ dialog \in [Calls -> Dialogs \cup {None}]
                /\ channel \in [Dests -> [cdid : Calls, server : Servers] \cup {None}]
                /\ source \in [Calls -> Cameras \cup {None}]
                /\ target \in [Calls -> Fans \cup {None}]
                /\ server \in [Servers -> {"none", "fresh", "ask", "dead"}]
    BY DEF Init
  <1>3. QED
    BY <1>1, <1>2 DEF Init, TypeOK

\* A step that ends the INVITE in hand: what it enters and answers is typed.
LEMMA EndsInvite ==
    ASSUME TypeOK, invite # None
    PROVE  /\ invite.id \in Calls /\ invite.dest \in Dests /\ invite.from \in Servers
           /\ invite.st \in {"real", "data"}
           /\ Enter \in [Calls -> Dialogs \cup {None}]
           /\ \A port \in BOOLEAN : Answer(invite.id, port) =>
                 call' \in [Calls -> {"none", "up", "over"}]
  <1>1. /\ invite.id \in Calls /\ invite.dest \in Dests /\ invite.from \in Servers
        /\ invite.st \in {"real", "data"}
    BY DEF TypeOK
  <1>2. [st |-> invite.st, dest |-> invite.dest] \in Dialogs
    BY <1>1 DEF Dialogs
  <1>3. QED
    BY <1>1, <1>2 DEF TypeOK, Enter, Answer

\* The steps of the event thread that end no call.
Quiet ==
    \/ \E s \in Servers : RefuseInvite(s) \/ Keepalive(s) \/ Answered(s) \/ Silence(s) \/ CheckServer(s)
    \/ \E c \in Calls : Teardown(c)
    \/ CheckDone

\* What they leave: the calls and the maps, but for the streams that end.
LEMMA QuietLeaves ==
    ASSUME TypeOK, Quiet
    PROVE  UNCHANGED <<call, tables, invite, sent, transit, hist>> /\ played' \subseteq played
  BY DEF Quiet, RefuseInvite, Keepalive, Answered, Refresh, Silence, CheckServer, Teardown, CheckDone,
         video, hist

\* Every step keeps the types.
LEMMA StepType == TypeOK /\ [Next]_vars => TypeOK'
  <1> SUFFICES ASSUME TypeOK, [Next]_vars PROVE TypeOK'
    OBVIOUS
  <1> USE SipAssumption DEF tables, video, hist
  <1>1. CASE Quiet
    <2>1. /\ server' \in [Servers -> {"none", "fresh", "ask", "dead"}]
          /\ closing' \in Servers \cup {None}
      BY <1>1 DEF Quiet, RefuseInvite, Keepalive, Answered, Refresh, Silence, CheckServer, Teardown,
                  CheckDone, TypeOK
    <2>2. QED
      BY <1>1, <2>1, QuietLeaves DEF TypeOK, TransitType, transit
  <1>2. ASSUME NEW c \in Calls, NEW st \in {"real", "data"}, NEW d \in Dests, NEW s \in Servers,
               TakeInvite(c, st, d, s)
        PROVE  TypeOK'
    BY <1>2 DEF TakeInvite, TypeOK, TransitType, transit
  <1>3. CASE EndPrevious
    <2>1. invite.dest \in Dests /\ channel[invite.dest] # None
      BY <1>3, EndsInvite DEF EndPrevious
    <2> DEFINE old == channel[invite.dest].cdid
    <2>2. old \in Calls
      BY <2>1 DEF TypeOK
    <2>3. Close(old)
      BY <1>3 DEF EndPrevious
    <2>4. /\ dialog' \in [Calls -> Dialogs \cup {None}]
          /\ channel' \in [Dests -> [cdid : Calls, server : Servers] \cup {None}]
          /\ source' \in [Calls -> Cameras \cup {None}]
          /\ target' \in [Calls -> Fans \cup {None}]
          /\ sent' \subseteq Dests /\ left' \subseteq Dests /\ played' \subseteq Calls
          /\ TransitType'
      BY <2>2, <2>3, ClosedType
    <2>5. /\ call' \in [Calls -> {"none", "up", "over"}]
          /\ invite' \in {None} \cup [id : Calls, st : {"real", "data"}, dest : Dests,
                               from : Servers, at : {"check", "insert", "start"}]
      BY <1>3 DEF EndPrevious, TypeOK
    <2>6. UNCHANGED <<server, closing, unnamed>>
      BY <1>3 DEF EndPrevious
    <2>7. QED
      BY <2>4, <2>5, <2>6 DEF TypeOK
  <1>4. CASE NoPrevious
    BY <1>4 DEF NoPrevious, TypeOK, TransitType, transit
  <1>5. CASE Insert
    <2>1. /\ channel' \in [Dests -> [cdid : Calls, server : Servers] \cup {None}]
          /\ invite' \in {None} \cup [id : Calls, st : {"real", "data"}, dest : Dests,
                               from : Servers, at : {"check", "insert", "start"}]
      BY <1>5, EndsInvite DEF Insert, TypeOK
    <2>2. QED
      BY <1>5, <2>1 DEF Insert, TypeOK, TransitType, transit
  <1>6. CASE AtLimit
    BY <1>6, EndsInvite DEF AtLimit, TypeOK, TransitType, transit
  <1>7. CASE Accept
    <2>1. /\ dialog' \in {Enter, dialog} /\ invite' = None /\ Answer(invite.id, TRUE)
          /\ invite # None
          /\ UNCHANGED <<channel, source, target, server, closing, transit>>
      BY <1>7 DEF Accept
    <2>2. /\ sent' \subseteq Dests /\ played' \subseteq Calls
          /\ left' \subseteq Dests /\ unnamed' \subseteq Calls
      BY <1>7, EndsInvite DEF Accept, TypeOK
    <2>3. QED
      BY <2>1, <2>2, EndsInvite DEF TypeOK, TransitType, transit
  <1>8. CASE Refuse
    BY <1>8, EndsInvite DEF Refuse, TypeOK, TransitType, transit
  <1>9. ASSUME NEW c \in Calls, NEW g \in Cameras, NEW s \in Servers, InviteSource(c, g, s)
        PROVE  TypeOK'
    <2>1. PICK port \in BOOLEAN : add_transit_reciver(g, port) /\ Answer(c, port)
      BY <1>9 DEF InviteSource
    <2>2. TransitType'
      BY <2>1, ReceiverAdded DEF TypeOK
    <2>3. call' \in [Calls -> {"none", "up", "over"}]
      BY <2>1 DEF Answer, TypeOK
    <2>4. QED
      BY <1>9, <2>2, <2>3 DEF InviteSource, TypeOK
  <1>10. ASSUME NEW c \in Calls, NEW g \in Cameras, NEW d \in Dests, NEW s \in Servers,
                InviteTarget(c, g, d, s)
         PROVE  TypeOK'
    <2>1. PICK port \in BOOLEAN : add_transit_dest(g, d, port) /\ Answer(c, port)
      BY <1>10 DEF InviteTarget
    <2>2. TransitType'
      BY <2>1, DestAdded DEF TypeOK
    <2>3. call' \in [Calls -> {"none", "up", "over"}]
      BY <2>1 DEF Answer, TypeOK
    <2>4. [cam |-> g, dest |-> d] \in Fans
      BY DEF Fans
    <2>5. QED
      BY <1>10, <2>2, <2>3, <2>4 DEF InviteTarget, TypeOK
  <1>11. ASSUME NEW c \in Calls, Bye(c) PROVE TypeOK'
    <2>1. call' \in [Calls -> {"none", "up", "over"}]
      BY <1>11 DEF Bye, TypeOK
    <2>2. Close(c) /\ UNCHANGED <<server, invite, closing, unnamed>>
      BY <1>11 DEF Bye
    <2>3. QED
      BY <2>1, <2>2, ClosedType DEF TypeOK
  <1>12. ASSUME NEW c \in Calls, Forget(c) PROVE TypeOK'
    BY <1>12 DEF Forget, TypeOK, TransitType, transit
  <1>13. ASSUME NEW d \in Dests, CloseChannel(d) PROVE TypeOK'
    <2>1. channel[d].cdid \in Calls
      BY <1>13 DEF CloseChannel, OfServer, Channels, TypeOK
    <2>2. Close(channel[d].cdid) /\ UNCHANGED <<call, server, invite, closing, unnamed>>
      BY <1>13 DEF CloseChannel
    <2>3. QED
      BY <2>1, <2>2, ClosedType DEF TypeOK
  <1>14. CASE Relay
    <2>1. TransitType'
      BY <1>14, ThreadsBeginNothing DEF Relay, TypeOK
    <2>2. QED
      BY <1>14, <2>1 DEF Relay, TypeOK
  <1>15. CASE UNCHANGED vars
    BY <1>15 DEF vars, TypeOK, TransitType, transit
  <1>16. QED
    BY <1>1, <1>2, <1>3, <1>4, <1>5, <1>6, <1>7, <1>8, <1>9, <1>10, <1>11, <1>12, <1>13, <1>14, <1>15
    DEF Next, Quiet
-------------------------------------------------------------------------------
(* Streams, dialogs and channels.                                          *)

\* At the start there is no call.
LEMMA InitSafe == Init => Safe
  BY SipAssumption
  DEF Init, Safe, NewIsBlank, InviteIsNew, ChannelOfNew, SentHasDialog, PlayedHasDialog,
      RelayHasSource, FanHasTarget, ChannelHasOwner, Channels, TransitInit, NoFan

\* A step that leaves the calls and the maps may end streams.
LEMMA LeavesSafe ==
    ASSUME TypeOK, Safe, UNCHANGED <<call, tables, invite, hist>>,
           sent' \subseteq sent, played' \subseteq played,
           \A h \in Cameras : relay'[h] # "none" => relay[h] # "none",
           \A h \in Cameras, d \in Dests : fan'[h][d] # "none" => fan[h][d] # "none"
    PROVE  Safe'
  <1>1. NewIsBlank' /\ InviteIsNew' /\ ChannelOfNew' /\ ChannelHasOwner'
    BY DEF tables, hist, Safe, NewIsBlank, InviteIsNew, ChannelOfNew, ChannelHasOwner, Channels
  <1>2. SentHasDialog' /\ PlayedHasDialog' /\ RelayHasSource' /\ FanHasTarget'
    BY DEF tables, hist, Safe, SentHasDialog, PlayedHasDialog, RelayHasSource, FanHasTarget
  <1>3. QED
    BY <1>1, <1>2 DEF Safe

\* The INVITE taken is of a call that is in no map and has no channel.
LEMMA TakeInviteSafe ==
    ASSUME TypeOK, Safe, NEW c \in Calls, NEW st \in {"real", "data"}, NEW d \in Dests,
           NEW s \in Servers, TakeInvite(c, st, d, s)
    PROVE  Safe'
  <1> USE SipAssumption DEF tables, video, hist
  <1>1. /\ invite = None /\ call[c] = "none" /\ invite'.id = c
        /\ UNCHANGED <<call, tables, video, hist>>
    BY DEF TakeInvite, Idle
  <1>2. NewIsBlank' /\ InviteIsNew' /\ ChannelOfNew' /\ ChannelHasOwner'
    BY <1>1 DEF Safe, NewIsBlank, InviteIsNew, ChannelOfNew, ChannelHasOwner, Channels
  <1>3. SentHasDialog' /\ PlayedHasDialog' /\ RelayHasSource' /\ FanHasTarget'
    BY <1>1 DEF Safe, SentHasDialog, PlayedHasDialog, RelayHasSource, FanHasTarget, transit
  <1>4. QED
    BY <1>2, <1>3 DEF Safe

\* A dialog is closed by a step that answers no call it closes, or none at all.
LEMMA CloseSafe ==
    ASSUME TypeOK, Safe, NEW c \in Calls, Close(c),
           \A b \in Calls : call'[b] = call[b] \/ call'[b] = "over",
           \/ invite' = invite
           \/ invite # None /\ invite' # None /\ invite'.id = invite.id
              /\ invite'.dest = invite.dest,
           invite # None => call'[invite.id] = call[invite.id], unnamed' = unnamed
    PROVE  Safe'
  <1>1. SentHasDialog' /\ PlayedHasDialog' /\ RelayHasSource' /\ FanHasTarget'
    BY ClosedStreams
  <1>2. \A b \in Calls : /\ call'[b] = "none" => call[b] = "none"
                         /\ call'[b] = "up" => call[b] = "up"
    OBVIOUS
  <1>3. NewIsBlank'
    BY <1>2, ClosedMaps DEF Safe, NewIsBlank
  <1>4. InviteIsNew'
    BY DEF Safe, InviteIsNew
  <1>5. \A d \in Channels' : /\ d \in Channels /\ channel'[d] = channel[d]
                             /\ channel[d].cdid \in Calls
    BY ClosedMaps DEF Channels, TypeOK
  <1>6. ChannelOfNew'
    BY <1>2, <1>5 DEF Safe, ChannelOfNew
  <1>7. ChannelHasOwner'
    BY <1>2, <1>5, ClosedMaps DEF ChannelHasOwner
  <1>8. QED
    BY <1>1, <1>3, <1>4, <1>6, <1>7 DEF Safe

\* The call of the dialog that is closed for another INVITE is not that of the
\* INVITE, or is left as it is.
LEMMA EndPreviousSafe == TypeOK /\ Safe /\ EndPrevious => Safe'
  <1> SUFFICES ASSUME TypeOK, Safe, EndPrevious PROVE Safe'
    OBVIOUS
  <1>1. invite # None /\ invite.dest \in Dests /\ channel[invite.dest] # None
    BY EndsInvite DEF EndPrevious
  <1> DEFINE old == channel[invite.dest].cdid
  <1>2. old \in Calls
    BY <1>1 DEF TypeOK
  <1>3. /\ Close(old)
        /\ call' = IF invite.st = "real" /\ old # invite.id
                   THEN [call EXCEPT ![old] = "over"] ELSE call
        /\ invite' = [invite EXCEPT !.at = IF invite.st = "real" THEN "insert" ELSE "start"]
        /\ unnamed' = unnamed
    BY DEF EndPrevious
  <1> HIDE DEF old
  <1>4. /\ \A b \in Calls : call'[b] = call[b] \/ call'[b] = "over"
        /\ call'[invite.id] = call[invite.id]
    BY <1>1, <1>2, <1>3, EndsInvite DEF TypeOK
  <1>5. invite' # None /\ invite'.id = invite.id /\ invite'.dest = invite.dest
    <2>1. invite' \in [id : Calls, st : {"real", "data"}, dest : Dests,
                       from : Servers, at : {"check", "insert", "start"}]
      BY <1>1, <1>3 DEF TypeOK
    <2>2. QED
      BY <1>1, <1>3, <2>1, SipAssumption DEF TypeOK
  <1>6. QED
    BY <1>1, <1>2, <1>3, <1>4, <1>5, CloseSafe

\* The only channel entered is that of the INVITE in hand.
LEMMA InsertSafe == TypeOK /\ Safe /\ Insert => Safe'
  <1> SUFFICES ASSUME TypeOK, Safe, Insert PROVE Safe'
    OBVIOUS
  <1> USE SipAssumption
  <1>1. /\ invite # None /\ invite.id \in Calls /\ invite.dest \in Dests
        /\ UNCHANGED <<call, dialog, source, target, video, hist>>
    BY EndsInvite DEF Insert
  <1>2. invite' # None /\ invite'.id = invite.id /\ invite'.dest = invite.dest
    <2>1. invite' = [invite EXCEPT !.at = "start"]
      BY DEF Insert
    <2>2. invite' \in [id : Calls, st : {"real", "data"}, dest : Dests,
                       from : Servers, at : {"check", "insert", "start"}]
      BY <1>1, <2>1 DEF TypeOK
    <2>3. QED
      BY <1>1, <2>1, <2>2 DEF TypeOK
  <1>3. \A d \in Channels' :
           \/ d \in Channels /\ channel'[d] = channel[d] /\ channel[d].cdid \in Calls
           \/ d = invite.dest /\ channel'[d].cdid = invite.id
    BY <1>1 DEF Insert, Channels, TypeOK
  <1>4. NewIsBlank' /\ InviteIsNew'
    BY <1>1, <1>2 DEF Safe, NewIsBlank, InviteIsNew
  <1>5. ChannelOfNew'
    BY <1>1, <1>2, <1>3 DEF Safe, ChannelOfNew
  <1>6. ChannelHasOwner'
    BY <1>1, <1>2, <1>3 DEF Safe, ChannelHasOwner, hist
  <1>7. SentHasDialog' /\ PlayedHasDialog' /\ RelayHasSource' /\ FanHasTarget'
    BY <1>1 DEF Safe, SentHasDialog, PlayedHasDialog, RelayHasSource, FanHasTarget, video, hist, transit
  <1>8. QED
    BY <1>4, <1>5, <1>6, <1>7 DEF Safe

\* The end of an INVITE: its dialog is entered over none, and its call answered;
\* without a dialog it is refused, or it is one of those that are answered without.
LEMMA AnswerSafe ==
    ASSUME TypeOK, Safe, invite # None, invite' = None, NEW port \in BOOLEAN,
           Answer(invite.id, port),
           \/ dialog' = Enter
           \/ dialog' = dialog /\ (~port \/ invite.id \in unnamed'),
           UNCHANGED <<channel, source, target, transit>>, unnamed \subseteq unnamed',
           \/ sent' = sent /\ left' = left
           \/ /\ dialog' = Enter /\ invite.st = "real" /\ sent' = sent \cup {invite.dest}
              /\ left' = left \ {invite.dest},
           \/ played' = played
           \/ /\ (dialog' = Enter /\ invite.st = "data") \/ invite.id \in unnamed'
              /\ played' = played \cup {invite.id}
    PROVE  Safe'
  <1> USE SipAssumption
  <1> DEFINE i == invite.id
             g == [st |-> invite.st, dest |-> invite.dest]
  <1>1. i \in Calls /\ invite.dest \in Dests /\ invite.st \in {"real", "data"}
    BY EndsInvite
  <1>2. g \in Dialogs /\ g # None /\ g.st = invite.st /\ g.dest = invite.dest
    <2>1. g \in [st : {"real", "data"}, dest : Dests] /\ g.st = invite.st /\ g.dest = invite.dest
      BY <1>1
    <2>2. QED
      BY <2>1 DEF Dialogs
  <1>3. /\ call[i] = "none" /\ dialog[i] = None
        /\ source[i] = None /\ target[i] = None
    BY <1>1 DEF Safe, InviteIsNew, NewIsBlank
  <1>4. /\ call'[i] = IF port THEN "up" ELSE "over"
        /\ \A b \in Calls \ {i} : call'[b] = call[b]
    BY <1>1 DEF Answer, TypeOK
  <1>5. /\ \A b \in Calls \ {i} : dialog'[b] = dialog[b]
        /\ dialog'[i] = g \/ (dialog'[i] = None /\ (~port \/ i \in unnamed'))
        /\ dialog' = Enter => dialog'[i] = g
    BY <1>1, <1>3 DEF Enter, TypeOK
  <1>6. g = [st |-> invite.st, dest |-> invite.dest]
    OBVIOUS
  <1> HIDE DEF i, g
  <1>7. NewIsBlank'
    BY <1>4, <1>5 DEF Safe, NewIsBlank
  <1>8. InviteIsNew'
    BY DEF InviteIsNew
  <1>9. \A d \in Channels' : d \in Channels /\ channel'[d] = channel[d] /\ channel[d].cdid \in Calls
    BY DEF Channels, TypeOK
  <1>10. \A d \in Channels : call[channel[d].cdid] = "none" => i = channel[d].cdid /\ invite.dest = d
    BY DEF Safe, ChannelOfNew, i
  <1>11. ChannelOfNew'
    BY <1>4, <1>9, <1>10 DEF ChannelOfNew
  <1>12. ChannelHasOwner'
    <2>1. ASSUME NEW d \in Channels'
          PROVE  \/ dialog'[channel[d].cdid] # None /\ dialog'[channel[d].cdid].dest = d
                 \/ /\ dialog'[channel[d].cdid] = None
                    /\ call'[channel[d].cdid] # "up" \/ channel[d].cdid \in unnamed'
      <3>1. d \in Channels /\ channel[d].cdid \in Calls
        BY <1>9
      <3>2. CASE channel[d].cdid = i
        BY <1>2, <1>3, <1>4, <1>5, <1>10, <3>1, <3>2
      <3>3. CASE channel[d].cdid # i
        BY <1>4, <1>5, <3>1, <3>3 DEF Safe, ChannelHasOwner, i
      <3>4. QED
        BY <3>2, <3>3
    <2>2. QED
      BY <2>1 DEF ChannelHasOwner
  <1>13. SentHasDialog'
    <2>1. ASSUME NEW d \in sent' \ left'
          PROVE  \E b \in Calls : dialog'[b] = [st |-> "real", dest |-> d]
      <3>1. CASE d \in sent \ left
        <4>1. PICK b \in Calls : dialog[b] = [st |-> "real", dest |-> d]
          BY <3>1 DEF Safe, SentHasDialog
        <4>2. [st |-> "real", dest |-> d] \in [st : {"real", "data"}, dest : Dests]
          BY <3>1 DEF TypeOK
        <4>3. b # i
          BY <1>3, <4>1, <4>2
        <4>4. QED
          BY <1>5, <4>1, <4>3
      <3>2. CASE d \notin sent \ left
        <4>1. dialog' = Enter /\ invite.st = "real" /\ d = invite.dest
          BY <2>1, <3>2
        <4>2. QED
          BY <1>1, <1>5, <1>6, <4>1 DEF i
      <3>3. QED
        BY <3>1, <3>2
    <2>2. QED
      BY <2>1 DEF SentHasDialog
  <1>14. PlayedHasDialog'
    <2>1. ASSUME NEW c \in played' \ unnamed'
          PROVE  dialog'[c] # None /\ dialog'[c].st = "data"
      <3>1. CASE c \in played
        <4>1. dialog[c] # None /\ dialog[c].st = "data" /\ c \in Calls
          BY <3>1 DEF Safe, PlayedHasDialog, TypeOK
        <4>2. QED
          BY <1>3, <1>5, <4>1
      <3>2. CASE c \notin played
        <4>1. dialog' = Enter /\ invite.st = "data" /\ c = i
          BY <2>1, <3>2 DEF i
        <4>2. QED
          BY <1>2, <1>5, <4>1
      <3>3. QED
        BY <3>1, <3>2
    <2>2. QED
      BY <2>1 DEF PlayedHasDialog
  <1>15. RelayHasSource' /\ FanHasTarget'
    BY DEF Safe, RelayHasSource, FanHasTarget, transit
  <1>16. QED
    BY <1>7, <1>8, <1>11, <1>12, <1>13, <1>14, <1>15 DEF Safe

\* A call of a relay is entered over none, and has no channel.
LEMMA RelayCallSafe ==
    ASSUME TypeOK, Safe, NEW c \in Calls, Idle, call[c] = "none",
           NEW port \in BOOLEAN, Answer(c, port),
           UNCHANGED <<dialog, channel, invite, sent, played, hist>>,
           \A b \in Calls \ {c} : source'[b] = source[b] /\ target'[b] = target[b],
           RelayHasSource', FanHasTarget'
    PROVE  Safe'
  <1> USE SipAssumption
  <1>1. /\ call'[c] # "none" /\ \A b \in Calls \ {c} : call'[b] = call[b]
    BY DEF Answer, TypeOK
  <1>2. invite = None
    BY DEF Idle
  <1>3. \A d \in Channels : channel[d].cdid \in Calls /\ channel[d].cdid # c
    BY <1>2 DEF Safe, ChannelOfNew, Channels, TypeOK
  <1>4. NewIsBlank' /\ InviteIsNew'
    BY <1>1, <1>2 DEF Safe, NewIsBlank, InviteIsNew
  <1>5. ChannelOfNew' /\ ChannelHasOwner'
    BY <1>1, <1>2, <1>3 DEF Safe, ChannelOfNew, ChannelHasOwner, Channels, hist
  <1>6. SentHasDialog' /\ PlayedHasDialog'
    BY DEF Safe, SentHasDialog, PlayedHasDialog, hist
  <1>7. QED
    BY <1>4, <1>5, <1>6 DEF Safe

\* An invitation for a source keeps the invariant: its call is new, and so is its
\* dialog.
LEMMA InviteSourceSafe ==
    ASSUME TypeOK, Safe, NEW c \in Calls, NEW g \in Cameras, NEW s \in Servers,
           InviteSource(c, g, s)
    PROVE  Safe'
  <1> USE SipAssumption
  <1>1. PICK port \in BOOLEAN : add_transit_reciver(g, port) /\ Answer(c, port)
    BY DEF InviteSource
  <1>2. /\ Idle /\ call[c] = "none" /\ source' = [source EXCEPT ![c] = g]
        /\ UNCHANGED <<dialog, channel, target, invite, sent, played, hist>>
    BY DEF InviteSource
  <1>3. /\ source'[c] = g /\ \A b \in Calls \ {c} : source'[b] = source[b]
        /\ source[c] = None
    BY <1>2 DEF TypeOK, Safe, NewIsBlank
  <1>4. /\ \A h \in Cameras : relay'[h] # "none" => relay[h] # "none" \/ h = g
        /\ \A h \in Cameras, d \in Dests : fan'[h][d] # "none" => fan[h][d] # "none"
    BY <1>1, ReceiverAdded DEF TypeOK
  <1>5. RelayHasSource'
    <2>1. ASSUME NEW h \in Cameras, relay'[h] # "none", h # g
          PROVE  \E b \in Calls : source'[b] = h
      <3>1. PICK b \in Calls : source[b] = h
        BY <1>4, <2>1 DEF Safe, RelayHasSource
      <3>2. b # c
        BY <1>3, <3>1
      <3>3. QED
        BY <1>3, <3>1, <3>2
    <2>2. QED
      BY <1>3, <2>1 DEF RelayHasSource
  <1>6. FanHasTarget'
    BY <1>2, <1>4, ZenonT(40) DEF Safe, FanHasTarget
  <1>7. QED
    BY <1>1, <1>2, <1>3, <1>5, <1>6, RelayCallSafe

\* An invitation for a target keeps the invariant: what it sends has the dialog it
\* makes.
LEMMA InviteTargetSafe ==
    ASSUME TypeOK, Safe, NEW c \in Calls, NEW g \in Cameras, NEW d \in Dests, NEW s \in Servers,
           InviteTarget(c, g, d, s)
    PROVE  Safe'
  <1> USE SipAssumption
  <1> DEFINE f == [cam |-> g, dest |-> d]
  <1>1. PICK port \in BOOLEAN : add_transit_dest(g, d, port) /\ Answer(c, port)
    BY DEF InviteTarget
  <1>2. /\ Idle /\ call[c] = "none" /\ target' = [target EXCEPT ![c] = f]
        /\ UNCHANGED <<dialog, channel, source, invite, sent, played, hist>>
    BY DEF InviteTarget
  <1>3. /\ target'[c] = f /\ \A b \in Calls \ {c} : target'[b] = target[b]
        /\ target[c] = None
    BY <1>2 DEF TypeOK, Safe, NewIsBlank
  <1>4. /\ relay' = relay
        /\ \A h \in Cameras, e \in Dests :
              fan'[h][e] # "none" => fan[h][e] # "none" \/ (h = g /\ e = d)
    BY <1>1, DestAdded DEF TypeOK
  <1>5. RelayHasSource'
    BY <1>2, <1>4 DEF Safe, RelayHasSource
  <1>6. FanHasTarget'
    <2>1. ASSUME NEW h \in Cameras, NEW e \in Dests, fan'[h][e] # "none", ~(h = g /\ e = d)
          PROVE  \E b \in Calls : target'[b] = [cam |-> h, dest |-> e]
      <3>1. PICK b \in Calls : target[b] = [cam |-> h, dest |-> e]
        BY <1>4, <2>1 DEF Safe, FanHasTarget
      <3>2. [cam |-> h, dest |-> e] \in Fans
        BY DEF Fans
      <3>3. b # c
        BY <1>3, <3>1, <3>2
      <3>4. QED
        BY <1>3, <3>1, <3>3
    <2>2. QED
      BY <1>3, <2>1 DEF FanHasTarget
  <1>7. QED
    BY <1>1, <1>2, <1>3, <1>5, <1>6, RelayCallSafe

\* A pair that is forgotten is in no map, and no channel is of it.
LEMMA ForgetSafe ==
    ASSUME TypeOK, Safe, NEW c \in Calls, Forget(c)
    PROVE  Safe'
  <1>1. /\ call[c] = "over" /\ dialog[c] = None /\ source[c] = None /\ target[c] = None
        /\ c \notin played /\ \A d \in Channels : channel[d].cdid # c
        /\ UNCHANGED <<tables, invite, video, left>> /\ unnamed' = unnamed \ {c}
    BY DEF Forget
  <1>2. call'[c] = "none" /\ \A b \in Calls \ {c} : call'[b] = call[b]
    BY DEF Forget, TypeOK
  <1>3. \A d \in Channels : channel[d].cdid \in Calls
    BY DEF TypeOK, Channels
  <1>4. NewIsBlank'
    BY <1>1, <1>2 DEF Safe, NewIsBlank, tables
  <1>5. InviteIsNew'
    BY <1>1, <1>2, EndsInvite DEF Safe, InviteIsNew
  <1>6. Channels' = Channels
    BY <1>1 DEF Channels, tables
  <1>7. ChannelOfNew' /\ ChannelHasOwner'
    BY <1>1, <1>2, <1>3, <1>6 DEF Safe, ChannelOfNew, ChannelHasOwner, tables
  <1>8. SentHasDialog' /\ PlayedHasDialog' /\ RelayHasSource' /\ FanHasTarget'
    BY <1>1 DEF Safe, SentHasDialog, PlayedHasDialog, RelayHasSource, FanHasTarget, tables, video,
               transit
  <1>9. QED
    BY <1>4, <1>5, <1>7, <1>8 DEF Safe

\* Every step keeps the invariant.
LEMMA StepSafe == TypeOK /\ Safe /\ [Next]_vars => Safe'
  <1> SUFFICES ASSUME TypeOK, Safe, [Next]_vars PROVE Safe'
    OBVIOUS
  <1>1. CASE Quiet
    <2>1. UNCHANGED <<call, tables, invite, sent, transit, hist>> /\ played' \subseteq played
      BY <1>1, QuietLeaves
    <2>2. QED
      BY <2>1, LeavesSafe DEF transit
  <1>2. CASE EndPrevious
    BY <1>2, EndPreviousSafe
  <1>3. CASE NoPrevious
    <2>1. /\ invite # None /\ UNCHANGED <<call, tables, video, hist>>
          /\ invite' = [invite EXCEPT !.at = "insert"]
      BY <1>3 DEF NoPrevious
    <2>2. invite' # None /\ invite'.id = invite.id /\ invite'.dest = invite.dest
      <3>1. invite' \in [id : Calls, st : {"real", "data"}, dest : Dests,
                         from : Servers, at : {"check", "insert", "start"}]
        BY <2>1 DEF TypeOK
      <3>2. QED
        BY <2>1, <3>1, SipAssumption DEF TypeOK
    <2>3. NewIsBlank' /\ InviteIsNew' /\ ChannelOfNew' /\ ChannelHasOwner'
      BY <2>1, <2>2 DEF Safe, NewIsBlank, InviteIsNew, ChannelOfNew, ChannelHasOwner, Channels, tables, hist
    <2>4. SentHasDialog' /\ PlayedHasDialog' /\ RelayHasSource' /\ FanHasTarget'
      BY <2>1 DEF Safe, SentHasDialog, PlayedHasDialog, RelayHasSource, FanHasTarget, tables, video,
                 hist, transit
    <2>5. QED
      BY <2>3, <2>4 DEF Safe
  <1>4. CASE Insert
    BY <1>4, InsertSafe
  <1>5. CASE AtLimit
    BY <1>5, AnswerSafe DEF AtLimit, video, hist
  <1>6. CASE Accept
    BY <1>6, AnswerSafe DEF Accept
  <1>7. CASE Refuse
    BY <1>7, AnswerSafe DEF Refuse, video, hist
  <1>8. ASSUME NEW c \in Calls, Bye(c) PROVE Safe'
    <2>1. /\ Idle /\ invite = None /\ Close(c) /\ UNCHANGED <<invite, unnamed>>
          /\ \A b \in Calls : call'[b] = call[b] \/ call'[b] = "over"
      BY <1>8 DEF Bye, Idle, TypeOK
    <2>2. QED
      BY <2>1, CloseSafe
  <1>9. ASSUME NEW d \in Dests, CloseChannel(d) PROVE Safe'
    <2>1. channel[d].cdid \in Calls
      BY <1>9 DEF CloseChannel, OfServer, Channels, TypeOK
    <2>2. Close(channel[d].cdid) /\ UNCHANGED <<call, invite, unnamed>>
      BY <1>9 DEF CloseChannel
    <2>3. QED
      BY <2>1, <2>2, CloseSafe
  <1>10. CASE Relay
    <2>1. UNCHANGED <<call, tables, invite, sent, played, hist>> /\ TransitStep
      BY <1>10 DEF Relay
    <2>2. QED
      BY <2>1, ThreadsBeginNothing, LeavesSafe DEF TypeOK
  <1>11. CASE UNCHANGED vars
    BY <1>11, LeavesSafe DEF vars, tables, video, hist, transit
  <1>12. QED
    BY <1>1, <1>2, <1>3, <1>4, <1>5, <1>6, <1>7, <1>8, <1>9, <1>10, <1>11, TakeInviteSafe,
       InviteSourceSafe, InviteTargetSafe, ForgetSafe
    DEF Next, Quiet

\* In every behaviour the maps are typed, what is entered is entered under a call
\* that is in none of them, and the streams and the channels agree with the
\* dialogs.
THEOREM InvariantAlways == Spec => []IInv
  <1>1. Init => IInv
    BY InitTypeOK, InitSafe DEF IInv
  <1>2. IInv /\ [Next]_vars => IInv'
    BY StepType, StepSafe DEF IInv
  <1>3. QED
    BY <1>1, <1>2, PTL DEF Spec

\* A stream that is sent, played or relayed has a dialog a BYE can end, but for those
\* whose camera was being called again when theirs was closed, and those answered
\* without one.
THEOREM StreamHasDialogAlways == Spec => []StreamHasDialog
  <1>1. IInv => StreamHasDialog
    BY StreamParts DEF IInv, Safe
  <1>2. QED
    BY <1>1, InvariantAlways, PTL

\* A channel leads to the dialog of its destination, to the INVITE in hand, or to
\* a call that was refused, is over or was answered without a dialog.
THEOREM ChannelHasOwnerAlways == Spec => []ChannelHasOwner
  <1>1. IInv => ChannelHasOwner
    BY DEF IInv, Safe
  <1>2. QED
    BY <1>1, InvariantAlways, PTL
===============================================================================
