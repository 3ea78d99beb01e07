-------------------------------- MODULE Transit --------------------------------
(***************************************************************************)
(* The relays of video_manger: for a camera of another maker a             *)
(* video_transit_manger receives its stream, and sends it on to the        *)
(* addresses of its m_transfer_map.  Module Sip calls these operations     *)
(* from its event thread; there is no lock, and the receive thread of a    *)
(* relay ends by itself in between.                                        *)
(*                                                                         *)
(* A thread that outlives its relay does nothing more to the maps and is   *)
(* left out, and so are packets and ports.  The port a relay is sent to is *)
(* always 0 (video_destport), so that an address is all a key tells apart. *)
(***************************************************************************)
CONSTANTS
    Cameras,  \* cameras of other makers whose streams are relayed
    Dests     \* addresses streams are sent to

VARIABLES
    relay,    \* m_transit_map: none, runs, ends (in delete_transit), over
    fan       \* the m_transfer_map of each relay: none, sends, quiet

transit == <<relay, fan>>

NoFan == [d \in Dests |-> "none"]

TransitInit ==
    /\ relay = [g \in Cameras |-> "none"] /\ fan = [g \in Cameras |-> NoFan]

TransitType ==
    /\ relay \in [Cameras -> {"none", "runs", "ends", "over"}]
    /\ fan \in [Cameras -> [Dests -> {"none", "sends", "quiet"}]]

\* create_transit: a new relay, if its port can be bound
Create(g, port) ==
    /\ relay' = [relay EXCEPT ![g] = IF port THEN "runs" ELSE "none"]
    /\ fan' = [fan EXCEPT ![g] = NoFan]

\* Nobody can be sent what a relay receives that is not there any more
add_transit_reciver(g, port) ==
    \/ relay[g] = "none" /\ Create(g, port)
    \/ relay[g] # "none" /\ fan[g] = NoFan /\ Create(g, port)
    \/ relay[g] # "none" /\ fan[g] # NoFan /\ ~port /\ UNCHANGED transit

\* delete_transit by a command: the relay leaves the map with all it sends
del_transit_reciver(g) ==
    /\ relay' = [relay EXCEPT ![g] = "none"] /\ fan' = [fan EXCEPT ![g] = NoFan]

\* m_brun is set until the thread has ended: an address that comes while the
\* transfers are cleared is entered all the same, also if start_transfer gives 0
add_dest(g, d, port) ==
    IF relay[g] \in {"runs", "ends"}
    THEN fan' = [fan EXCEPT ![g][d] = "sends"]
    ELSE ~port /\ UNCHANGED fan

\* add_transit_dest
add_transit_dest(g, d, port) == add_dest(g, d, port) /\ UNCHANGED relay

\* video_transit_manger::del_dest
del_dest(g, d) == fan' = [fan EXCEPT ![g][d] = "none"]

del_transit_dest(g, d) == del_dest(g, d) /\ UNCHANGED relay

\* A sender whose time nobody updates gives up when no packet comes for a while,
\* 45 seconds after its start; its entry stays
SenderGivesUp(g, d) ==
    /\ fan[g][d] = "sends" /\ fan' = [fan EXCEPT ![g][d] = "quiet"]
    /\ UNCHANGED relay

\* recv_data_thread ends after six timeouts of its life: it stops all transfers
TimesOut(g) ==
    /\ relay[g] = "runs" /\ relay' = [relay EXCEPT ![g] = "ends"]
    /\ fan' = [fan EXCEPT ![g] = NoFan]

\* and clears m_brun; the relay stays in m_transit_map
Ends(g) ==
    /\ relay[g] = "ends" /\ relay' = [relay EXCEPT ![g] = "over"]
    /\ UNCHANGED fan

TransitStep ==
    \E g \in Cameras : \/ TimesOut(g) \/ Ends(g)
                       \/ \E d \in Dests : SenderGivesUp(g, d)

\* What a relay sends, whether packets come or not
Fans == {[cam |-> g, dest |-> d] : g \in Cameras, d \in Dests}
Fanned == {f \in Fans : fan[f.cam][f.dest] # "none"}
=============================================================================
