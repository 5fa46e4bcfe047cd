----------------------------- MODULE TrunkTalk -----------------------------
(***************************************************************************)
(* What two reflectors say to each other about one shared talk group over  *)
(* a trunk: who talks, whose audio is let through, and who gives way       *)
(* (GeuTrunkLink.cpp, with the satellites and the local clients that feed  *)
(* it).  The connections are those of TrunkLink: each reflector has one to *)
(* the other, uses its outbound one when it is ready and falls back on the *)
(* inbound one, on which sendMsgOnInbound writes every message twice.      *)
(*                                                                         *)
(* A turn of a satellite is announced to the peer (onLocalTalkerStart), as *)
(* is one that comes in over an UDP trunk (Reflector.cpp:2303, :2369),     *)
(* which takes the same way through the link; the code announces no turn   *)
(* of a client of the reflector itself.                                    *)
(***************************************************************************)
EXTENDS Naturals, Sequences, FiniteSets

CONSTANTS
    Peer,       \* the two reflectors
    NoOne,      \* the empty callsign
    Priority,   \* the nonces that a reflector may draw
    Lossy,      \* what may be lost, a subset of {"connection", "satellite"},
                \* and whether a loss may pass unnoticed ("silence")
    MaxLosses,  \* bound on the number of losses
    MaxFrames,  \* bound on the audio frames of a reflector
    MaxWire     \* bound on the messages under way on a connection

ASSUME TalkAssumption ==
    /\ \E p, q \in Peer : p # q /\ Peer = {p, q}
    /\ NoOne \notin Peer
    /\ Priority \subseteq Nat
    /\ Lossy \subseteq {"connection", "satellite", "silence"}
    /\ MaxLosses \in Nat /\ MaxFrames \in Nat /\ MaxWire \in Nat

VARIABLES
    priority,      \* m_priority, known to the peer since its hello
    client,        \* a client of the reflector holds the talk group
    sat,           \* its satellite talks: the group is in m_sat_active_tgs
    trunkTalker,   \* m_trunk_talkers: the reflector whose satellite is shown
    peerActive,    \* the group is in m_peer_active_tgs
    yielded,       \* the group is in m_yielded_tgs
    obReady,       \* isOutboundReady
    ibReady,       \* isInboundReady
    broken,        \* connections that deliver nothing any more
    stopped,       \* reflectors whose own client has ceased to connect
    up, down,      \* messages under way to the acceptor and to the opener
    losses,        \* number of losses so far
    frames,        \* number of audio frames each reflector has sent
    heard          \* frames of the peer played to the reflector's listeners

talk == <<client, sat, trunkTalker, peerActive, yielded>>
link == <<obReady, ibReady, broken, stopped>>
audio == <<frames, heard>>
vars == <<priority, talk, link, up, down, losses, audio>>

Other(p) == CHOOSE q \in Peer : q # p

Msg == [type : {"start", "stop"}] \cup [type : {"audio"}, nr : 1 .. MaxFrames]

Init ==
    /\ priority \in [Peer -> Priority]
    /\ client = [p \in Peer |-> FALSE]
    /\ sat = [p \in Peer |-> FALSE]
    /\ trunkTalker = [p \in Peer |-> NoOne]
    /\ peerActive = [p \in Peer |-> FALSE]
    /\ yielded = [p \in Peer |-> FALSE]
    /\ obReady = [p \in Peer |-> TRUE]
    /\ ibReady = [p \in Peer |-> TRUE]
    /\ broken = {}
    /\ stopped = {}
    /\ up = [p \in Peer |-> << >>]
    /\ down = [p \in Peer |-> << >>]
    /\ losses = 0
    /\ frames = [p \in Peer |-> 0]
    /\ heard = [p \in Peer |-> << >>]

-----------------------------------------------------------------------------
HasRoom(p) == Len(up[p]) < MaxWire /\ Len(down[Other(p)]) < MaxWire

(* sendMsg of p: outbound if ready, else twice on the inbound connection.  *)
SendMsg(p, m) ==
    LET q == Other(p) IN
    /\ up' = IF obReady[p] /\ p \notin broken THEN [up EXCEPT ![p] = Append(@, m)] ELSE up
    /\ down' = IF ~obReady[p] /\ ibReady[p] /\ q \notin broken
               THEN [down EXCEPT ![q] = @ \o <<m, m>>] ELSE down

(* A client of p takes the group: the guard looks at m_talker only. *)
ClientTakes(p) ==
    /\ ~client[p]
    /\ client' = [client EXCEPT ![p] = TRUE]
    /\ UNCHANGED <<priority, sat, trunkTalker, peerActive, yielded, link, up, down, losses, audio>>

(* The client flushes or times out. *)
ClientStops(p) ==
    /\ client[p]
    /\ client' = [client EXCEPT ![p] = FALSE]
    /\ UNCHANGED <<priority, sat, trunkTalker, peerActive, yielded, link, up, down, losses, audio>>

(* The satellite of p starts: setTrunkTalkerForTG, then onLocalTalkerStart. *)
SatStarts(p) ==
    /\ ~sat[p]
    /\ HasRoom(p)
    /\ sat' = [sat EXCEPT ![p] = TRUE]
    /\ trunkTalker' = [trunkTalker EXCEPT ![p] = p]
    /\ SendMsg(p, [type |-> "start"])
    /\ UNCHANGED <<priority, client, peerActive, yielded, link, losses, audio>>

(* onLocalTalkerStop sends before it looks at m_yielded_tgs. *)
StopForgotten(p) == UNCHANGED <<up, down>>
StopSent(p) == SendMsg(p, [type |-> "stop"])

SatStops(p) ==
    /\ sat[p]
    /\ HasRoom(p)
    /\ sat' = [sat EXCEPT ![p] = FALSE]
    /\ trunkTalker' = [trunkTalker EXCEPT ![p] = NoOne]
    /\ StopSent(p)
    /\ UNCHANGED <<priority, client, peerActive, yielded, link, losses, audio>>

Loss(kind) == kind \in Lossy /\ losses < MaxLosses /\ losses' = losses + 1

(* The satellite is lost while it talks: ~SatelliteLink tells no trunk. *)
SatLost(p) ==
    /\ sat[p]
    /\ Loss("satellite")
    /\ sat' = [sat EXCEPT ![p] = FALSE]
    /\ trunkTalker' = [trunkTalker EXCEPT ![p] = NoOne]
    /\ UNCHANGED <<priority, client, peerActive, yielded, link, up, down, audio>>

(* The number of the next frame of p. *)
NextNr(p) == frames[p] + 1

(* onLocalAudio: a frame of the client or the satellite of p. *)
LocalAudio(p) ==
    /\ client[p] \/ sat[p]
    /\ ~yielded[p]
    /\ frames[p] < MaxFrames
    /\ HasRoom(p)
    /\ frames' = [frames EXCEPT ![p] = NextNr(p)]
    /\ SendMsg(p, [type |-> "audio", nr |-> NextNr(p)])
    /\ UNCHANGED <<priority, talk, link, losses, heard>>

-----------------------------------------------------------------------------
(* The tie-break: the lower nonce wins, and the local talker if equal. *)
LocalWinsIfLower(p) == priority[p] < priority[Other(p)]
LocalWins(p) == priority[p] <= priority[Other(p)]

(* handleMsgTrunkTalkerStart at p *)
TalkerStart(p) ==
    /\ IF client[p] /\ LocalWins(p)
       THEN UNCHANGED talk
       ELSE /\ client' = [client EXCEPT ![p] = FALSE]
            /\ yielded' = [yielded EXCEPT ![p] = @ \/ client[p]]
            /\ peerActive' = [peerActive EXCEPT ![p] = TRUE]
            /\ trunkTalker' = [trunkTalker EXCEPT ![p] = Other(p)]
            /\ UNCHANGED sat
    /\ UNCHANGED heard

(* handleMsgTrunkTalkerStop at p *)
YieldKept(p) == yielded
YieldEnded(p) == [yielded EXCEPT ![p] = FALSE]

TalkerStop(p) ==
    /\ yielded' = YieldEnded(p)
    /\ peerActive' = [peerActive EXCEPT ![p] = FALSE]
    /\ trunkTalker' = [trunkTalker EXCEPT ![p] = NoOne]
    /\ UNCHANGED <<client, sat, heard>>

(* handleMsgTrunkAudio at p: only if the peer has claimed the group *)
TrunkAudio(p, n) ==
    /\ heard' = IF peerActive[p] THEN [heard EXCEPT ![p] = Append(@, n)] ELSE heard
    /\ UNCHANGED talk

Handle(p, m) ==
    \/ m.type = "start" /\ TalkerStart(p)
    \/ m.type = "stop" /\ TalkerStop(p)
    \/ m.type = "audio" /\ TrunkAudio(p, m.nr)

(* onFrameReceived on the inbound connection of p, and on its outbound one *)
InboundFrame(p) ==
    LET q == Other(p) IN
    /\ ibReady[p] /\ up[q] # << >>
    /\ Handle(p, Head(up[q]))
    /\ up' = [up EXCEPT ![q] = Tail(@)]
    /\ UNCHANGED <<priority, link, down, losses, frames>>

OutboundFrame(p) ==
    /\ obReady[p] /\ down[p] # << >>
    /\ Handle(p, Head(down[p]))
    /\ down' = [down EXCEPT ![p] = Tail(@)]
    /\ UNCHANGED <<priority, link, up, losses, frames>>

-----------------------------------------------------------------------------
(* The connection of p breaks; each end learns of it in its own time. *)
Breaks(p) ==
    /\ obReady[p] /\ ibReady[Other(p)] /\ p \notin broken
    /\ Loss("connection")
    /\ broken' = broken \cup {p}
    /\ up' = [up EXCEPT ![p] = << >>]
    /\ down' = [down EXCEPT ![p] = << >>]
    /\ UNCHANGED <<priority, talk, obReady, ibReady, stopped, audio>>

(* onDisconnected: the talkers of the peer are left alone *)
OutboundLost(p) ==
    /\ obReady[p] /\ p \in broken
    /\ obReady' = [obReady EXCEPT ![p] = FALSE]
    /\ UNCHANGED <<priority, talk, ibReady, broken, stopped, up, down, losses, audio>>

(* heartbeatTick: after disconnect the client does not try again *)
OutboundTimesOut(p) ==
    /\ "silence" \in Lossy
    /\ obReady[p] /\ p \in broken
    /\ obReady' = [obReady EXCEPT ![p] = FALSE]
    /\ stopped' = stopped \cup {p}
    /\ UNCHANGED <<priority, talk, ibReady, broken, up, down, losses, audio>>

(* clearPeerTalkerState *)
PeerTalkerForgotten(p) == peerActive' = [peerActive EXCEPT ![p] = FALSE] /\ UNCHANGED trunkTalker
PeerTalkerCleared(p) ==
    /\ peerActive' = [peerActive EXCEPT ![p] = FALSE]
    /\ trunkTalker' = [trunkTalker EXCEPT ![p] = IF peerActive[p] THEN NoOne ELSE @]

(* onInboundDisconnected *)
InboundClosed(p) ==
    /\ ibReady[p] /\ Other(p) \in broken
    /\ ibReady' = [ibReady EXCEPT ![p] = FALSE]
    /\ PeerTalkerCleared(p)
    /\ yielded' = [yielded EXCEPT ![p] = FALSE]
    /\ UNCHANGED <<priority, client, sat, obReady, broken, stopped, up, down, losses, audio>>

(* heartbeatTick: the inbound connection is dropped and nothing else *)
InboundTimesOut(p) ==
    /\ "silence" \in Lossy
    /\ ibReady[p] /\ Other(p) \in broken
    /\ ibReady' = [ibReady EXCEPT ![p] = FALSE]
    /\ UNCHANGED <<priority, talk, obReady, broken, stopped, up, down, losses, audio>>

(* The client of p, if it still tries, connects again and is accepted      *)
(* (TrunkLink has the hellos).                                             *)
Reconnects(p) ==
    LET q == Other(p) IN
    /\ ~obReady[p] /\ ~ibReady[q] /\ p \notin stopped
    /\ obReady' = [obReady EXCEPT ![p] = TRUE]
    /\ ibReady' = [ibReady EXCEPT ![q] = TRUE]
    /\ broken' = broken \ {p}
    /\ yielded' = [yielded EXCEPT ![q] = FALSE]
    /\ UNCHANGED <<priority, client, sat, trunkTalker, peerActive, stopped, up, down, losses, audio>>

Next ==
    \E p \in Peer :
        \/ ClientTakes(p)
        \/ ClientStops(p)
        \/ SatStarts(p)
        \/ SatStops(p)
        \/ SatLost(p)
        \/ LocalAudio(p)
        \/ InboundFrame(p)
        \/ OutboundFrame(p)
        \/ Breaks(p)
        \/ OutboundLost(p)
        \/ OutboundTimesOut(p)
        \/ InboundClosed(p)
        \/ InboundTimesOut(p)
        \/ Reconnects(p)

(***************************************************************************)
(* Messages are read, an end of a broken connection notices in one way or  *)
(* the other, and a client that still tries connects again.  Nobody is     *)
(* obliged to talk or to stop.                                             *)
(***************************************************************************)
Fairness ==
    \A p \in Peer :
        /\ WF_vars(InboundFrame(p))
        /\ WF_vars(OutboundFrame(p))
        /\ WF_vars(OutboundLost(p) \/ OutboundTimesOut(p))
        /\ WF_vars(InboundClosed(p) \/ InboundTimesOut(p))
        /\ WF_vars(Reconnects(p))

Safe == Init /\ [][Next]_vars
Spec == Safe /\ Fairness

-----------------------------------------------------------------------------
TypeOK ==
    /\ priority \in [Peer -> Priority]
    /\ client \in [Peer -> BOOLEAN]
    /\ sat \in [Peer -> BOOLEAN]
    /\ peerActive \in [Peer -> BOOLEAN]
    /\ yielded \in [Peer -> BOOLEAN]
    /\ obReady \in [Peer -> BOOLEAN]
    /\ ibReady \in [Peer -> BOOLEAN]
    /\ trunkTalker \in [Peer -> Peer \cup {NoOne}]
    /\ broken \in SUBSET Peer
    /\ stopped \in SUBSET Peer
    /\ up \in [Peer -> Seq(Msg)]
    /\ down \in [Peer -> Seq(Msg)]
    /\ losses \in 0 .. MaxLosses
    /\ frames \in [Peer -> 0 .. MaxFrames]
    /\ heard \in [Peer -> Seq(1 .. MaxFrames)]

(***************************************************************************)
(* The trunk talker shown to the clients talks, as far as the reflector    *)
(* can know: its own satellite does, or its peer has claimed the group.    *)
(***************************************************************************)
ShownTalkerIsKnown ==
    \A p \in Peer :
        /\ trunkTalker[p] = p => sat[p]
        /\ trunkTalker[p] = Other(p) => peerActive[p]

(* A reflector mutes its own audio only while it lets the peer's through. *)
YieldsOnlyToActive == \A p \in Peer : yielded[p] => peerActive[p]

(* Two reflectors never both give way, even with equal nonces. *)
NeverBothYield == ~ \A p \in Peer : yielded[p]

(***************************************************************************)
(* A lock left behind by a lost or overtaken message is cleared by a later *)
(* turn of the peer (handleMsgTrunkTalkerStop) as long as one of the two   *)
(* clients still tries to connect: if the satellite of the peer starts and *)
(* stops for ever, the group is free for ever and again.  Once the         *)
(* heartbeats of both outbound connections have timed out no message is    *)
(* ever sent (GeuTrunkLink.cpp:1062), and the lock may stay for good.      *)
(***************************************************************************)
NextTurnHeals ==
    \A p \in Peer :
        ([](stopped # Peer) /\ []<>sat[Other(p)] /\ []<>~sat[Other(p)])
            => []<>~peerActive[p]

(* A reflector that gave way does not stay muted once the peer is silent. *)
YieldEnds ==
    \A p \in Peer : (yielded[p] /\ ~sat[Other(p)]) ~> (~yielded[p] \/ sat[Other(p)])

-----------------------------------------------------------------------------
(* ReflectorMsg.h, MsgTrunkTalkerStop: the receiver clears the lock.  This *)
(* holds while no connection and no satellite is lost in the middle of a   *)
(* turn; after such a loss only NextTurnHeals is left.                     *)
StopReleases ==
    \A p \in Peer :
        (peerActive[p] /\ ~sat[Other(p)]) ~> (~peerActive[p] \/ sat[Other(p)])

=============================================================================
