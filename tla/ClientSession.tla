--------------------------- MODULE ClientSession ---------------------------
(***************************************************************************)
(* The session of a node with the reflector (ReflectorClient, and          *)
(* clientConnected, clientDisconnected and broadcastMsg of Reflector): the *)
(* login, the two heartbeats, the ways to leave, and what the nodes are    *)
(* told of each other.                                                     *)
(*                                                                         *)
(* A connection is used once: a node that comes back gets a new            *)
(* ReflectorClient.  Certificates, keys and nonces are abstracted to       *)
(* whether the node presents a good one, for which callsign.               *)
(***************************************************************************)
EXTENDS Naturals, FiniteSets

CONSTANTS
    Con,       \* the connections, a ReflectorClient each
    Callsign,  \* callsigns that are well formed
    NoCall,    \* the empty callsign
    NoCon,     \* no ReflectorClient
    TcpReset,  \* HEARTBEAT_RX_CNT_RESET
    UdpReset   \* UDP_HEARTBEAT_RX_CNT_RESET

ASSUME SessionAssumption ==
    /\ NoCall \notin Callsign
    /\ NoCon \notin Con
    /\ TcpReset \in Nat \ {0}
    /\ UdpReset \in Nat \ {0}

VARIABLES
    session,     \* the ReflectorClient of each connection, see Session
    byCallsign,  \* client_callsign_map
    known,       \* the callsigns that each node has been told are connected
    dead         \* nodes that have vanished without closing the connection

vars == <<session, byCallsign, known, dead>>

(* m_con_state: "leaving" is STATE_EXPECT_DISCONNECT; "none" and "gone" are *)
(* before and after the life of the object.                                *)
Login == {"proto", "encryption", "ssl", "csr", "auth"}
State == Login \cup {"connected", "leaving", "none", "gone"}

Session == [state : State,
            callsign : Callsign \cup {NoCall},
            beating : BOOLEAN,          \* m_heartbeat_timer is enabled
            rx : 0 .. TcpReset,         \* m_heartbeat_rx_cnt
            udp : 0 .. UdpReset,        \* m_udp_heartbeat_rx_cnt
            closing : BOOLEAN,          \* m_disc_timer is enabled
            handshake : BOOLEAN]        \* the SSL handshake is under way

Absent(s) == [state |-> s, callsign |-> NoCall, beating |-> FALSE, rx |-> 0,
              udp |-> 0, closing |-> FALSE, handshake |-> FALSE]
Fresh == [state |-> "proto", callsign |-> NoCall, beating |-> TRUE, rx |-> TcpReset,
          udp |-> UdpReset, closing |-> FALSE, handshake |-> FALSE]

Alive(c) == session[c].state \notin {"none", "gone"}
InState(c, s) == session[c].state = s
Named == {c \in Con : session[c].callsign # NoCall}

(* nodeList: every client with a callsign, those that are leaving as well. *)
NodeListConnected == {session[c].callsign : c \in {d \in Named : InState(d, "connected")}}
NodeList == {session[c].callsign : c \in Named}

Init ==
    /\ session = [c \in Con |-> Absent("none")]
    /\ byCallsign = [cs \in Callsign |-> NoCon]
    /\ known = [c \in Con |-> {}]
    /\ dead = {}

-----------------------------------------------------------------------------
(* What becomes of the session s by a call of sendError. *)
ErrorSentWithoutTimer(s) == [s EXCEPT !.state = "leaving", !.beating = FALSE]
ErrorSent(s) == [s EXCEPT !.state = "leaving", !.beating = FALSE, !.closing = TRUE]

(* A frame has been taken note of. *)
Heard(s) == [s EXCEPT !.rx = TcpReset]
MovesTo(c, s) == session' = [session EXCEPT ![c] = [Heard(@) EXCEPT !.state = s]]
Refused(c) == session' = [session EXCEPT ![c] = ErrorSent(Heard(@))]
NobodyTold == UNCHANGED <<byCallsign, known, dead>>

(* onFrameReceived: frames are read until the client is to leave. *)
ListensAlways(c) == Alive(c)
Listens(c) == Alive(c) /\ ~InState(c, "leaving")

FrameReceived(c) == Listens(c) /\ c \notin dead /\ ~session[c].handshake

ClientConnected(c) ==
    /\ InState(c, "none")
    /\ session' = [session EXCEPT ![c] = Fresh]
    /\ NobodyTold

(* MsgNodeLeft, to those who are connected, about a client with a callsign *)
ToldIfConnected(c) ==
    [d \in Con |-> IF d = c THEN {}
                   ELSE IF InState(d, "connected") /\ InState(c, "connected")
                        THEN known[d] \ {session[c].callsign} ELSE known[d]]
ToldThatLeft(c) ==
    [d \in Con |-> IF d = c THEN {}
                   ELSE IF InState(d, "connected")
                        THEN known[d] \ {session[c].callsign} ELSE known[d]]

(* disconnect() or a lost connection: clientDisconnected, ~ReflectorClient *)
Removed(c) ==
    /\ session' = [session EXCEPT ![c] = Absent("gone")]
    /\ byCallsign' = [cs \in Callsign |->
                        IF cs = session[c].callsign THEN NoCon ELSE byCallsign[cs]]
    /\ known' = ToldThatLeft(c)
    /\ UNCHANGED dead

(***************************************************************************)
(* connectionAuthenticated, on the session s of c: a callsign that is in   *)
(* the node list is refused.  MsgServerInfo tells the node who is there,   *)
(* itself included; MsgNodeJoined tells the others.                        *)
(***************************************************************************)
Authenticated(c, s, cs) ==
    IF cs \in NodeList
    THEN /\ session' = [session EXCEPT ![c] = ErrorSent(s)]
         /\ NobodyTold
    ELSE /\ session' = [session EXCEPT ![c] = [s EXCEPT !.state = "connected", !.callsign = cs]]
         /\ byCallsign' = [byCallsign EXCEPT ![cs] = c]
         /\ known' = [d \in Con |-> IF d = c THEN NodeList \cup {cs}
                                    ELSE IF InState(d, "connected") THEN known[d] \cup {cs}
                                    ELSE known[d]]
         /\ UNCHANGED dead

-----------------------------------------------------------------------------
(* A heartbeat, or any message that leaves the session as it is. *)
Heartbeat(c) ==
    /\ FrameReceived(c)
    /\ session' = [session EXCEPT ![c] = Heard(@)]
    /\ NobodyTold

(* handleMsgProtoVer: refused, asked to downgrade, version 3, or older *)
ProtoVer(c) ==
    /\ FrameReceived(c)
    /\ \/ Refused(c)
       \/ InState(c, "proto") /\ \E s \in {"proto", "encryption", "auth"} : MovesTo(c, s)
    /\ NobodyTold

(* handleMsgStartEncryptionRequest; handleMsgCABundleRequest has its guard *)
StartEncryption(c) ==
    /\ FrameReceived(c)
    /\ InState(c, "encryption")
    /\ session' = [session EXCEPT ![c] =
           [Heard(@) EXCEPT !.state = "ssl", !.handshake = TRUE]]
    /\ NobodyTold

(* A request out of place, or one that cannot be unpacked: disconnect() *)
BadEncryption(c) == FrameReceived(c) /\ Removed(c)

(* onSslConnectionReady: no certificate, one without a callsign, a good one *)
SslConnectionReady(c) ==
    LET s == [session[c] EXCEPT !.handshake = FALSE] IN
    /\ session[c].handshake
    /\ c \notin dead
    /\ IF InState(c, "ssl")
       THEN \/ session' = [session EXCEPT ![c] = [s EXCEPT !.state = "csr"]] /\ NobodyTold
            \/ Removed(c)
            \/ \E cs \in Callsign : Authenticated(c, s, cs)
       ELSE Removed(c)

(* handleMsgAuthResponse *)
AuthResponse(c) ==
    /\ FrameReceived(c)
    /\ \/ Refused(c) /\ NobodyTold
       \/ /\ InState(c, "auth")
          /\ \E cs \in Callsign : Authenticated(c, Heard(session[c]), cs)

(* handleMsgClientCsr: refused at once, answered with the certificate, or  *)
(* left for later, in which case an unknown node is challenged             *)
CsrRefused(c) == Refused(c)

ClientCsr(c) ==
    /\ FrameReceived(c)
    /\ \/ CsrRefused(c)
       \/ session[c].state \in {"csr", "connected"} /\ MovesTo(c, "leaving")
       \/ InState(c, "csr") /\ MovesTo(c, "auth")
    /\ NobodyTold

(* handleMsgError *)
ErrorReceived(c) == FrameReceived(c) /\ Removed(c)

(* renewClientCertificate, by its timer *)
RenewClientCertificate(c) ==
    /\ InState(c, "connected")
    /\ session' = [session EXCEPT ![c].state = "leaving"]
    /\ NobodyTold

(* udpMsgReceived.  A node learns its client id from MsgServerInfo. *)
UdpReceived(c) ==
    /\ Alive(c) /\ c \notin dead
    /\ session[c].callsign # NoCall
    /\ session' = [session EXCEPT ![c].udp = UdpReset]
    /\ NobodyTold

-----------------------------------------------------------------------------
(* handleHeartbeat counts both counters down; UDP also during the login. *)
CountedOnceNamed(s) ==
    [s EXCEPT !.rx = @ - 1, !.udp = IF s.callsign = NoCall THEN @ ELSE @ - 1]
Counted(s) == [s EXCEPT !.rx = @ - 1, !.udp = @ - 1]

HandleHeartbeat(c) ==
    LET s == Counted(session[c]) IN
    /\ session[c].beating
    /\ session' = [session EXCEPT ![c] = IF s.rx = 0 \/ s.udp = 0 THEN ErrorSent(s) ELSE s]
    /\ NobodyTold

DiscTimeout(c) == session[c].closing /\ Removed(c)

(* The node closes the connection. *)
Closed(c) == Alive(c) /\ c \notin dead /\ Removed(c)

(* The node vanishes. *)
Vanishes(c) ==
    /\ Alive(c) /\ c \notin dead
    /\ dead' = dead \cup {c}
    /\ UNCHANGED <<session, byCallsign, known>>

Next ==
    \E c \in Con :
        \/ ClientConnected(c)
        \/ Heartbeat(c)
        \/ ProtoVer(c)
        \/ StartEncryption(c)
        \/ BadEncryption(c)
        \/ SslConnectionReady(c)
        \/ AuthResponse(c)
        \/ ClientCsr(c)
        \/ ErrorReceived(c)
        \/ RenewClientCertificate(c)
        \/ UdpReceived(c)
        \/ HandleHeartbeat(c)
        \/ DiscTimeout(c)
        \/ Closed(c)
        \/ Vanishes(c)

(* The timers of the reflector expire; no node is obliged to do anything. *)
Fairness == \A c \in Con : WF_vars(HandleHeartbeat(c)) /\ WF_vars(DiscTimeout(c))

Safe == Init /\ [][Next]_vars
Spec == Safe /\ Fairness

-----------------------------------------------------------------------------
TypeOK ==
    /\ session \in [Con -> Session]
    /\ byCallsign \in [Callsign -> Con \cup {NoCon}]
    /\ known \in [Con -> SUBSET Callsign]
    /\ dead \in SUBSET Con

(***************************************************************************)
(* client_callsign_map and the callsigns of the clients are the inverse of *)
(* each other: no two clients share a callsign, none that is gone is found *)
(* (connectionAuthenticated asserts a part of it).                         *)
(***************************************************************************)
LookupFinds ==
    \A cs \in Callsign, c \in Con : byCallsign[cs] = c <=> session[c].callsign = cs

(***************************************************************************)
(* What a connected node has been told, by MsgServerInfo, MsgNodeJoined    *)
(* and MsgNodeLeft, is the node list of the reflector.                     *)
(***************************************************************************)
NodeListsAgree == \A c \in Con : InState(c, "connected") => known[c] = NodeList

(* onDiscTimeout asserts it: nothing leads back from a client to be closed. *)
ClosingIsLeaving == \A c \in Con : session[c].closing => InState(c, "leaving")

(* A client that is to leave is closed, whatever it still sends. *)
LeaverGoes == \A c \in Con : InState(c, "leaving") ~> InState(c, "gone")

(* A login does not last for ever, even if the node keeps TCP alive. *)
StrangerGoes ==
    \A c \in Con : session[c].state \in Login ~> session[c].state \notin Login

(* A node that has vanished is closed, at any point of its session. *)
VanishedGoes == \A c \in Con : c \in dead ~> InState(c, "gone")

=============================================================================
