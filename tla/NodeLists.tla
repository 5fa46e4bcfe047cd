----------------------------- MODULE NodeLists ------------------------------
(***************************************************************************)
(* How a reflector knows which node is behind which trunk: its own nodes,  *)
(* entered anew by a timer that also sends the list of the nodes to the    *)
(* UDP peers (Brodcast_list_to_peer_routing), the lists of the UDP peers,  *)
(* which run the same timer, and those that a TCP trunk sends when a       *)
(* client connects or leaves (sendNodeListToAllPeers).  The table is that  *)
(* of one reflector, Own; the nodes move between the reflectors.           *)
(***************************************************************************)
EXTENDS RoutingTable, Sequences, FiniteSets

CONSTANTS
    Own,        \* "127.0.0.1", the reflector itself
    Udp, Tcp,   \* the UDP peers and the TCP trunks
    OwnTtl,     \* 30 s in periods of the timer
    PeerTtl,    \* 300 s in periods of the timer
    MaxWire,    \* bound on the lists under way from each peer
    MaxFaults   \* bound on the lists that are lost or overtaken

ASSUME ListAssumption ==
    /\ Trunk = {Own} \cup Udp \cup Tcp
    /\ Own \notin Udp \cup Tcp /\ Udp \cap Tcp = {}
    /\ OwnTtl \in Nat \ {0, 1} /\ PeerTtl \in Nat \ {0, 1}
    /\ MaxWire \in [Udp \cup Tcp -> Nat] /\ MaxFaults \in Nat

VARIABLES
    home,      \* the reflector each node is logged in at, or NoTrunk
    node_table,
    wire,      \* the lists under way from each peer
    due,       \* the reflectors whose timer has still to expire in this period
    alive,     \* the peers that run
    faults

vars == <<home, node_table, wire, due, alive, faults>>

At(r) == {c \in Callsign : home[c] = r}

Init ==
    /\ home = [c \in Callsign |-> NoTrunk]
    /\ node_table = Empty
    /\ wire = [r \in Udp \cup Tcp |-> << >>]
    /\ due = {}
    /\ alive = Trunk
    /\ faults = 0

-----------------------------------------------------------------------------
(* sendNodeList of a peer: what it has under way is full at MaxWire[r]. *)
Send(r) == wire' = [wire EXCEPT ![r] = Append(@, At(r))]

(* A login completes: nothing is sent. *)
Login(c, r) ==
    /\ home[c] = NoTrunk /\ r \in alive
    /\ home' = [home EXCEPT ![c] = r]
    /\ UNCHANGED <<node_table, wire, due, alive, faults>>

(* A node leaves: its reflector tells its TCP peers at once, when the link *)
(* is up (ready), and the UDP peers with the next list.                    *)
Logout(c, ready) ==
    LET r == home[c] IN
    /\ r # NoTrunk
    /\ home' = [home EXCEPT ![c] = NoTrunk]
    /\ IF r \in Tcp /\ ready
       THEN Len(wire[r]) < MaxWire[r] /\ wire' = [wire EXCEPT ![r] = Append(@, At(r) \ {c})]
       ELSE UNCHANGED wire
    /\ UNCHANGED <<node_table, due, alive, faults>>

(* A client connects to a TCP peer, which has no callsign yet. *)
ClientConnected(r) ==
    /\ r \in alive /\ Len(wire[r]) < MaxWire[r]
    /\ Send(r)
    /\ UNCHANGED <<home, node_table, due, alive, faults>>

(* The timer of a UDP peer. *)
PeerTimer(r) ==
    /\ r \in due /\ Len(wire[r]) < MaxWire[r]
    /\ Send(r)
    /\ due' = due \ {r}
    /\ UNCHANGED <<home, node_table, alive, faults>>

(* A list of nodes replaces what was known of the trunk. *)
Replaced(rt, r, list, ttl) ==
    RefreshTtlByTrunk(Upsert(RemoveByTrunk(rt, r), list, r), r, ttl)

(* Brodcast_list_to_peer_routing *)
OwnTimer ==
    /\ Own \in due
    /\ node_table' = Replaced(RemoveExpired(node_table), Own, At(Own), OwnTtl)
    /\ due' = due \ {Own}
    /\ UNCHANGED <<home, wire, alive, faults>>

(* Message 133 in on_trunk_udp_data_recived. *)
UdpList(r) ==
    /\ wire[r] # << >>
    /\ wire' = [wire EXCEPT ![r] = Tail(@)]
    /\ node_table' = Replaced(node_table, r, Head(wire[r]), PeerTtl)
    /\ UNCHANGED <<home, due, alive, faults>>

(* onPeerNodeList *)
TcpList(r) ==
    /\ wire[r] # << >>
    /\ wire' = [wire EXCEPT ![r] = Tail(@)]
    /\ node_table' = Upsert(node_table, Head(wire[r]), r)
    /\ UNCHANGED <<home, due, alive, faults>>

(* The next period: a list takes less than MaxWire periods to arrive. *)
Period ==
    /\ due = {}
    /\ \A r \in Udp : Len(wire[r]) < MaxWire[r]
    /\ due' = alive \ Tcp
    /\ node_table' = Aged(node_table)
    /\ UNCHANGED <<home, wire, alive, faults>>

(* A UDP peer is gone for good, and its nodes with it. *)
PeerGone(r) ==
    /\ r \in alive
    /\ alive' = alive \ {r} /\ due' = due \ {r}
    /\ home' = [c \in Callsign |-> IF home[c] = r THEN NoTrunk ELSE home[c]]
    /\ UNCHANGED <<node_table, wire, faults>>

(* The network loses a list or delivers the next one before it. *)
Lose(r) ==
    /\ wire[r] # << >> /\ faults < MaxFaults
    /\ wire' = [wire EXCEPT ![r] = Tail(@)]
    /\ faults' = faults + 1
    /\ UNCHANGED <<home, node_table, due, alive>>

Overtake(r) ==
    /\ Len(wire[r]) > 1 /\ faults < MaxFaults
    /\ wire' = [wire EXCEPT ![r] = <<@[2], @[1]>> \o SubSeq(@, 3, Len(@))]
    /\ faults' = faults + 1
    /\ UNCHANGED <<home, node_table, due, alive>>

Next ==
    \/ \E c \in Callsign : (\E r \in Trunk : Login(c, r)) \/ (\E b \in BOOLEAN : Logout(c, b))
    \/ \E r \in Tcp : ClientConnected(r) \/ TcpList(r)
    \/ \E r \in Udp : PeerTimer(r) \/ UdpList(r) \/ Lose(r) \/ Overtake(r)
    \/ \E r \in Udp : PeerGone(r)
    \/ OwnTimer \/ Period

Safe == Init /\ [][Next]_vars

(* The timers run and what is sent and not lost arrives. *)
Spec ==
    /\ Safe
    /\ WF_vars(Period) /\ WF_vars(OwnTimer)
    /\ \A r \in Udp : WF_vars(PeerTimer(r)) /\ WF_vars(UdpList(r))
    /\ \A r \in Tcp : WF_vars(TcpList(r))

-----------------------------------------------------------------------------
(* upsert, remove_by_trunk, remove_expired and refresh_ttl_by_trunk keep   *)
(* the table and the index of its trunks in step, whatever node moves      *)
(* between trunks: else a list would leave nodes behind or take others'.   *)
IndexAgrees == IndicesMatch(node_table)

(* A node that has left a reflector for good, or whose reflector is gone,  *)
(* is not shown behind it for ever: also when lists are lost or late.      *)
(* (Nodes behind a TCP trunk have no expiry and stay.)                     *)
LeaverIsForgotten ==
    \A r \in {Own} \cup Udp, c \in Callsign :
        <>[](home[c] # r) => <>[](c \notin FindByTrunk(node_table, r))

(* A node that stays is shown where it is, and goes on being shown,        *)
(* whatever trunk it was behind before and whatever lists are still on     *)
(* their way.                                                              *)
StayerIsShown ==
    \A r \in {Own} \cup Udp, c \in Callsign :
        <>[](home[c] = r) => <>[](c \in FindByTrunk(node_table, r))
=============================================================================
