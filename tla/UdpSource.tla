----------------------------- MODULE UdpSource ------------------------------
(***************************************************************************)
(* The datagrams of the nodes (udpCipherDataReceived, udpDatagramReceived  *)
(* and the lookups of ReflectorClient): from which source a node is known  *)
(* and which of its frames are taken.  A node of protocol 3 registers with *)
(* a datagram of number 0, and its source then tells whose key its frames  *)
(* need; a node of protocol 2 names itself in every frame and numbers them *)
(* with 16 bits.                                                           *)
(*                                                                         *)
(* The login is left to ClientSession: a client here is in session,        *)
(* leaving after sendError, or gone.  The network loses, repeats and       *)
(* delays datagrams, and may give a node another source.                   *)
(***************************************************************************)
EXTENDS Integers, FiniteSets

CONSTANTS
    Client,     \* the ReflectorClients, each with a node
    NoClient,   \* nullptr
    Host, Port, \* what a source consists of
    RemoteHost, \* remoteHost, the host of the connection of each client
    None,       \* no port and no source
    Width,      \* 2^16, the numbers of protocol 2
    MaxDelay,   \* how many frames late a datagram may be
    MayBeV2,    \* the clients that may be of a protocol before 3
    UdpReset,   \* UDP_HEARTBEAT_RX_CNT_RESET
    MaxNumber,  \* bound on the numbers of protocol 3
    MaxWire     \* bound on the datagrams under way from each node

ASSUME SourceAssumption ==
    /\ NoClient \notin Client
    /\ None \notin Port /\ None \notin [host : Host, port : Port]
    /\ RemoteHost \in [Client -> Host]
    /\ MayBeV2 \subseteq Client
    /\ Width \in Nat /\ Width % 2 = 0 /\ Width > 0
    /\ MaxDelay \in 0 .. (Width \div 2 - 1)
    /\ UdpReset \in Nat \ {0} /\ MaxNumber \in Nat /\ MaxWire \in [Client -> Nat]

Source == [host : Host, port : Port]

VARIABLES
    con,             \* what has become of each client
    v2,              \* the clients before protocol 3
    remote_udp_port, \* m_remote_udp_port, None for 0
    client_src,      \* m_client_src
    client_src_map,  \* client_src_map
    next_rx,         \* m_next_udp_rx_seq
    udp,             \* m_udp_heartbeat_rx_cnt
    at,              \* the source of each node, None when it does not run
    next_tx,         \* the number of its next frame
    wire,            \* the datagrams under way
    newest           \* how old the newest frame is that was taken of each node

Of(c) == {d \in wire : d.client = c}

table == <<remote_udp_port, client_src, client_src_map>>
node == <<v2, at, next_tx>>
vars == <<con, table, next_rx, udp, node, wire, newest>>

Alive(c) == con[c] \in {"connected", "leaving"}

(* Ages count frames; what is as old as this is older than any under way. *)
Ancient == MaxDelay + 1
Older(age) == IF age < Ancient THEN age + 1 ELSE age

(* What a node sends: reg is a registration, number 0. *)
Datagram == [client : Client, reg : BOOLEAN, src : Source, seq : Nat, age : 0 .. MaxDelay]

Init ==
    /\ con = [c \in Client |-> "none"]
    /\ v2 \in SUBSET MayBeV2
    /\ remote_udp_port = [c \in Client |-> None]
    /\ client_src = [c \in Client |-> None]
    /\ client_src_map = [s \in Source |-> NoClient]
    /\ next_rx = [c \in Client |-> 0]
    /\ udp = [c \in Client |-> UdpReset]
    /\ at = [c \in Client |-> None]
    /\ next_tx = [c \in Client |-> IF c \in v2 THEN 0 ELSE 1]
    /\ wire = {}
    /\ newest = [c \in Client |-> Ancient]

-----------------------------------------------------------------------------
(* The nodes and the network *)

(* A node logs in, from a source that no other node has now. *)
Connects(c, s) ==
    /\ con[c] = "none" /\ s.host = RemoteHost[c] /\ \A d \in Client : at[d] # s
    /\ con' = [con EXCEPT ![c] = "connected"]
    /\ at' = [at EXCEPT ![c] = s]
    /\ UNCHANGED <<v2, next_tx, table, next_rx, udp, wire, newest>>

Moves(c, s) ==
    /\ at[c] # None /\ \A d \in Client : at[d] # s
    /\ at' = [at EXCEPT ![c] = s]
    /\ UNCHANGED <<con, v2, next_tx, table, next_rx, udp, wire, newest>>

(* A node of protocol 3 registers, and does so again until it is answered. *)
Registers(c) ==
    /\ at[c] # None /\ c \notin v2 /\ Cardinality(Of(c)) < MaxWire[c]
    /\ wire' = wire \cup {[client |-> c, reg |-> TRUE, src |-> at[c], seq |-> 0, age |-> 0]}
    /\ UNCHANGED <<con, node, table, next_rx, udp, newest>>

(* A frame; those that are too late by now do not arrive any more. *)
Sends(c) ==
    /\ at[c] # None /\ (c \in v2 \/ next_tx[c] <= MaxNumber)
    /\ LET under_way == {d \in Of(c) : d.reg \/ d.age < MaxDelay} IN
       /\ Cardinality(under_way) < MaxWire[c]
       /\ wire' = (wire \ Of(c))
                  \cup {IF d.reg THEN d ELSE [d EXCEPT !.age = @ + 1] : d \in under_way}
                  \cup {[client |-> c, reg |-> FALSE, src |-> at[c], seq |-> next_tx[c], age |-> 0]}
    /\ next_tx' = [next_tx EXCEPT ![c] = IF c \in v2 THEN (@ + 1) % Width ELSE @ + 1]
    /\ newest' = [newest EXCEPT ![c] = Older(@)]
    /\ UNCHANGED <<con, v2, at, table, next_rx, udp>>

Lost(d) ==
    /\ d \in wire
    /\ wire' = wire \ {d}
    /\ UNCHANGED <<con, node, table, next_rx, udp, newest>>

-----------------------------------------------------------------------------
(* The session *)

(* sendError: the port is forgotten, the source and its entry are not. *)
Refused(c) ==
    /\ con[c] = "connected"
    /\ con' = [con EXCEPT ![c] = "leaving"]
    /\ remote_udp_port' = [remote_udp_port EXCEPT ![c] = None]
    /\ UNCHANGED <<client_src, client_src_map, next_rx, udp, node, wire, newest>>

(* The bug of a destructor that leaves the entry of its source. *)
EntryLeft(c) == client_src_map

(* client_src_map.erase(m_client_src), whosever the entry is by now. *)
EntryErased(c) ==
    IF client_src[c] = None THEN client_src_map
    ELSE [client_src_map EXCEPT ![client_src[c]] = NoClient]

(* ~ReflectorClient.  Its node stops, if it has not before; what it has    *)
(* under way will be looked up in vain.                                    *)
Deleted(c) ==
    /\ Alive(c)
    /\ con' = [con EXCEPT ![c] = "gone"]
    /\ remote_udp_port' = [remote_udp_port EXCEPT ![c] = None]
    /\ client_src_map' = EntryErased(c)
    /\ next_rx' = [next_rx EXCEPT ![c] = 0]
    /\ udp' = [udp EXCEPT ![c] = UdpReset]
    /\ newest' = [newest EXCEPT ![c] = Ancient]
    /\ at' = [at EXCEPT ![c] = None]
    /\ next_tx' = [next_tx EXCEPT ![c] = 0]
    /\ wire' = wire \ Of(c)
    /\ UNCHANGED <<client_src, v2>>

(* handleHeartbeat: who has not been heard for so long is refused. *)
Tick ==
    LET silent == {c \in Client : con[c] = "connected" /\ udp[c] = 1} IN
    /\ \E c \in Client : con[c] = "connected"
    /\ udp' = [c \in Client |-> IF con[c] = "connected" THEN udp[c] - 1 ELSE udp[c]]
    /\ con' = [c \in Client |-> IF c \in silent THEN "leaving" ELSE con[c]]
    /\ remote_udp_port' = [c \in Client |-> IF c \in silent THEN None ELSE remote_udp_port[c]]
    /\ UNCHANGED <<client_src, client_src_map, next_rx, node, wire, newest>>

-----------------------------------------------------------------------------
(* The reflector receives a datagram. *)

(***************************************************************************)
(* Who the datagram is of, by what the two functions look up.  A datagram  *)
(* from a source with an entry is decrypted with the key of that client,   *)
(* and fails to be if it is another's or not encrypted at all.  Of a       *)
(* client that is gone the key is read from freed memory: it is not the    *)
(* right one, and the program may end there, until when the model holds.   *)
(* An encrypted frame from a source without an entry is read as one of     *)
(* protocol 2, whose client there is taken not to exist.                   *)
(***************************************************************************)
Sender(d) ==
    LET entry == client_src_map[d.src] IN
    IF d.reg THEN IF Alive(d.client) THEN d.client ELSE NoClient
    ELSE IF d.client \in v2
         THEN IF entry = NoClient /\ Alive(d.client) /\ d.src.host = RemoteHost[d.client]
              THEN d.client ELSE NoClient
         ELSE IF entry = d.client /\ Alive(entry) THEN entry ELSE NoClient

(* setRemoteUdpSource, when there is no port yet *)
PortOf(c, d) == IF remote_udp_port[c] = None THEN d.src.port ELSE remote_udp_port[c]

SourceSet(c, d) ==
    /\ remote_udp_port' = [remote_udp_port EXCEPT ![c] = PortOf(c, d)]
    /\ IF remote_udp_port[c] = None /\ c \notin v2
       THEN /\ client_src' = [client_src EXCEPT ![c] = d.src]
            /\ client_src_map' = [client_src_map EXCEPT ![d.src] = c]
       ELSE UNCHANGED <<client_src, client_src_map>>

Expected(c, d) == IF d.reg THEN 0 ELSE next_rx[c]

(* The bug of a window that is one too wide. *)
WindowTooWide(c, d) ==
    IF c \in v2 THEN (d.seq - next_rx[c]) % Width <= Width \div 2
                ELSE d.seq >= Expected(c, d)

(* The frame is not out of sequence. *)
InSequence(c, d) ==
    IF c \in v2 THEN (d.seq - next_rx[c]) % Width <= Width \div 2 - 1
                ELSE d.seq >= Expected(c, d)

Accepted(c, d) == d.src.port = PortOf(c, d) /\ InSequence(c, d)

(* The bug of a count that any datagram restarts. *)
AnyIsHeard(c, d) == UdpReset

HeardBy(c, d) == IF Accepted(c, d) THEN UdpReset ELSE udp[c]

(* A registration restarts the numbers, also when it is then refused. *)
Received(d) ==
    LET c == Sender(d) IN
    IF c = NoClient THEN UNCHANGED <<table, next_rx, udp, newest>>
    ELSE /\ SourceSet(c, d)
         /\ udp' = [udp EXCEPT ![c] = HeardBy(c, d)]
         /\ next_rx' = [next_rx EXCEPT ![c] =
                          IF Accepted(c, d) THEN IF c \in v2 THEN (d.seq + 1) % Width ELSE d.seq + 1
                          ELSE Expected(c, d)]
         /\ newest' = [newest EXCEPT ![c] =
                          IF d.reg THEN Ancient ELSE IF Accepted(c, d) THEN d.age ELSE @]

(* udpDatagramReceived; the datagram may arrive once more until it is lost. *)
Receive(d) ==
    /\ d \in wire
    /\ Received(d)
    /\ UNCHANGED <<con, node, wire>>

-----------------------------------------------------------------------------
Next ==
    \/ \E c \in Client, s \in Source : Connects(c, s) \/ Moves(c, s)
    \/ \E c \in Client : Registers(c) \/ Sends(c) \/ Refused(c) \/ Deleted(c)
    \/ \E d \in wire : Lost(d) \/ Receive(d)
    \/ Tick

Safe == Init /\ [][Next]_vars

(* The heartbeat timer runs. *)
Spec == Safe /\ WF_vars(Tick)

-----------------------------------------------------------------------------
(* A client is known by one source, that of its replies, for as long as it *)
(* is in session, and by none when it is gone.  Only one that registered   *)
(* again while it was leaving has left an entry behind, which then refers  *)
(* to a deleted client (setRemoteUdpSource, ~ReflectorClient).             *)
OneSource ==
    \A s \in Source : LET c == client_src_map[s] IN c # NoClient =>
        \/ Alive(c) /\ client_src[c] = s
        \/ con[c] \in {"leaving", "gone"} /\ client_src[c] # s

(* Whatever the network delays or repeats, a frame is taken only if it was *)
(* sent after every frame taken since the last registration: also when the *)
(* 16 bit numbers of protocol 2 wrap, however many frames are lost.        *)
TakenInOrder ==
    \A d \in wire : LET c == Sender(d) IN
        c # NoClient /\ ~d.reg /\ Accepted(c, d) => d.age < newest[c]

TakenFrom(c) ==
    \E d \in wire : Sender(d) = c /\ Accepted(c, d) /\ Receive(d)

(* A client whose datagrams are all refused, say because another client    *)
(* took its entry with it, does not stay for ever: it is thrown out and    *)
(* can log in anew.                                                        *)
UnheardLeaves ==
    \A c \in Client : <>[](con[c] = "connected") => []<><<TakenFrom(c)>>_vars
=============================================================================
