---------------------------- MODULE TrunkServer ----------------------------
(***************************************************************************)
(* The listening side of the TCP trunks: Reflector accepts a connection,   *)
(* keeps it in a small pool until it has said hello, and hands it to the   *)
(* TrunkLink that the hello names; the link holds one inbound connection.  *)
(* (Reflector.cpp, trunkClientConnected to trunkPendingTimeout, and the    *)
(* inbound half of GeuTrunkLink.cpp.)                                      *)
(*                                                                         *)
(* TcpConnection::disconnect does not emit the disconnected signal: only a *)
(* close by the peer does.                                                 *)
(***************************************************************************)
EXTENDS Naturals, FiniteSets

CONSTANTS
    Con,            \* connections the listening socket may ever accept
    Ip, IpOf,       \* their source addresses
    Link, NoLink,   \* the configured TrunkLinks
    NoCon,          \* the null connection pointer
    MaxPending,     \* TRUNK_MAX_PENDING_CONS
    MaxPendingPerIp \* two in trunkClientConnected

ASSUME PoolAssumption == MaxPending \in Nat /\ MaxPendingPerIp \in Nat
ASSUME ConAssumption == IpOf \in [Con -> Ip] /\ NoCon \notin Con /\ NoLink \notin Link

VARIABLES
    socket,      \* state of each connection: "new", "open" or "closed"
    silent,      \* open connections whose peer is gone without closing them
    pending,     \* keys of m_trunk_pending_cons
    timer,       \* pending connections whose hello timer still runs
    inboundMap,  \* m_trunk_inbound_map
    inbound      \* m_inbound_con of each link

vars == <<socket, silent, pending, timer, inboundMap, inbound>>

Init ==
    /\ socket = [c \in Con |-> "new"]
    /\ silent = {}
    /\ pending = {}
    /\ timer = {}
    /\ inboundMap = [c \in Con |-> NoLink]
    /\ inbound = [l \in Link |-> NoCon]

PendingFrom(ip) == {d \in pending : IpOf[d] = ip}

(* The two limits that let a connection into the pool. *)
HasRoomPerIp(c) == Cardinality(PendingFrom(IpOf[c])) < MaxPendingPerIp
HasRoom(c) == HasRoomPerIp(c) /\ Cardinality(pending) < MaxPending

(* The hello timer that a pending connection is stored with. *)
TimerFor(c) == timer \cup {c}

(* trunkClientConnected *)
ClientConnected(c) ==
    /\ socket[c] = "new"
    /\ IF HasRoom(c)
       THEN /\ socket' = [socket EXCEPT ![c] = "open"]
            /\ pending' = pending \cup {c}
            /\ timer' = TimerFor(c)
       ELSE /\ socket' = [socket EXCEPT ![c] = "closed"]
            /\ UNCHANGED <<pending, timer>>
    /\ UNCHANGED <<silent, inboundMap, inbound>>

(* c leaves the pool: its entry is erased and its timer deleted. *)
LeavesPool(c) == pending' = pending \ {c} /\ timer' = timer \ {c}

(* The peer of an open connection crashes or is cut off. *)
PeerVanishes(c) ==
    /\ socket[c] = "open"
    /\ c \notin silent
    /\ silent' = silent \cup {c}
    /\ UNCHANGED <<socket, pending, timer, inboundMap, inbound>>

(* onInboundDisconnected forgets c if it is the link's connection. *)
InboundKept(c) == inbound
InboundWithout(c) == [l \in Link |-> IF inbound[l] = c THEN NoCon ELSE inbound[l]]

(* The peer closes c: trunkClientDisconnected. *)
ClientDisconnected(c) ==
    /\ socket[c] = "open"
    /\ c \notin silent
    /\ socket' = [socket EXCEPT ![c] = "closed"]
    /\ IF c \in pending
       THEN LeavesPool(c) /\ UNCHANGED <<inboundMap, inbound>>
       ELSE /\ inboundMap' = [inboundMap EXCEPT ![c] = NoLink]
            /\ inbound' = InboundWithout(c)
            /\ UNCHANGED <<pending, timer>>
    /\ UNCHANGED silent

(* rejectPending: a frame that is not an acceptable hello. *)
BadFrame(c) ==
    /\ c \in pending
    /\ socket[c] = "open"
    /\ c \notin silent
    /\ LeavesPool(c)
    /\ socket' = [socket EXCEPT ![c] = "closed"]
    /\ UNCHANGED <<silent, inboundMap, inbound>>

(* acceptInboundConnection takes c only if the link has no other. *)
AcceptsAny(l) == TRUE
AcceptsInbound(l) == inbound[l] = NoCon

(* trunkPendingFrameReceived with a hello that matches l. *)
HelloReceived(c, l) ==
    /\ c \in pending
    /\ socket[c] = "open"
    /\ c \notin silent
    /\ LeavesPool(c)
    /\ inboundMap' = [inboundMap EXCEPT ![c] = l]
    /\ IF AcceptsInbound(l)
       THEN inbound' = [inbound EXCEPT ![l] = c] /\ UNCHANGED socket
       ELSE socket' = [socket EXCEPT ![c] = "closed"] /\ UNCHANGED inbound
    /\ UNCHANGED silent

(***************************************************************************)
(* trunkPendingTimeout: no hello came in time.  The socket is closed; the  *)
(* entry stays in the pool.                                                *)
(***************************************************************************)
PendingTimeout(c) ==
    /\ c \in timer
    /\ timer' = timer \ {c}
    /\ socket' = [socket EXCEPT ![c] = "closed"]
    /\ UNCHANGED <<silent, pending, inboundMap, inbound>>

(* heartbeatTick of link l when nothing has come in for long enough. *)
TimeoutRemembers(l) == inbound
TimeoutForgets(l) == [inbound EXCEPT ![l] = NoCon]

HeartbeatTimeout(l) ==
    LET c == inbound[l] IN
    /\ c \in silent
    /\ socket' = [socket EXCEPT ![c] = "closed"]
    /\ inbound' = TimeoutForgets(l)
    /\ UNCHANGED <<silent, pending, timer, inboundMap>>

Next ==
    \/ \E c \in Con : ClientConnected(c)
    \/ \E c \in Con : PeerVanishes(c)
    \/ \E c \in Con : ClientDisconnected(c)
    \/ \E c \in Con : BadFrame(c)
    \/ \E c \in Con, l \in Link : HelloReceived(c, l)
    \/ \E c \in Con : PendingTimeout(c)
    \/ \E l \in Link : HeartbeatTimeout(l)

(* Only the timers of the server are sure to act. *)
Fairness ==
    /\ \A c \in Con : WF_vars(PendingTimeout(c))
    /\ \A l \in Link : WF_vars(HeartbeatTimeout(l))

Safe == Init /\ [][Next]_vars
Spec == Safe /\ Fairness

-----------------------------------------------------------------------------
(* The types of the variables; a timer runs only for a pending connection. *)
TypeOK ==
    /\ socket \in [Con -> {"new", "open", "closed"}]
    /\ silent \in SUBSET Con
    /\ pending \in SUBSET Con
    /\ timer \in SUBSET pending
    /\ inboundMap \in [Con -> Link \cup {NoLink}]
    /\ inbound \in [Link -> Con \cup {NoCon}]

(* The pool keeps both limits: no peer and no crowd exhausts descriptors. *)
PoolWithinLimits ==
    /\ Cardinality(pending) <= MaxPending
    /\ \A ip \in Ip : Cardinality(PendingFrom(ip)) <= MaxPendingPerIp

(***************************************************************************)
(* The connection a link holds is open, is the one the reflector maps to   *)
(* that link, and has left the pool: no link writes to a deleted object,   *)
(* and the loss of the connection will reach the link.                     *)
(***************************************************************************)
NoDanglingInbound ==
    \A l \in Link : inbound[l] # NoCon =>
        /\ socket[inbound[l]] = "open"
        /\ inboundMap[inbound[l]] = l
        /\ inbound[l] \notin pending

(* An established inbound connection is lost before another replaces it. *)
NeverReplaced ==
    [][\A l \in Link : inbound[l] # NoCon => inbound'[l] \in {inbound[l], NoCon}]_vars

(* A peer that vanished does not hold its link for ever. *)
SilentPeerIsDropped ==
    \A l \in Link, c \in Con :
        (inbound[l] = c /\ c \in silent) ~> inbound[l] # c

(***************************************************************************)
(* Every connection leaves the pool: what the comment in                   *)
(* trunkPendingTimeout expects of trunkClientDisconnected.                 *)
(***************************************************************************)
PendingIsResolved == \A c \in Con : c \in pending ~> c \notin pending

=============================================================================
