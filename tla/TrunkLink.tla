----------------------------- MODULE TrunkLink -----------------------------
(***************************************************************************)
(* The two TCP connections of a trunk between two reflectors               *)
(* (GeuTrunkLink.cpp, TrunkLink).  Each reflector connects to the other:   *)
(* its outbound connection (m_con, a TcpPrioClient) is the other's inbound *)
(* connection (m_inbound_con).  Hellos, heartbeats, timeouts, and the loss *)
(* and return of the connections are modelled; what is said over them is   *)
(* the subject of TrunkTalk.                                               *)
(*                                                                         *)
(* A connection is named by the reflector that opened it.  The network     *)
(* delivers the frames of a connection in order, within a second; it may   *)
(* cut a connection, after which nothing at all arrives, or reset it.      *)
(*                                                                         *)
(* The specification's own names begin with Link: TrunkProofs extends this *)
(* module and TrunkServer.                                                 *)
(***************************************************************************)
EXTENDS Naturals, Sequences, Functions

CONSTANTS
    Peer,       \* the two reflectors
    TxReset,    \* HEARTBEAT_TX_CNT_RESET
    RxReset,    \* HEARTBEAT_RX_CNT_RESET
    Fault,      \* the faults that may happen: a subset of FaultKind
    MaxFaults,  \* bound on their number
    Talker,     \* the peers that send data
    MaxData     \* bound on data frames under way on a connection

FaultKind == {"cut", "reset", "crash"}

ASSUME PeerAssumption == \E p, q \in Peer : p # q /\ Peer = {p, q}
ASSUME CounterAssumption ==
    /\ TxReset \in Nat \ {0}
    /\ RxReset \in Nat \ {0}
    /\ TxReset + 1 < RxReset
ASSUME FaultAssumption == Fault \subseteq FaultKind /\ MaxFaults \in Nat
ASSUME DataAssumption == Talker \subseteq Peer /\ MaxData \in Nat

VARIABLES
    ob,        \* m_con: "up", "wait" (TcpPrioClient waits before it retries),
               \* "down" (it is trying) or "off" (it is not)
    obHello,   \* m_ob_hello_received
    obTx, obRx,    \* m_ob_hb_tx_cnt, m_ob_hb_rx_cnt
    ib,        \* m_inbound_con: "none", "live", "closing" (its close is under
               \* way) or "stale" (half open: the peer has forgotten it)
    ibHello,   \* m_ib_hello_received
    ibTx, ibRx,    \* m_ib_hb_tx_cnt, m_ib_hb_rx_cnt
    ticking,   \* m_heartbeat_timer is enabled
    up, down,  \* frames under way to the acceptor and to the opener
    cut,       \* connections that deliver nothing any more
    ticked,    \* reflectors whose timer has expired in this second
    faults     \* number of faults of each kind so far

obVars == <<ob, obHello, obTx, obRx>>
ibVars == <<ib, ibHello, ibTx, ibRx>>
net == <<up, down, cut>>
linkVars == <<obVars, ibVars, ticking, net, ticked, faults>>

Other(p) == CHOOSE q \in Peer : q # p

IsOutboundReady(p) == ob[p] = "up" /\ obHello[p]
IsInboundReady(p) == ib[p] # "none" /\ ibHello[p]
IsActive(p) == IsOutboundReady(p) \/ IsInboundReady(p)

(* w with f sent on connection p; on a cut connection it is lost. *)
Sent(w, p, f) == IF p \in cut THEN w ELSE [w EXCEPT ![p] = Append(@, f)]
SentTwice(w, p, f) == Sent(Sent(w, p, f), p, f)

(* What p sends on its inbound connection, opened by q, still reaches q. *)
Heard(p, q) == ib[p] = "live" /\ ob[q] = "up"

(* The timer stays enabled while there is a connection left. *)
StillNeeded(obNow, ibNow) == obNow = "up" \/ ibNow # "none"

LinkInit ==
    /\ ob = [p \in Peer |-> "down"]
    /\ obHello = [p \in Peer |-> FALSE]
    /\ obTx = [p \in Peer |-> 0]
    /\ obRx = [p \in Peer |-> 0]
    /\ ib = [p \in Peer |-> "none"]
    /\ ibHello = [p \in Peer |-> FALSE]
    /\ ibTx = [p \in Peer |-> 0]
    /\ ibRx = [p \in Peer |-> 0]
    /\ ticking = [p \in Peer |-> FALSE]
    /\ up = [p \in Peer |-> << >>]
    /\ down = [p \in Peer |-> << >>]
    /\ cut = {}
    /\ ticked = {}
    /\ faults = [k \in FaultKind |-> 0]

-----------------------------------------------------------------------------
(* What the acceptor still holds of p's earlier connection. *)
Superseded(p) ==
    IF ib[Other(p)] # "live" THEN ib[Other(p)]
    ELSE IF "fin" \in {up[p][i] : i \in DOMAIN up[p]} THEN "closing" ELSE "stale"

(* onConnected: p says hello on its new connection. *)
OnConnected(p) ==
    /\ ob[p] = "down"
    /\ ob' = [ob EXCEPT ![p] = "up"]
    /\ obHello' = [obHello EXCEPT ![p] = FALSE]
    /\ obTx' = [obTx EXCEPT ![p] = TxReset]
    /\ obRx' = [obRx EXCEPT ![p] = RxReset]
    /\ ticking' = [ticking EXCEPT ![p] = TRUE]
    /\ ib' = [ib EXCEPT ![Other(p)] = Superseded(p)]
    /\ up' = [up EXCEPT ![p] = <<"hello">>]
    /\ down' = [down EXCEPT ![p] = << >>]
    /\ cut' = cut \ {p}
    /\ UNCHANGED <<ibHello, ibTx, ibRx, ticked, faults>>

(* After a close by the peer TcpPrioClient waits, then tries again. *)
GivesUp == "off"
Retries == "wait"

(* The outbound connection of p is lost. *)
OutboundLost(p) ==
    /\ ob' = [ob EXCEPT ![p] = Retries]
    /\ obHello' = [obHello EXCEPT ![p] = FALSE]
    /\ obTx' = [obTx EXCEPT ![p] = 0]
    /\ obRx' = [obRx EXCEPT ![p] = 0]
    /\ ticking' = [ticking EXCEPT ![p] = @ /\ StillNeeded("wait", ib[p])]

(* onDisconnected: the acceptor has closed p's connection. *)
OnDisconnected(p) ==
    /\ ob[p] = "up"
    /\ down[p] # << >> /\ Head(down[p]) = "fin"
    /\ OutboundLost(p)
    /\ down' = [down EXCEPT ![p] = << >>]
    /\ UNCHANGED <<ibVars, up, cut, ticked, faults>>

(* The acceptor says hello, twice: sendMsgOnInbound writes every frame     *)
(* twice.  A connection that it refuses it just closes.                    *)
HelloAnswered(p) == down' = SentTwice(down, p, "hello")
HelloRefused(p) == down' = Sent(down, p, "fin")

(***************************************************************************)
(* The hello of p's new connection reaches the other reflector, which      *)
(* accepts it or, if it holds another inbound connection, closes it        *)
(* (acceptInboundConnection).                                              *)
(***************************************************************************)
AcceptInbound(p) ==
    LET q == Other(p) IN
    /\ up[p] # << >> /\ Head(up[p]) = "hello"
    /\ IF ib[q] = "none"
       THEN /\ ib' = [ib EXCEPT ![q] = "live"]
            /\ ibHello' = [ibHello EXCEPT ![q] = TRUE]
            /\ ibTx' = [ibTx EXCEPT ![q] = TxReset]
            /\ ibRx' = [ibRx EXCEPT ![q] = RxReset]
            /\ ticking' = [ticking EXCEPT ![q] = TRUE]
            /\ up' = [up EXCEPT ![p] = Tail(@)]
            /\ HelloAnswered(p)
       ELSE /\ up' = [up EXCEPT ![p] = << >>]
            /\ HelloRefused(p)
            /\ UNCHANGED <<ibVars, ticking>>
    /\ UNCHANGED <<obVars, cut, ticked, faults>>

(* The inbound connection of q is closed by its peer: onInboundDisconnected. *)
OnInboundDisconnected(q) ==
    LET p == Other(q) IN
    /\ \/ ib[q] = "closing" /\ UNCHANGED up
       \/ /\ ib[q] = "live"
          /\ up[p] # << >> /\ Head(up[p]) = "fin"
          /\ up' = [up EXCEPT ![p] = Tail(@)]
    /\ ib' = [ib EXCEPT ![q] = "none"]
    /\ ibHello' = [ibHello EXCEPT ![q] = FALSE]
    /\ ibTx' = [ibTx EXCEPT ![q] = 0]
    /\ ibRx' = [ibRx EXCEPT ![q] = 0]
    /\ ticking' = [ticking EXCEPT ![q] = @ /\ StillNeeded(ob[q], "none")]
    /\ UNCHANGED <<obVars, down, cut, ticked, faults>>

(***************************************************************************)
(* onFrameReceived.  Before the hello only hellos and heartbeats count.    *)
(* A hello on the outbound connection completes the handshake; one on the  *)
(* inbound connection is a duplicate.                                      *)
(***************************************************************************)
Counts(f, helloDone) == helloDone \/ f \in {"hello", "heartbeat"}

OutboundFrame(p) ==
    /\ ob[p] = "up"
    /\ down[p] # << >> /\ Head(down[p]) # "fin"
    /\ LET f == Head(down[p]) IN
       /\ obRx' = [obRx EXCEPT ![p] = IF Counts(f, obHello[p]) THEN RxReset ELSE @]
       /\ obHello' = [obHello EXCEPT ![p] = @ \/ f = "hello"]
    /\ down' = [down EXCEPT ![p] = Tail(@)]
    /\ UNCHANGED <<ob, obTx, ibVars, ticking, up, cut, ticked, faults>>

RxUntouched(q, f) == ibRx
RxRefreshed(q, f) == [ibRx EXCEPT ![q] = IF Counts(f, ibHello[q]) THEN RxReset ELSE @]

InboundFrame(q) ==
    LET p == Other(q) IN
    /\ ib[q] = "live"
    /\ up[p] # << >> /\ Head(up[p]) \in {"heartbeat", "data"}
    /\ ibRx' = RxRefreshed(q, Head(up[p]))
    /\ up' = [up EXCEPT ![p] = Tail(@)]
    /\ UNCHANGED <<obVars, ib, ibHello, ibTx, ticking, down, cut, ticked, faults>>

(* sendMsg: any message of the protocol, on the outbound connection if it  *)
(* is ready, else on the inbound one.  (What is sent after the tick of a   *)
(* second counts as sent before the next.)                                 *)
SendMsg(p) ==
    LET q == Other(p) IN
    /\ p \in Talker \ ticked
    /\ \/ /\ IsOutboundReady(p)
          /\ Len(up[p]) < MaxData
          /\ up' = Sent(up, p, "data")
          /\ obTx' = [obTx EXCEPT ![p] = TxReset]
          /\ UNCHANGED <<down, ibTx>>
       \/ /\ ~IsOutboundReady(p) /\ IsInboundReady(p)
          /\ Len(down[q]) < MaxData
          /\ down' = IF Heard(p, q) THEN SentTwice(down, q, "data") ELSE down
          /\ ibTx' = [ibTx EXCEPT ![p] = TxReset]
          /\ UNCHANGED <<up, obTx>>
    /\ UNCHANGED <<ob, obHello, obRx, ib, ibHello, ibRx, ticking, cut, ticked, faults>>

-----------------------------------------------------------------------------
(***************************************************************************)
(* heartbeatTick: each connection counts down to its next heartbeat and to *)
(* its timeout.  The outbound connection that times out is closed with     *)
(* m_con.disconnect(), which also stops TcpPrioClient.                     *)
(***************************************************************************)
OutboundBeats(p) == ob[p] = "up" /\ obRx[p] > 0
OutboundTimesOut(p) == OutboundBeats(p) /\ obRx[p] = 1
InboundBeats(p) == ib[p] # "none" /\ ibRx[p] > 0
InboundTimesOut(p) == InboundBeats(p) /\ ibRx[p] = 1

(* A transmit counter after this tick: sending the heartbeat resets it. *)
TxAfter(tx) == IF tx = 1 THEN TxReset ELSE tx - 1

AfterOutboundTimeout(p) == [ob EXCEPT ![p] = "off"]

TickOutbound(p) ==
    IF OutboundBeats(p)
    THEN /\ obTx' = [obTx EXCEPT ![p] = TxAfter(@)]
         /\ obRx' = [obRx EXCEPT ![p] = @ - 1]
         /\ ob' = IF OutboundTimesOut(p) THEN AfterOutboundTimeout(p) ELSE ob
         /\ LET beaten == IF obTx[p] = 1 THEN Sent(up, p, "heartbeat") ELSE up
            IN up' = IF OutboundTimesOut(p) THEN Sent(beaten, p, "fin") ELSE beaten
         /\ UNCHANGED obHello
    ELSE UNCHANGED <<obVars, up>>

(* The inbound connection that times out is closed and forgotten. *)
InboundRemembered(p) == ib
InboundForgotten(p) == [ib EXCEPT ![p] = "none"]

TickInbound(p) ==
    LET q == Other(p) IN
    IF InboundBeats(p)
    THEN /\ ibTx' = [ibTx EXCEPT ![p] = TxAfter(@)]
         /\ ibRx' = [ibRx EXCEPT ![p] = @ - 1]
         /\ ib' = IF InboundTimesOut(p) THEN InboundForgotten(p) ELSE ib
         /\ LET beaten == IF ibTx[p] = 1 THEN SentTwice(down, q, "heartbeat") ELSE down
                closed == IF InboundTimesOut(p) THEN Sent(beaten, q, "fin") ELSE beaten
            IN down' = IF Heard(p, q) THEN closed ELSE down
         /\ UNCHANGED ibHello
    ELSE UNCHANGED <<ibVars, down>>

HeartbeatTick(p) ==
    /\ ticking[p]
    /\ p \notin ticked
    /\ TickOutbound(p)
    /\ TickInbound(p)
    /\ ticking' = [ticking EXCEPT ![p] =
           InboundTimesOut(p) \/ StillNeeded(ob'[p], ib'[p])]
    /\ ticked' = ticked \cup {p}
    /\ UNCHANGED <<cut, faults>>

(* A second has passed: every timer has expired and every frame arrived.   *)
(* It is the least that TcpPrioClient waits before it retries.             *)
Delivered ==
    \A p \in Peer :
        /\ ob[p] = "up" => up[p] = << >> /\ down[p] = << >>
        /\ ib[Other(p)] = "live" => up[p] = << >>
        /\ ib[p] # "closing"

NextSecond ==
    /\ \A p \in Peer : ticking[p] => p \in ticked
    /\ Delivered
    /\ ticked' = {}
    /\ ob' = [p \in Peer |-> IF ob[p] = "wait" THEN "down" ELSE ob[p]]
    /\ UNCHANGED <<obHello, obTx, obRx, ibVars, ticking, net, faults>>

-----------------------------------------------------------------------------
FaultHappens(kind) ==
    /\ kind \in Fault
    /\ SumFunction(faults) < MaxFaults
    /\ faults' = [faults EXCEPT ![kind] = @ + 1]

(* The network drops everything on p's connection from now on. *)
Cut(p) ==
    /\ FaultHappens("cut")
    /\ ob[p] = "up" /\ p \notin cut
    /\ cut' = cut \cup {p}
    /\ up' = [up EXCEPT ![p] = << >>]
    /\ down' = [down EXCEPT ![p] = << >>]
    /\ UNCHANGED <<obVars, ibVars, ticking, ticked>>

(* The network resets p's connection; the acceptor hears of it later. *)
Reset(p) ==
    /\ FaultHappens("reset")
    /\ ob[p] = "up" /\ p \notin cut
    /\ OutboundLost(p)
    /\ up' = [up EXCEPT ![p] = IF ib[Other(p)] = "live" THEN <<"fin">> ELSE << >>]
    /\ down' = [down EXCEPT ![p] = << >>]
    /\ UNCHANGED <<ibVars, cut, ticked>>

(* The host of p dies and comes back; nobody is told. *)
Crash(p) ==
    LET q == Other(p) IN
    /\ FaultHappens("crash")
    /\ ob' = [ob EXCEPT ![p] = "down"]
    /\ obHello' = [obHello EXCEPT ![p] = FALSE]
    /\ obTx' = [obTx EXCEPT ![p] = 0]
    /\ obRx' = [obRx EXCEPT ![p] = 0]
    /\ ib' = [ib EXCEPT ![p] = "none", ![q] = IF @ = "none" THEN @ ELSE "stale"]
    /\ ibHello' = [ibHello EXCEPT ![p] = FALSE]
    /\ ibTx' = [ibTx EXCEPT ![p] = 0]
    /\ ibRx' = [ibRx EXCEPT ![p] = 0]
    /\ ticking' = [ticking EXCEPT ![p] = FALSE]
    /\ ticked' = ticked \ {p}
    /\ up' = [r \in Peer |-> << >>]
    /\ down' = [r \in Peer |-> << >>]
    /\ cut' = (cut \ {p}) \cup (IF ob[q] = "up" THEN {q} ELSE {})

LinkNext ==
    \E p \in Peer :
        \/ OnConnected(p)
        \/ OnDisconnected(p)
        \/ AcceptInbound(p)
        \/ OnInboundDisconnected(p)
        \/ OutboundFrame(p)
        \/ InboundFrame(p)
        \/ SendMsg(p)
        \/ HeartbeatTick(p)
        \/ NextSecond
        \/ Cut(p)
        \/ Reset(p)
        \/ Crash(p)

(***************************************************************************)
(* Timers expire, sockets that are readable are read, and a TcpPrioClient  *)
(* that is trying gets through in the end.  Nobody is obliged to talk and  *)
(* no fault is obliged to happen.                                          *)
(***************************************************************************)
LinkFairness ==
    /\ WF_linkVars(NextSecond)
    /\ \A p \in Peer :
        /\ WF_linkVars(OnConnected(p))
        /\ WF_linkVars(OnDisconnected(p))
        /\ WF_linkVars(AcceptInbound(p))
        /\ WF_linkVars(OnInboundDisconnected(p))
        /\ WF_linkVars(OutboundFrame(p))
        /\ WF_linkVars(InboundFrame(p))
        /\ WF_linkVars(HeartbeatTick(p))

LinkSafe == LinkInit /\ [][LinkNext]_linkVars
LinkSpec == LinkSafe /\ LinkFairness

-----------------------------------------------------------------------------
(***************************************************************************)
(* What p believes to be ready on its outbound side is what the peer has   *)
(* accepted on its inbound side, unless its end is under way or the        *)
(* connection is cut: p does not talk to a peer that does not listen.      *)
(***************************************************************************)
ReadyIsAccepted ==
    \A p \in Peer : IsOutboundReady(p) /\ p \notin cut =>
        \/ ib[Other(p)] = "live"
        \/ "fin" \in {down[p][i] : i \in DOMAIN down[p]}

(* A heartbeat timeout hits only a connection that is cut: the counters of *)
(* the two ends leave room for each other, whatever else is sent.          *)
OnlyDeadTimeOut ==
    [][\A p \in Peer :
         /\ ob[p] = "up" /\ ob'[p] = "off" => p \in cut
         /\ HeartbeatTick(p) /\ ib[p] = "live" /\ ib'[p] = "none" => Other(p) \in cut]_linkVars

(* A half-open inbound connection is let go, so that the peer can return. *)
StaleIsDropped == \A p \in Peer : ib[p] = "stale" ~> ib[p] # "stale"

(* Whatever happened, in the end both reflectors can send to each other. *)
LinkHeals == <>[](\A p \in Peer : IsActive(p))

(* It does so after resets and crashes of either side; a cut that both ends
   notice by their timeouts is another matter (see TrunkLinkOutage.cfg). *)
LinkHealsUncut == [](faults["cut"] = 0) => LinkHeals

=============================================================================
