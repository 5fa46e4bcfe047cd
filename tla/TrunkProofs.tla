---------------------------- MODULE TrunkProofs ----------------------------
(***************************************************************************)
(* The TCP trunks.  First what the listening side (TrunkServer) guarantees *)
(* for any number of connections, addresses, links and any limits; then    *)
(* what the two ends of a trunk (TrunkLink) guarantee for any heartbeat    *)
(* counters and any number of faults.                                      *)
(***************************************************************************)
EXTENDS TrunkServer, TrunkLink, FiniteSetTheorems, TLAPS

(* The inductive invariant: each part holds the other up. *)
IInv == TypeOK /\ NoDanglingInbound

LEMMA IInvInit == Init => IInv
BY ConAssumption DEF Init, IInv, TypeOK, NoDanglingInbound

LEMMA IInvNext == IInv /\ [Next]_vars => IInv'
<1> SUFFICES ASSUME IInv, [Next]_vars PROVE IInv'
  OBVIOUS
<1> USE ConAssumption DEF IInv, TypeOK, NoDanglingInbound
<1>1. ASSUME NEW c \in Con, ClientConnected(c) PROVE IInv'
  BY <1>1 DEF ClientConnected, TimerFor
<1>2. ASSUME NEW c \in Con, PeerVanishes(c) PROVE IInv'
  BY <1>2 DEF PeerVanishes
<1>3. ASSUME NEW c \in Con, ClientDisconnected(c) PROVE IInv'
  <2>1. CASE c \in pending
    BY <1>3, <2>1 DEF ClientDisconnected, LeavesPool
  <2>2. CASE c \notin pending
    BY <1>3, <2>2 DEF ClientDisconnected, InboundWithout
  <2> QED BY <2>1, <2>2
<1>4. ASSUME NEW c \in Con, BadFrame(c) PROVE IInv'
  BY <1>4 DEF BadFrame, LeavesPool
<1>5. ASSUME NEW c \in Con, NEW l \in Link, HelloReceived(c, l) PROVE IInv'
  <2>1. CASE AcceptsInbound(l)
    BY <1>5, <2>1 DEF HelloReceived, LeavesPool, AcceptsInbound
  <2>2. CASE ~AcceptsInbound(l)
    BY <1>5, <2>2 DEF HelloReceived, LeavesPool, AcceptsInbound
  <2> QED BY <2>1, <2>2
<1>6. ASSUME NEW c \in Con, PendingTimeout(c) PROVE IInv'
  BY <1>6 DEF PendingTimeout
<1>7. ASSUME NEW l \in Link, HeartbeatTimeout(l) PROVE IInv'
  BY <1>7 DEF HeartbeatTimeout, TimeoutForgets
<1>8. CASE UNCHANGED vars
  BY <1>8 DEF vars
<1> QED BY <1>1, <1>2, <1>3, <1>4, <1>5, <1>6, <1>7, <1>8 DEF Next

(***************************************************************************)
(* No link ever writes to, or waits for, a connection that is closed: what *)
(* m_inbound_con points at is open and mapped to its link, in every        *)
(* reachable state (onInboundDisconnected, heartbeatTick and               *)
(* acceptInboundConnection together).                                      *)
(***************************************************************************)
THEOREM InboundIsLive == Safe => [](TypeOK /\ NoDanglingInbound)
<1>1. IInv => TypeOK /\ NoDanglingInbound
  BY DEF IInv
<1> QED BY <1>1, IInvInit, IInvNext, PTL DEF Safe

-----------------------------------------------------------------------------
LEMMA KeepsInbound == IInv /\ [Next]_vars =>
    \A l \in Link : inbound[l] # NoCon => inbound'[l] \in {inbound[l], NoCon}
<1> SUFFICES ASSUME IInv, [Next]_vars, NEW l \in Link, inbound[l] # NoCon
             PROVE inbound'[l] \in {inbound[l], NoCon}
  OBVIOUS
<1> USE DEF IInv, TypeOK
<1>1. ASSUME NEW c \in Con, ClientDisconnected(c) PROVE inbound'[l] \in {inbound[l], NoCon}
  BY <1>1 DEF ClientDisconnected, LeavesPool, InboundWithout
<1>2. ASSUME NEW c \in Con, NEW m \in Link, HelloReceived(c, m)
      PROVE inbound'[l] \in {inbound[l], NoCon}
  BY <1>2 DEF HelloReceived, LeavesPool, AcceptsInbound
<1>3. ASSUME NEW m \in Link, HeartbeatTimeout(m) PROVE inbound'[l] \in {inbound[l], NoCon}
  BY <1>3 DEF HeartbeatTimeout, TimeoutForgets
<1> QED BY <1>1, <1>2, <1>3
        DEF Next, vars, ClientConnected, PeerVanishes, BadFrame, PendingTimeout

(***************************************************************************)
(* An established inbound connection is never usurped by a newer one       *)
(* (acceptInboundConnection).                                              *)
(***************************************************************************)
THEOREM Unusurped == Safe => NeverReplaced
<1>1. IInv /\ [Next]_vars =>
        [\A l \in Link : inbound[l] # NoCon => inbound'[l] \in {inbound[l], NoCon}]_vars
  BY KeepsInbound
<1> QED BY <1>1, IInvInit, IInvNext, PTL DEF Safe, NeverReplaced

-----------------------------------------------------------------------------
(* The limits of the pool, with the finiteness that makes them count. *)
PoolInv == IsFiniteSet(pending) /\ PoolWithinLimits

(* One more element adds at most one to the size of a set. *)
LEMMA AtMostOneMore ==
    ASSUME NEW S, NEW x, IsFiniteSet(S)
    PROVE  /\ IsFiniteSet(S \cup {x})
           /\ Cardinality(S) \in Nat
           /\ Cardinality(S \cup {x}) \in Nat
           /\ Cardinality(S \cup {x}) <= Cardinality(S) + 1
<1>1. /\ IsFiniteSet(S \cup {x})
      /\ Cardinality(S \cup {x}) = IF x \in S THEN Cardinality(S) ELSE Cardinality(S) + 1
  BY FS_AddElement
<1>2. Cardinality(S) \in Nat
  BY FS_CardinalityType
<1> QED BY <1>1, <1>2

(* Taking a connection away keeps the pool within its limits. *)
LEMMA LeavingShrinks ==
    ASSUME PoolInv, NEW c, pending' = pending \ {c}
    PROVE  PoolInv'
<1>1. IsFiniteSet(pending') /\ Cardinality(pending') <= Cardinality(pending)
  BY FS_Subset, FS_CardinalityType DEF PoolInv
<1>2. ASSUME NEW ip \in Ip
      PROVE Cardinality(PendingFrom(ip)') <= Cardinality(PendingFrom(ip))
  <2>1. PendingFrom(ip)' \subseteq PendingFrom(ip) /\ PendingFrom(ip) \subseteq pending
    BY DEF PendingFrom
  <2>2. IsFiniteSet(PendingFrom(ip))
    BY <2>1, FS_Subset DEF PoolInv
  <2> QED BY <2>1, <2>2, FS_Subset
<1>3. ASSUME NEW ip \in Ip PROVE Cardinality(PendingFrom(ip)') <= MaxPendingPerIp
  <2>1. IsFiniteSet(PendingFrom(ip)) /\ IsFiniteSet(PendingFrom(ip)')
    BY <1>1, FS_Subset DEF PoolInv, PendingFrom
  <2>2. Cardinality(PendingFrom(ip)) \in Nat /\ Cardinality(PendingFrom(ip)') \in Nat
    BY <2>1, FS_CardinalityType
  <2>3. Cardinality(PendingFrom(ip)) <= MaxPendingPerIp
    BY DEF PoolInv, PoolWithinLimits
  <2> QED BY <1>2, <2>2, <2>3, PoolAssumption
<1>4. Cardinality(pending') <= MaxPending
  <2>1. Cardinality(pending) \in Nat /\ Cardinality(pending') \in Nat
    BY <1>1, FS_CardinalityType DEF PoolInv
  <2>2. Cardinality(pending) <= MaxPending
    BY DEF PoolInv, PoolWithinLimits
  <2> QED BY <1>1, <2>1, <2>2, PoolAssumption
<1> QED BY <1>1, <1>3, <1>4 DEF PoolInv, PoolWithinLimits

(* A connection that both limits let in does not break them. *)
LEMMA EnteringFits ==
    ASSUME PoolInv, NEW c \in Con, HasRoom(c), pending' = pending \cup {c}
    PROVE  PoolInv'
<1>1. IsFiniteSet(pending') /\ Cardinality(pending') <= Cardinality(pending) + 1
  BY AtMostOneMore DEF PoolInv
<1>2. Cardinality(pending') <= MaxPending
  <2>1. Cardinality(pending) \in Nat /\ Cardinality(pending') \in Nat
    BY <1>1, FS_CardinalityType DEF PoolInv
  <2>2. Cardinality(pending) < MaxPending
    BY DEF HasRoom
  <2> QED BY <1>1, <2>1, <2>2, PoolAssumption
<1>3. ASSUME NEW ip \in Ip PROVE Cardinality(PendingFrom(ip)') <= MaxPendingPerIp
  <2>1. IsFiniteSet(PendingFrom(ip)) /\ Cardinality(PendingFrom(ip)) \in Nat
    BY FS_Subset, FS_CardinalityType DEF PoolInv, PendingFrom
  <2>2. Cardinality(PendingFrom(ip)) <= MaxPendingPerIp
    BY DEF PoolInv, PoolWithinLimits
  <2>3. CASE IpOf[c] = ip
    <3>1. PendingFrom(ip)' = PendingFrom(ip) \cup {c}
      BY <2>3 DEF PendingFrom
    <3>2. Cardinality(PendingFrom(ip)) < MaxPendingPerIp
      BY <2>3 DEF HasRoom, HasRoomPerIp
    <3>3. /\ Cardinality(PendingFrom(ip) \cup {c}) <= Cardinality(PendingFrom(ip)) + 1
          /\ Cardinality(PendingFrom(ip) \cup {c}) \in Nat
      BY <2>1, AtMostOneMore
    <3> QED BY <2>1, <3>1, <3>2, <3>3, PoolAssumption
  <2>4. CASE IpOf[c] # ip
    <3>1. PendingFrom(ip)' = PendingFrom(ip)
      BY <2>4 DEF PendingFrom
    <3> QED BY <2>2, <3>1
  <2> QED BY <2>3, <2>4
<1> QED BY <1>1, <1>2, <1>3 DEF PoolInv, PoolWithinLimits

LEMMA PoolInvInit == Init => PoolInv
<1> SUFFICES ASSUME Init PROVE PoolInv
  OBVIOUS
<1>1. pending = {} /\ \A ip \in Ip : PendingFrom(ip) = {}
  BY DEF Init, PendingFrom
<1> QED BY <1>1, FS_EmptySet, PoolAssumption DEF PoolInv, PoolWithinLimits

LEMMA PoolInvNext == PoolInv /\ [Next]_vars => PoolInv'
<1> SUFFICES ASSUME PoolInv, [Next]_vars PROVE PoolInv'
  OBVIOUS
<1>1. ASSUME UNCHANGED pending PROVE PoolInv'
  BY <1>1 DEF PoolInv, PoolWithinLimits, PendingFrom
<1>2. ASSUME NEW c \in Con, ClientConnected(c) PROVE PoolInv'
  BY <1>1, <1>2, EnteringFits DEF ClientConnected
<1>3. ASSUME NEW c \in Con, ClientDisconnected(c) PROVE PoolInv'
  BY <1>1, <1>3, LeavingShrinks DEF ClientDisconnected, LeavesPool
<1>4. ASSUME NEW c \in Con, BadFrame(c) PROVE PoolInv'
  BY <1>4, LeavingShrinks DEF BadFrame, LeavesPool
<1>5. ASSUME NEW c \in Con, NEW l \in Link, HelloReceived(c, l) PROVE PoolInv'
  BY <1>5, LeavingShrinks DEF HelloReceived, LeavesPool
<1> QED BY <1>1, <1>2, <1>3, <1>4, <1>5
        DEF Next, vars, PeerVanishes, PendingTimeout, HeartbeatTimeout

(***************************************************************************)
(* The pre-hello pool never exceeds TRUNK_MAX_PENDING_CONS, nor two per    *)
(* address (trunkClientConnected).                                         *)
(***************************************************************************)
THEOREM PoolIsBounded == Safe => []PoolWithinLimits
<1>1. PoolInv => PoolWithinLimits
  BY DEF PoolInv
<1> QED BY <1>1, PoolInvInit, PoolInvNext, PTL DEF Safe

-----------------------------------------------------------------------------
(* The two ends of a trunk. *)

Frame == {"hello", "heartbeat", "data", "fin"}

OpenerTypeOK ==
    /\ ob \in [Peer -> {"up", "wait", "down", "off"}]
    /\ obHello \in [Peer -> BOOLEAN]
    /\ obTx \in [Peer -> 0 .. TxReset]
    /\ obRx \in [Peer -> Nat]

AcceptorTypeOK ==
    /\ ib \in [Peer -> {"none", "live", "closing", "stale"}]
    /\ ibHello \in [Peer -> BOOLEAN]
    /\ ibTx \in [Peer -> 0 .. TxReset]
    /\ ibRx \in [Peer -> Nat]

NetTypeOK ==
    /\ up \in [Peer -> Seq(Frame)]
    /\ down \in [Peer -> Seq(Frame)]
    /\ cut \in SUBSET Peer

ClockTypeOK ==
    /\ ticking \in [Peer -> BOOLEAN]
    /\ ticked \in SUBSET Peer

LinkTypeOK == OpenerTypeOK /\ AcceptorTypeOK /\ NetTypeOK /\ ClockTypeOK

(* The timer runs, and a heartbeat is due, for each end that is in use. *)
EndsOK(p) ==
    /\ ob[p] = "up" => ticking[p] /\ obTx[p] > 0
    /\ ib[p] # "none" => ticking[p] /\ ibTx[p] > 0
    /\ ib[p] = "live" => ibHello[p]

Has(w, f) == \E i \in DOMAIN w : w[i] = f

(* The ticks of p in the second that is under way. *)
Phase(p) == IF p \in ticked THEN 1 ELSE 0

(***************************************************************************)
(* The life of the connection that p opened, as long as it is not cut:     *)
(* its hello is under way; it is accepted; it is refused, or timed out by  *)
(* the acceptor, and the end is under way; the opener has lost it and the  *)
(* acceptor will hear of it.  How long ago an end last heard of the other  *)
(* is bounded by how long ago the other sent, one tick more if the ends    *)
(* tick in the other order; what is under way arrives within the second.   *)
(***************************************************************************)
Asking(p) ==
    /\ ib[Other(p)] # "live"
    /\ ~obHello[p]
    /\ up[p] # << >> /\ Head(up[p]) = "hello"
    /\ ~Has(Tail(up[p]), "hello") /\ ~Has(up[p], "fin")
    /\ down[p] = << >>
    /\ RxReset <= obRx[p] + Phase(p)

UpTimely(p) ==
    RxReset <= ibRx[Other(p)] + Phase(Other(p)) +
        (IF up[p] # << >> THEN TxReset ELSE TxReset - obTx[p] + 1 - Phase(p))
DownTimely(p) ==
    RxReset <= obRx[p] + Phase(p) +
        (IF down[p] # << >> THEN TxReset ELSE TxReset - ibTx[Other(p)] + 1 - Phase(Other(p)))

Accepted(p) ==
    /\ ib[Other(p)] = "live"
    /\ ~Has(up[p], "hello") /\ ~Has(up[p], "fin")
    /\ ~Has(down[p], "fin")
    /\ obHello[p] \/ (down[p] # << >> /\ Head(down[p]) = "hello")
    /\ UpTimely(p) /\ DownTimely(p)

Refused(p) ==
    /\ ib[Other(p)] # "live"
    /\ ~Has(up[p], "hello")
    /\ Has(down[p], "fin")
    /\ RxReset <= obRx[p] + Phase(p) + TxReset

Left(p) ==
    /\ ~Has(up[p], "hello")
    /\ ib[Other(p)] = "live" =>
           Has(up[p], "fin") /\ RxReset <= ibRx[Other(p)] + Phase(Other(p)) + TxReset

ConOK(p) == IF ob[p] = "up" THEN Asking(p) \/ Accepted(p) \/ Refused(p) ELSE Left(p)

LinkInv ==
    /\ LinkTypeOK
    /\ \A p \in Peer : EndsOK(p)
    /\ \A p \in Peer \ cut : ConOK(p)

LEMMA OtherPeer ==
  ASSUME NEW p \in Peer
  PROVE  /\ Other(p) \in Peer /\ Other(p) # p /\ Other(Other(p)) = p
         /\ \A r \in Peer : r = p \/ r = Other(p)
<1>1. PICK a, b \in Peer : a # b /\ Peer = {a, b}
  BY PeerAssumption
<1>2. Other(a) = b /\ Other(b) = a
  BY <1>1 DEF Other
<1> QED BY <1>1, <1>2

-----------------------------------------------------------------------------
(* The frames under way on a connection. *)

LEMMA HasNone == ASSUME NEW f PROVE ~Has(<< >>, f)
  BY DEF Has

LEMMA AppendToQueue ==
  ASSUME NEW w \in Seq(Frame), NEW e \in Frame
  PROVE  /\ Append(w, e) \in Seq(Frame) /\ Append(w, e) # << >>
         /\ w = << >> => Head(Append(w, e)) = e /\ Tail(Append(w, e)) = << >>
         /\ w # << >> => /\ Head(Append(w, e)) = Head(w)
                         /\ Tail(Append(w, e)) = Append(Tail(w), e)
<1>1. /\ Append(w, e) \in Seq(Frame)
      /\ Len(Append(w, e)) = Len(w) + 1 /\ Len(w) \in Nat
  OBVIOUS
<1>2. Append(w, e) # << >>
  BY <1>1
<1>3. ASSUME w # << >>
      PROVE  /\ Head(Append(w, e)) = Head(w)
             /\ Tail(Append(w, e)) = Append(Tail(w), e)
  BY <1>3
<1>4. ASSUME w = << >>
      PROVE  Head(Append(w, e)) = e /\ Tail(Append(w, e)) = << >>
  BY <1>4
<1> QED BY <1>1, <1>2, <1>3, <1>4

LEMMA HasAppend ==
  ASSUME NEW w \in Seq(Frame), NEW e \in Frame, NEW f
  PROVE  Has(Append(w, e), f) <=> Has(w, f) \/ f = e
<1>1. /\ Len(w) \in Nat /\ DOMAIN w = 1 .. Len(w)
      /\ DOMAIN Append(w, e) = 1 .. Len(w) + 1
      /\ \A i \in 1 .. Len(w) : Append(w, e)[i] = w[i]
      /\ Append(w, e)[Len(w) + 1] = e
  OBVIOUS
<1>2. \A i \in 1 .. Len(w) + 1 : i \in 1 .. Len(w) \/ i = Len(w) + 1
  BY <1>1
<1>3. 1 .. Len(w) \subseteq 1 .. Len(w) + 1 /\ Len(w) + 1 \in 1 .. Len(w) + 1
  BY <1>1
<1> QED BY <1>1, <1>2, <1>3 DEF Has

LEMMA HasTail ==
  ASSUME NEW w \in Seq(Frame), w # << >>
  PROVE  /\ Head(w) \in Frame /\ Tail(w) \in Seq(Frame)
         /\ Has(w, Head(w))
         /\ \A f : Has(w, f) <=> f = Head(w) \/ Has(Tail(w), f)
<1>1. /\ Head(w) \in Frame /\ Tail(w) \in Seq(Frame) /\ Head(w) = w[1]
      /\ Len(w) \in Nat /\ Len(w) > 0 /\ DOMAIN w = 1 .. Len(w)
      /\ Len(Tail(w)) = Len(w) - 1 /\ DOMAIN Tail(w) = 1 .. Len(w) - 1
      /\ \A i \in 1 .. Len(w) - 1 : Tail(w)[i] = w[i + 1]
  OBVIOUS
<1>2. ASSUME NEW f, Has(w, f) PROVE f = Head(w) \/ Has(Tail(w), f)
  <2>1. PICK i \in 1 .. Len(w) : w[i] = f
    BY <1>1, <1>2 DEF Has
  <2>2. CASE i # 1
    <3>1. i - 1 \in 1 .. Len(w) - 1 /\ Tail(w)[i - 1] = f
      BY <1>1, <2>1, <2>2
    <3> QED BY <1>1, <3>1 DEF Has
  <2> QED BY <1>1, <2>1, <2>2
<1>3. ASSUME NEW f, Has(Tail(w), f) PROVE Has(w, f)
  <2>1. PICK i \in 1 .. Len(w) - 1 : Tail(w)[i] = f
    BY <1>1, <1>3 DEF Has
  <2>2. i + 1 \in 1 .. Len(w) /\ w[i + 1] = f
    BY <1>1, <2>1
  <2> QED BY <1>1, <2>2 DEF Has
<1>4. Has(w, Head(w))
  BY <1>1 DEF Has
<1> QED BY <1>1, <1>2, <1>3, <1>4

LEMMA SentType ==
  ASSUME NEW w \in [Peer -> Seq(Frame)], NEW p \in Peer, NEW f \in Frame
  PROVE  /\ Sent(w, p, f) \in [Peer -> Seq(Frame)]
         /\ \A r \in Peer : r # p => Sent(w, p, f)[r] = w[r]
         /\ p \notin cut => Sent(w, p, f)[p] = Append(w[p], f)
<1>1. Append(w[p], f) \in Seq(Frame)
  BY HasAppend
<1> QED BY <1>1 DEF Sent

LEMMA SentTwiceType ==
  ASSUME NEW w \in [Peer -> Seq(Frame)], NEW p \in Peer, NEW f \in Frame
  PROVE  /\ SentTwice(w, p, f) \in [Peer -> Seq(Frame)]
         /\ \A r \in Peer : r # p => SentTwice(w, p, f)[r] = w[r]
         /\ p \notin cut => SentTwice(w, p, f)[p] = Append(Append(w[p], f), f)
<1> DEFINE s == Sent(w, p, f)
<1>1. /\ s \in [Peer -> Seq(Frame)]
      /\ \A r \in Peer : r # p => s[r] = w[r]
      /\ p \notin cut => s[p] = Append(w[p], f)
  BY SentType
<1> HIDE DEF s
<1>2. /\ Sent(s, p, f) \in [Peer -> Seq(Frame)]
      /\ \A r \in Peer : r # p => Sent(s, p, f)[r] = s[r]
      /\ p \notin cut => Sent(s, p, f)[p] = Append(s[p], f)
  BY <1>1, SentType
<1>3. SentTwice(w, p, f) = Sent(s, p, f)
  BY DEF SentTwice, s
<1> QED BY <1>1, <1>2, <1>3

-----------------------------------------------------------------------------
(* A step that the connection of p does not notice. *)
SameCon(p) ==
    /\ ob'[p] = ob[p] /\ obHello'[p] = obHello[p] /\ obTx'[p] = obTx[p] /\ obRx'[p] = obRx[p]
    /\ ib'[Other(p)] = ib[Other(p)] /\ ibTx'[Other(p)] = ibTx[Other(p)]
    /\ ibRx'[Other(p)] = ibRx[Other(p)]
    /\ up'[p] = up[p] /\ down'[p] = down[p]
    /\ Phase(p)' = Phase(p) /\ Phase(Other(p))' = Phase(Other(p))

LEMMA ConUnnoticed == ASSUME NEW p \in Peer, ConOK(p), SameCon(p) PROVE ConOK(p)'
  BY DEF SameCon, ConOK, Asking, Accepted, Refused, Left, UpTimely, DownTimely

LEMMA LinkInvInit == LinkInit => LinkInv
<1> SUFFICES ASSUME LinkInit PROVE LinkInv
  OBVIOUS
<1>1. LinkTypeOK
  BY CounterAssumption DEF LinkInit, LinkTypeOK, OpenerTypeOK, AcceptorTypeOK, NetTypeOK, ClockTypeOK
<1>2. ASSUME NEW p \in Peer PROVE EndsOK(p) /\ ConOK(p)
  BY OtherPeer, HasNone DEF LinkInit, EndsOK, ConOK, Left
<1> QED BY <1>1, <1>2 DEF LinkInv

LEMMA OnConnectedKeeps ==
  ASSUME LinkInv, NEW p \in Peer, OnConnected(p) PROVE LinkInv'
<1> DEFINE q == Other(p)
<1>0. OpenerTypeOK /\ AcceptorTypeOK /\ NetTypeOK /\ ClockTypeOK
  BY DEF LinkInv, LinkTypeOK
<1>1. q \in Peer /\ q # p /\ Other(q) = p /\ \A r \in Peer : r = p \/ r = q
  BY OtherPeer
<1> HIDE DEF q
<1>2. Superseded(p) \in {"none", "closing", "stale"} /\ (Superseded(p) = "none" <=> ib[q] = "none")
  BY <1>0, <1>1 DEF Superseded, q, AcceptorTypeOK
<1>3. <<"hello">> \in Seq(Frame) /\ << >> \in Seq(Frame)
  BY DEF Frame
<1>4. LinkTypeOK'
  <2>1. OpenerTypeOK'
    BY <1>0, CounterAssumption DEF OnConnected, OpenerTypeOK
  <2>2. AcceptorTypeOK'
    BY <1>0, <1>1, <1>2 DEF OnConnected, AcceptorTypeOK, q
  <2>3. NetTypeOK'
    BY <1>0, <1>3 DEF OnConnected, NetTypeOK
  <2>4. ClockTypeOK'
    BY <1>0 DEF OnConnected, ClockTypeOK
  <2> QED BY <2>1, <2>2, <2>3, <2>4 DEF LinkTypeOK
<1>5. ASSUME NEW r \in Peer PROVE EndsOK(r)'
  <2>1. /\ ob'[r] = "up" => r = p \/ ob[r] = "up"
        /\ obTx'[r] = IF r = p THEN TxReset ELSE obTx[r]
        /\ ticking'[r] <=> r = p \/ ticking[r]
    BY <1>0 DEF OnConnected, OpenerTypeOK, ClockTypeOK
  <2>2. /\ ib'[r] # "none" => ib[r] # "none"
        /\ ib'[r] = "live" => ib[r] = "live"
        /\ ibTx'[r] = ibTx[r] /\ ibHello'[r] = ibHello[r]
    BY <1>0, <1>1, <1>2 DEF OnConnected, AcceptorTypeOK, q
  <2> QED BY <2>1, <2>2, CounterAssumption DEF EndsOK, LinkInv
<1>6. Asking(p)'
  <2>1. Head(<<"hello">>) = "hello" /\ Tail(<<"hello">>) = << >> /\ <<"hello">> # << >>
        /\ ~Has(<<"hello">>, "fin")
    BY DEF Has
  <2>2. up'[p] = <<"hello">> /\ down'[p] = << >> /\ obRx'[p] = RxReset /\ ~obHello'[p]
        /\ ib'[q] # "live"
    BY <1>0, <1>1, <1>2 DEF OnConnected, q, OpenerTypeOK, AcceptorTypeOK, NetTypeOK
  <2> QED BY <2>1, <2>2, HasNone, CounterAssumption DEF Asking, Phase, q
<1>7. ob'[p] = "up"
  BY <1>0 DEF OnConnected, OpenerTypeOK
<1>8. SameCon(q)
  BY <1>1 DEF OnConnected, SameCon, Phase, q
<1>9. q \notin cut' => ConOK(q)'
  BY <1>1, <1>8, ConUnnoticed DEF OnConnected, LinkInv
<1> QED BY <1>1, <1>4, <1>5, <1>6, <1>7, <1>9 DEF ConOK, LinkInv

LEMMA OnDisconnectedKeeps ==
  ASSUME LinkInv, NEW p \in Peer, OnDisconnected(p) PROVE LinkInv'
<1> DEFINE q == Other(p)
<1>0. OpenerTypeOK /\ AcceptorTypeOK /\ NetTypeOK /\ ClockTypeOK
  BY DEF LinkInv, LinkTypeOK
<1>1. q \in Peer /\ q # p /\ Other(q) = p /\ \A r \in Peer : r = p \/ r = q
  BY OtherPeer
<1> HIDE DEF q
<1>2. LinkTypeOK'
  <2>1. OpenerTypeOK'
    BY <1>0, CounterAssumption DEF OnDisconnected, OutboundLost, Retries, OpenerTypeOK
  <2>2. AcceptorTypeOK'
    BY <1>0 DEF OnDisconnected, ibVars, AcceptorTypeOK
  <2>3. NetTypeOK'
    BY <1>0 DEF OnDisconnected, NetTypeOK
  <2>4. ClockTypeOK'
    BY <1>0 DEF OnDisconnected, OutboundLost, StillNeeded, ClockTypeOK
  <2> QED BY <2>1, <2>2, <2>3, <2>4 DEF LinkTypeOK
<1>3. ASSUME NEW r \in Peer PROVE EndsOK(r)'
  <2>1. /\ ob'[r] = IF r = p THEN "wait" ELSE ob[r]
        /\ obTx'[r] = IF r = p THEN 0 ELSE obTx[r]
        /\ ticking'[r] <=> ticking[r] /\ (r = p => ib[r] # "none")
    BY <1>0 DEF OnDisconnected, OutboundLost, Retries, StillNeeded, OpenerTypeOK, ClockTypeOK
  <2>2. UNCHANGED ibVars
    BY DEF OnDisconnected
  <2> QED BY <2>1, <2>2 DEF EndsOK, ibVars, LinkInv
<1>4. ASSUME p \notin cut PROVE ConOK(p)'
  <2>1. down[p] \in Seq(Frame) /\ down[p] # << >> /\ Head(down[p]) = "fin" /\ ob[p] = "up"
    BY <1>0 DEF OnDisconnected, NetTypeOK
  <2>2. Has(down[p], "fin")
    BY <2>1, HasTail
  <2>3. Refused(p)
    BY <1>4, <2>1, <2>2 DEF ConOK, Asking, Accepted, LinkInv
  <2>4. ob'[p] # "up" /\ up'[p] = up[p] /\ ib'[q] = ib[q]
    BY <1>0, <1>1 DEF OnDisconnected, OutboundLost, Retries, OpenerTypeOK, ibVars
  <2> QED BY <2>3, <2>4 DEF Refused, ConOK, Left, q
<1>5. SameCon(q)
  BY <1>0, <1>1 DEF OnDisconnected, OutboundLost, SameCon, Phase, OpenerTypeOK, NetTypeOK, ibVars
<1>6. q \notin cut => ConOK(q)'
  BY <1>1, <1>5, ConUnnoticed DEF LinkInv
<1> QED BY <1>1, <1>2, <1>3, <1>4, <1>6 DEF OnDisconnected, LinkInv

LEMMA AcceptInboundKeeps ==
  ASSUME LinkInv, NEW p \in Peer, AcceptInbound(p) PROVE LinkInv'
<1> DEFINE q == Other(p)
<1>0. OpenerTypeOK /\ AcceptorTypeOK /\ NetTypeOK /\ ClockTypeOK
  BY DEF LinkInv, LinkTypeOK
<1>1. q \in Peer /\ q # p /\ Other(q) = p /\ \A r \in Peer : r = p \/ r = q
  BY OtherPeer
<1> HIDE DEF q
<1>2. up[p] \in Seq(Frame) /\ up[p] # << >> /\ Head(up[p]) = "hello" /\ down[p] \in Seq(Frame)
      /\ down \in [Peer -> Seq(Frame)]
  BY <1>0 DEF AcceptInbound, NetTypeOK
<1>3. /\ Tail(up[p]) \in Seq(Frame) /\ Has(up[p], "hello")
      /\ Has(Tail(up[p]), "fin") => Has(up[p], "fin")
  BY <1>2, HasTail
<1>4. p \notin cut => ob[p] = "up" /\ Asking(p)
  BY <1>3 DEF ConOK, Accepted, Refused, Left, LinkInv
<1>5. "hello" \in Frame /\ "fin" \in Frame
  BY DEF Frame
<1>6. UNCHANGED <<obVars, cut, ticked>>
  BY DEF AcceptInbound
<1>7. /\ obRx'[p] = obRx[p] /\ obTx'[p] = obTx[p] /\ obHello'[p] = obHello[p] /\ ob'[p] = ob[p]
      /\ Phase(p)' = Phase(p) /\ Phase(q)' = Phase(q)
  BY <1>6 DEF obVars, Phase
<1>8. Phase(p) \in {0, 1} /\ Phase(q) \in {0, 1} /\ obTx[p] \in 0 .. TxReset /\ obRx[p] \in Nat
  BY <1>0 DEF Phase, OpenerTypeOK
<1>9. OpenerTypeOK'
  BY <1>0, <1>6 DEF obVars, OpenerTypeOK
<1>10. CASE ib[q] = "none"
  <2>1. /\ ib' = [ib EXCEPT ![q] = "live"]
        /\ ibHello' = [ibHello EXCEPT ![q] = TRUE]
        /\ ibTx' = [ibTx EXCEPT ![q] = TxReset]
        /\ ibRx' = [ibRx EXCEPT ![q] = RxReset]
        /\ ticking' = [ticking EXCEPT ![q] = TRUE]
        /\ up' = [up EXCEPT ![p] = Tail(up[p])]
        /\ down' = SentTwice(down, p, "hello")
    BY <1>10 DEF AcceptInbound, HelloAnswered, q
  <2>2. /\ down' \in [Peer -> Seq(Frame)] /\ down'[q] = down[q]
        /\ p \notin cut => down'[p] = Append(Append(down[p], "hello"), "hello")
    <3>1. /\ SentTwice(down, p, "hello") \in [Peer -> Seq(Frame)]
          /\ \A r \in Peer : r # p => SentTwice(down, p, "hello")[r] = down[r]
          /\ p \notin cut =>
                 SentTwice(down, p, "hello")[p] = Append(Append(down[p], "hello"), "hello")
      BY <1>2, <1>5, SentTwiceType
    <3> QED BY <1>1, <2>1, <3>1
  <2>3. LinkTypeOK'
    <3>1. AcceptorTypeOK'
      BY <1>0, <1>1, <2>1, CounterAssumption DEF AcceptorTypeOK
    <3>2. NetTypeOK'
      BY <1>0, <1>3, <1>6, <2>1, <2>2 DEF NetTypeOK
    <3>3. ClockTypeOK'
      BY <1>0, <1>6, <2>1 DEF ClockTypeOK
    <3> QED BY <1>9, <3>1, <3>2, <3>3 DEF LinkTypeOK
  <2>4. ASSUME NEW r \in Peer PROVE EndsOK(r)'
    <3>1. /\ ib'[r] = IF r = q THEN "live" ELSE ib[r]
          /\ ibTx'[r] = IF r = q THEN TxReset ELSE ibTx[r]
          /\ ibHello'[r] <=> r = q \/ ibHello[r]
          /\ ticking'[r] <=> r = q \/ ticking[r]
      BY <1>0, <2>1 DEF AcceptorTypeOK, ClockTypeOK
    <3> QED BY <1>6, <3>1, CounterAssumption DEF EndsOK, obVars, LinkInv
  <2>5. ASSUME p \notin cut PROVE ConOK(p)'
    <3>1. down[p] = << >> /\ ~Has(Tail(up[p]), "hello") /\ ~Has(up[p], "fin")
          /\ RxReset <= obRx[p] + Phase(p)
      BY <1>4, <2>5 DEF Asking
    <3> DEFINE w == Append(down[p], "hello")
    <3>2. w \in Seq(Frame) /\ w # << >> /\ ~Has(w, "fin") /\ Head(w) = "hello"
      BY <1>2, <1>5, <3>1, AppendToQueue, HasAppend, HasNone
    <3> HIDE DEF w
    <3>3. down'[p] # << >> /\ Head(down'[p]) = "hello" /\ ~Has(down'[p], "fin")
      <4>1. down'[p] = Append(w, "hello")
        BY <2>2, <2>5 DEF w
      <4> QED BY <1>5, <3>2, <4>1, AppendToQueue, HasAppend
    <3>4. ib'[q] = "live" /\ up'[p] = Tail(up[p]) /\ ibRx'[q] = RxReset
      BY <1>0, <1>1, <2>1 DEF AcceptorTypeOK, NetTypeOK
    <3>5. UpTimely(p)'
      BY <1>7, <1>8, <3>4, CounterAssumption DEF UpTimely, q
    <3>6. DownTimely(p)'
      BY <1>7, <1>8, <3>1, <3>3, CounterAssumption DEF DownTimely, q
    <3>7. Accepted(p)'
      BY <1>3, <3>1, <3>3, <3>4, <3>5, <3>6 DEF Accepted, q
    <3> QED BY <1>4, <1>7, <2>5, <3>7 DEF ConOK
  <2>6. SameCon(q)
    BY <1>0, <1>1, <1>6, <2>1, <2>2 DEF SameCon, Phase, obVars, AcceptorTypeOK, NetTypeOK
  <2>7. q \notin cut => ConOK(q)'
    BY <1>1, <2>6, ConUnnoticed DEF LinkInv
  <2> QED BY <1>1, <1>6, <2>3, <2>4, <2>5, <2>7 DEF LinkInv
<1>11. CASE ib[q] # "none"
  <2>1. /\ up' = [up EXCEPT ![p] = << >>]
        /\ down' = Sent(down, p, "fin")
        /\ UNCHANGED <<ibVars, ticking>>
    BY <1>11 DEF AcceptInbound, HelloRefused, q
  <2>2. /\ down' \in [Peer -> Seq(Frame)] /\ down'[q] = down[q]
        /\ p \notin cut => down'[p] = Append(down[p], "fin")
    <3>1. /\ Sent(down, p, "fin") \in [Peer -> Seq(Frame)]
          /\ \A r \in Peer : r # p => Sent(down, p, "fin")[r] = down[r]
          /\ p \notin cut => Sent(down, p, "fin")[p] = Append(down[p], "fin")
      BY <1>2, <1>5, SentType
    <3> QED BY <1>1, <2>1, <3>1
  <2>3. LinkTypeOK'
    <3>1. AcceptorTypeOK'
      BY <1>0, <2>1 DEF AcceptorTypeOK, ibVars
    <3>2. NetTypeOK'
      BY <1>0, <1>6, <2>1, <2>2 DEF NetTypeOK
    <3>3. ClockTypeOK'
      BY <1>0, <1>6, <2>1 DEF ClockTypeOK
    <3> QED BY <1>9, <3>1, <3>2, <3>3 DEF LinkTypeOK
  <2>4. ASSUME NEW r \in Peer PROVE EndsOK(r)'
    BY <1>6, <2>1 DEF EndsOK, obVars, ibVars, LinkInv
  <2>5. ASSUME p \notin cut PROVE ConOK(p)'
    <3>1. Has(down'[p], "fin")
      BY <1>2, <1>5, <2>2, <2>5, HasAppend
    <3>2. up'[p] = << >> /\ ib'[q] = ib[q]
      BY <1>0, <2>1 DEF ibVars, NetTypeOK
    <3>3. ib[q] # "live" /\ RxReset <= obRx[p] + Phase(p)
      BY <1>4, <2>5 DEF Asking, q
    <3>4. Refused(p)'
      BY <1>7, <1>8, <3>1, <3>2, <3>3, HasNone, CounterAssumption DEF Refused, q
    <3> QED BY <1>4, <1>7, <2>5, <3>4 DEF ConOK
  <2>6. SameCon(q)
    BY <1>0, <1>1, <1>6, <2>1, <2>2 DEF SameCon, Phase, obVars, ibVars, NetTypeOK
  <2>7. q \notin cut => ConOK(q)'
    BY <1>1, <2>6, ConUnnoticed DEF LinkInv
  <2> QED BY <1>1, <1>6, <2>3, <2>4, <2>5, <2>7 DEF LinkInv
<1> QED BY <1>10, <1>11

LEMMA OnInboundDisconnectedKeeps ==
  ASSUME LinkInv, NEW q \in Peer, OnInboundDisconnected(q) PROVE LinkInv'
<1> DEFINE p == Other(q)
<1>0. OpenerTypeOK /\ AcceptorTypeOK /\ NetTypeOK /\ ClockTypeOK
  BY DEF LinkInv, LinkTypeOK
<1>1. p \in Peer /\ q # p /\ Other(p) = q /\ \A r \in Peer : r = p \/ r = q
  BY OtherPeer
<1> HIDE DEF p
<1>2. up[p] \in Seq(Frame)
  BY <1>0, <1>1 DEF NetTypeOK
<1>3. \/ ib[q] = "closing" /\ up' = up
      \/ /\ ib[q] = "live" /\ up[p] # << >> /\ Head(up[p]) = "fin"
         /\ up' = [up EXCEPT ![p] = Tail(up[p])]
  BY DEF OnInboundDisconnected, p
<1>4. UNCHANGED <<obVars, down, cut, ticked>>
  BY DEF OnInboundDisconnected
<1>5. LinkTypeOK'
  <2>1. OpenerTypeOK'
    BY <1>0, <1>4 DEF obVars, OpenerTypeOK
  <2>2. AcceptorTypeOK'
    BY <1>0, CounterAssumption DEF OnInboundDisconnected, AcceptorTypeOK
  <2>3. NetTypeOK'
    BY <1>0, <1>2, <1>3, <1>4, HasTail DEF NetTypeOK
  <2>4. ClockTypeOK'
    BY <1>0 DEF OnInboundDisconnected, StillNeeded, ClockTypeOK
  <2> QED BY <2>1, <2>2, <2>3, <2>4 DEF LinkTypeOK
<1>6. /\ \A r \in Peer : ib'[r] = IF r = q THEN "none" ELSE ib[r]
      /\ \A r \in Peer : ibTx'[r] = IF r = q THEN 0 ELSE ibTx[r]
      /\ \A r \in Peer : ibRx'[r] = IF r = q THEN 0 ELSE ibRx[r]
      /\ \A r \in Peer : r # q => ibHello'[r] = ibHello[r]
  BY <1>0 DEF OnInboundDisconnected, AcceptorTypeOK
<1>7. ASSUME NEW r \in Peer PROVE EndsOK(r)'
  <2>1. ticking'[r] <=> ticking[r] /\ (r = q => ob[r] = "up")
    BY <1>0 DEF OnInboundDisconnected, StillNeeded, ClockTypeOK
  <2> QED BY <1>4, <1>6, <2>1 DEF EndsOK, LinkInv, obVars
<1>8. ASSUME p \notin cut PROVE ConOK(p)'
  <2>1. ConOK(p)
    BY <1>1, <1>8 DEF LinkInv
  <2>2. ib[q] = "live" => Has(up[p], "fin")
    BY <1>2, <1>3, HasTail
  <2>3. ~Has(up[p], "hello") => ~Has(up'[p], "hello")
    BY <1>0, <1>1, <1>2, <1>3, HasTail DEF NetTypeOK
  <2>4. CASE ob[p] = "up"
    <3>1. ib[q] # "live" /\ (Asking(p) \/ Refused(p))
      BY <1>1, <2>1, <2>2, <2>4 DEF ConOK, Asking, Accepted, Refused
    <3>2. up'[p] = up[p] /\ ib'[q] = "none" /\ ob'[p] = ob[p] /\ obHello'[p] = obHello[p]
          /\ down'[p] = down[p] /\ obRx'[p] = obRx[p] /\ Phase(p)' = Phase(p)
      BY <1>3, <1>4, <1>6, <3>1 DEF obVars, Phase
    <3> QED BY <1>1, <2>4, <3>1, <3>2 DEF ConOK, Asking, Refused
  <2>5. CASE ob[p] # "up"
    BY <1>1, <1>4, <1>6, <2>1, <2>3, <2>5 DEF ConOK, Left, obVars
  <2> QED BY <2>4, <2>5
<1>9. SameCon(q)
  <2>1. up'[q] = up[q]
    BY <1>0, <1>1, <1>3 DEF NetTypeOK
  <2> QED BY <1>1, <1>4, <1>6, <2>1 DEF SameCon, Phase, obVars, p
<1>10. q \notin cut => ConOK(q)'
  BY <1>1, <1>9, ConUnnoticed DEF LinkInv
<1> QED BY <1>1, <1>4, <1>5, <1>7, <1>8, <1>10 DEF LinkInv

LEMMA OutboundFrameKeeps ==
  ASSUME LinkInv, NEW p \in Peer, OutboundFrame(p) PROVE LinkInv'
<1> DEFINE q == Other(p)
           f == Head(down[p])
<1>0. OpenerTypeOK /\ AcceptorTypeOK /\ NetTypeOK /\ ClockTypeOK
  BY DEF LinkInv, LinkTypeOK
<1>1. q \in Peer /\ q # p /\ Other(q) = p /\ \A r \in Peer : r = p \/ r = q
  BY OtherPeer
<1>2. down[p] \in Seq(Frame) /\ down[p] # << >> /\ f # "fin" /\ ob[p] = "up"
  BY <1>0 DEF OutboundFrame, NetTypeOK
<1>3. f \in Frame /\ Tail(down[p]) \in Seq(Frame) /\ Has(down[p], f)
      /\ (Has(Tail(down[p]), "fin") <=> Has(down[p], "fin"))
  BY <1>2, HasTail
<1> HIDE DEF q, f
<1>4. /\ obRx' = [obRx EXCEPT ![p] = IF Counts(f, obHello[p]) THEN RxReset ELSE obRx[p]]
      /\ obHello' = [obHello EXCEPT ![p] = obHello[p] \/ f = "hello"]
      /\ down' = [down EXCEPT ![p] = Tail(down[p])]
      /\ UNCHANGED <<ob, obTx, ibVars, ticking, up, cut, ticked>>
  BY DEF OutboundFrame, f
<1>5. LinkTypeOK'
  <2>1. OpenerTypeOK'
    BY <1>0, <1>4, CounterAssumption DEF OpenerTypeOK
  <2>2. AcceptorTypeOK' /\ ClockTypeOK'
    BY <1>0, <1>4 DEF AcceptorTypeOK, ClockTypeOK, ibVars
  <2>3. NetTypeOK'
    BY <1>0, <1>3, <1>4 DEF NetTypeOK
  <2> QED BY <2>1, <2>2, <2>3 DEF LinkTypeOK
<1>6. ASSUME NEW r \in Peer PROVE EndsOK(r)'
  BY <1>4 DEF EndsOK, LinkInv, ibVars
<1>7. /\ obRx'[p] = IF Counts(f, obHello[p]) THEN RxReset ELSE obRx[p]
      /\ obHello'[p] <=> obHello[p] \/ f = "hello"
      /\ down'[p] = Tail(down[p]) /\ up'[p] = up[p] /\ ob'[p] = "up" /\ obTx'[p] = obTx[p]
      /\ ib'[q] = ib[q] /\ ibTx'[q] = ibTx[q] /\ ibRx'[q] = ibRx[q]
      /\ Phase(p)' = Phase(p) /\ Phase(q)' = Phase(q)
  BY <1>0, <1>2, <1>4 DEF OpenerTypeOK, NetTypeOK, ibVars, Phase
<1>8. ASSUME p \notin cut PROVE ConOK(p)'
  <2>1. Accepted(p) \/ Refused(p)
    BY <1>2, <1>8 DEF ConOK, Asking, LinkInv
  <2>2. Phase(p) \in {0, 1} /\ Phase(q) \in {0, 1} /\ obRx[p] \in Nat /\ ibTx[q] \in 0 .. TxReset
    BY <1>0, <1>1 DEF Phase, OpenerTypeOK, AcceptorTypeOK
  <2>3. CASE Accepted(p)
    <3>1. (obHello[p] \/ f = "hello") /\ Counts(f, obHello[p])
      BY <2>3 DEF Accepted, Counts, f
    <3>2. DownTimely(p)'
      BY <1>7, <2>2, <3>1, CounterAssumption DEF DownTimely, q
    <3>3. UpTimely(p)'
      BY <1>7, <2>3 DEF UpTimely, Accepted, q
    <3>4. Accepted(p)'
      BY <1>3, <1>7, <2>3, <3>1, <3>2, <3>3 DEF Accepted, q
    <3> QED BY <1>7, <3>4 DEF ConOK
  <2>4. CASE Refused(p)
    <3>1. Refused(p)'
      BY <1>3, <1>7, <2>2, <2>4, CounterAssumption DEF Refused, q
    <3> QED BY <1>7, <3>1 DEF ConOK
  <2> QED BY <2>1, <2>3, <2>4
<1>9. SameCon(q)
  BY <1>0, <1>1, <1>4 DEF SameCon, Phase, OpenerTypeOK, NetTypeOK, ibVars
<1>10. q \notin cut => ConOK(q)'
  BY <1>1, <1>9, ConUnnoticed DEF LinkInv
<1> QED BY <1>1, <1>4, <1>5, <1>6, <1>8, <1>10 DEF LinkInv

LEMMA InboundFrameKeeps ==
  ASSUME LinkInv, NEW q \in Peer, InboundFrame(q) PROVE LinkInv'
<1> DEFINE p == Other(q)
           f == Head(up[p])
<1>0. OpenerTypeOK /\ AcceptorTypeOK /\ NetTypeOK /\ ClockTypeOK
  BY DEF LinkInv, LinkTypeOK
<1>1. p \in Peer /\ q # p /\ Other(p) = q /\ \A r \in Peer : r = p \/ r = q
  BY OtherPeer
<1>2. up[p] \in Seq(Frame) /\ up[p] # << >> /\ f \in {"heartbeat", "data"} /\ ib[q] = "live"
  BY <1>0, <1>1 DEF InboundFrame, NetTypeOK
<1>3. /\ Tail(up[p]) \in Seq(Frame)
      /\ Has(Tail(up[p]), "fin") <=> Has(up[p], "fin")
      /\ Has(Tail(up[p]), "hello") <=> Has(up[p], "hello")
  BY <1>2, HasTail
<1> HIDE DEF p, f
<1>4. /\ ibRx' = [ibRx EXCEPT ![q] = IF Counts(f, ibHello[q]) THEN RxReset ELSE ibRx[q]]
      /\ up' = [up EXCEPT ![p] = Tail(up[p])]
      /\ UNCHANGED <<obVars, ib, ibHello, ibTx, ticking, down, cut, ticked>>
  BY DEF InboundFrame, RxRefreshed, f, p
<1>5. LinkTypeOK'
  <2>1. AcceptorTypeOK'
    BY <1>0, <1>4, CounterAssumption DEF AcceptorTypeOK
  <2>2. OpenerTypeOK' /\ ClockTypeOK'
    BY <1>0, <1>4 DEF OpenerTypeOK, ClockTypeOK, obVars
  <2>3. NetTypeOK'
    BY <1>0, <1>3, <1>4 DEF NetTypeOK
  <2> QED BY <2>1, <2>2, <2>3 DEF LinkTypeOK
<1>6. ASSUME NEW r \in Peer PROVE EndsOK(r)'
  BY <1>4 DEF EndsOK, LinkInv, obVars
<1>7. /\ ibRx'[q] = RxReset
      /\ up'[p] = Tail(up[p]) /\ down'[p] = down[p] /\ ib'[q] = ib[q] /\ ibTx'[q] = ibTx[q]
      /\ ob'[p] = ob[p] /\ obHello'[p] = obHello[p] /\ obTx'[p] = obTx[p] /\ obRx'[p] = obRx[p]
      /\ Phase(p)' = Phase(p) /\ Phase(q)' = Phase(q)
  BY <1>0, <1>1, <1>2, <1>4 DEF AcceptorTypeOK, NetTypeOK, obVars, Phase, Counts, LinkInv, EndsOK
<1>8. ASSUME p \notin cut PROVE ConOK(p)'
  <2>1. ConOK(p)
    BY <1>1, <1>8 DEF LinkInv
  <2>2. Phase(p) \in {0, 1} /\ Phase(q) \in {0, 1} /\ obTx[p] \in 0 .. TxReset
    BY <1>0, <1>1 DEF Phase, OpenerTypeOK
  <2>3. CASE ob[p] = "up"
    <3>1. Accepted(p)
      BY <1>1, <1>2, <2>1, <2>3 DEF ConOK, Asking, Refused
    <3>2. UpTimely(p)'
      BY <1>1, <1>7, <2>2, CounterAssumption DEF UpTimely
    <3>3. DownTimely(p)'
      BY <1>1, <1>7, <3>1 DEF DownTimely, Accepted
    <3>4. Accepted(p)'
      BY <1>1, <1>3, <1>7, <3>1, <3>2, <3>3 DEF Accepted
    <3> QED BY <1>7, <2>3, <3>4 DEF ConOK
  <2>4. CASE ob[p] # "up"
    BY <1>1, <1>2, <1>3, <1>7, <2>1, <2>2, <2>4, CounterAssumption DEF ConOK, Left
  <2> QED BY <2>3, <2>4
<1>9. SameCon(q)
  BY <1>0, <1>1, <1>4 DEF SameCon, Phase, AcceptorTypeOK, NetTypeOK, obVars, p
<1>10. q \notin cut => ConOK(q)'
  BY <1>1, <1>9, ConUnnoticed DEF LinkInv
<1> QED BY <1>1, <1>4, <1>5, <1>6, <1>8, <1>10 DEF LinkInv

(* What an end adds to a queue, one or two frames, hides nothing in it. *)
LEMMA HasAppendTwice ==
  ASSUME NEW w \in Seq(Frame), NEW e \in Frame
  PROVE  LET v == Append(Append(w, e), e) IN
         /\ v \in Seq(Frame) /\ v # << >>
         /\ w # << >> => Head(v) = Head(w)
         /\ \A f : Has(v, f) <=> Has(w, f) \/ f = e
<1> DEFINE u == Append(w, e)
<1>1. /\ u \in Seq(Frame) /\ u # << >>
      /\ w # << >> => Head(u) = Head(w)
      /\ \A f : Has(u, f) <=> Has(w, f) \/ f = e
  BY AppendToQueue, HasAppend
<1> HIDE DEF u
<1>2. /\ Append(u, e) \in Seq(Frame) /\ Append(u, e) # << >> /\ Head(Append(u, e)) = Head(u)
      /\ \A f : Has(Append(u, e), f) <=> Has(u, f) \/ f = e
  BY <1>1, AppendToQueue, HasAppend
<1> QED BY <1>1, <1>2 DEF u

LEMMA SendMsgKeeps ==
  ASSUME LinkInv, NEW p \in Peer, SendMsg(p) PROVE LinkInv'
<1> DEFINE q == Other(p)
<1>0. OpenerTypeOK /\ AcceptorTypeOK /\ NetTypeOK /\ ClockTypeOK
  BY DEF LinkInv, LinkTypeOK
<1>1. q \in Peer /\ q # p /\ Other(q) = p /\ \A r \in Peer : r = p \/ r = q
  BY OtherPeer
<1> HIDE DEF q
<1>2. "data" \in Frame /\ up \in [Peer -> Seq(Frame)] /\ down \in [Peer -> Seq(Frame)]
      /\ up[p] \in Seq(Frame) /\ down[q] \in Seq(Frame)
  BY <1>0, <1>1 DEF Frame, NetTypeOK
<1>3. UNCHANGED <<ob, obHello, obRx, ib, ibHello, ibRx, ticking, cut, ticked>>
  BY DEF SendMsg
<1>4. ClockTypeOK'
  BY <1>0, <1>3 DEF ClockTypeOK
<1>5. Phase(p) \in {0, 1} /\ Phase(q) \in {0, 1} /\ Phase(p)' = Phase(p) /\ Phase(q)' = Phase(q)
  BY <1>3 DEF Phase
<1>6. CASE IsOutboundReady(p) /\ up' = Sent(up, p, "data")
           /\ obTx' = [obTx EXCEPT ![p] = TxReset] /\ UNCHANGED <<down, ibTx>>
  <2>1. /\ up' \in [Peer -> Seq(Frame)] /\ up'[q] = up[q]
        /\ p \notin cut => up'[p] = Append(up[p], "data")
    <3>1. /\ Sent(up, p, "data") \in [Peer -> Seq(Frame)]
          /\ \A r \in Peer : r # p => Sent(up, p, "data")[r] = up[r]
          /\ p \notin cut => Sent(up, p, "data")[p] = Append(up[p], "data")
      BY <1>2, SentType
    <3> QED BY <1>1, <1>6, <3>1
  <2>2. LinkTypeOK'
    <3>1. OpenerTypeOK'
      BY <1>0, <1>3, <1>6, CounterAssumption DEF OpenerTypeOK
    <3>2. AcceptorTypeOK' /\ NetTypeOK'
      BY <1>0, <1>3, <1>6, <2>1 DEF AcceptorTypeOK, NetTypeOK
    <3> QED BY <1>4, <3>1, <3>2 DEF LinkTypeOK
  <2>3. obTx'[p] = TxReset /\ obTx'[q] = obTx[q]
    BY <1>0, <1>1, <1>6 DEF OpenerTypeOK
  <2>4. ASSUME NEW r \in Peer PROVE EndsOK(r)'
    BY <1>1, <1>3, <1>6, <2>3, CounterAssumption DEF EndsOK, LinkInv
  <2>5. ASSUME p \notin cut PROVE ConOK(p)'
    <3>1. /\ up'[p] # << >>
          /\ Has(up'[p], "fin") <=> Has(up[p], "fin")
          /\ Has(up'[p], "hello") <=> Has(up[p], "hello")
      <4> DEFINE v == Append(up[p], "data")
      <4>1. /\ v # << >>
            /\ Has(v, "fin") <=> Has(up[p], "fin")
            /\ Has(v, "hello") <=> Has(up[p], "hello")
        BY <1>2, AppendToQueue, HasAppend
      <4> HIDE DEF v
      <4>2. up'[p] = v
        BY <2>1, <2>5 DEF v
      <4> QED BY <4>1, <4>2
    <3>2. ob[p] = "up" /\ (Accepted(p) \/ Refused(p))
      BY <1>6, <2>5 DEF IsOutboundReady, LinkInv, ConOK, Asking
    <3>3. CASE Accepted(p)
      <4>1. obTx[p] \in 1 .. TxReset /\ ibRx[q] \in Nat
        BY <1>0, <1>1, <3>2, CounterAssumption DEF OpenerTypeOK, AcceptorTypeOK, EndsOK, LinkInv
      <4>2. RxReset <= ibRx[q] + Phase(q) + TxReset
        BY <1>5, <3>3, <4>1, CounterAssumption DEF Accepted, UpTimely, q
      <4>3. UpTimely(p)'
        BY <1>3, <1>5, <3>1, <4>2 DEF UpTimely, q
      <4>4. DownTimely(p)'
        BY <1>3, <1>5, <1>6, <3>3 DEF DownTimely, Accepted, q
      <4>5. Accepted(p)'
        BY <1>3, <1>6, <3>1, <3>3, <4>3, <4>4 DEF Accepted, q
      <4> QED BY <1>3, <3>2, <4>5 DEF ConOK
    <3>4. CASE Refused(p)
      BY <1>3, <1>5, <1>6, <3>1, <3>2, <3>4 DEF ConOK, Refused
    <3> QED BY <3>2, <3>3, <3>4
  <2>6. SameCon(q)
    BY <1>1, <1>3, <1>5, <1>6, <2>1, <2>3 DEF SameCon
  <2>7. q \notin cut => ConOK(q)'
    BY <1>1, <2>6, ConUnnoticed DEF LinkInv
  <2> QED BY <1>1, <1>3, <2>2, <2>4, <2>5, <2>7 DEF LinkInv
<1>7. CASE IsInboundReady(p) /\ ibTx' = [ibTx EXCEPT ![p] = TxReset] /\ UNCHANGED <<up, obTx>>
           /\ down' = IF Heard(p, q) THEN SentTwice(down, q, "data") ELSE down
  <2>1. /\ down' \in [Peer -> Seq(Frame)] /\ down'[p] = down[p]
        /\ ~Heard(p, q) => down'[q] = down[q]
        /\ q \notin cut /\ Heard(p, q) => down'[q] = Append(Append(down[q], "data"), "data")
    <3>1. q \in Peer
      BY <1>1
    <3>2. /\ SentTwice(down, q, "data") \in [Peer -> Seq(Frame)]
          /\ \A r \in Peer : r # q => SentTwice(down, q, "data")[r] = down[r]
          /\ q \notin cut =>
                 SentTwice(down, q, "data")[q] = Append(Append(down[q], "data"), "data")
      <4>1. "data" \in Frame /\ down \in [Peer -> Seq(Frame)]
        BY <1>2
      <4> QED BY <3>1, <4>1, SentTwiceType
    <3> QED BY <1>1, <1>2, <1>7, <3>2
  <2>2. LinkTypeOK'
    BY <1>0, <1>3, <1>4, <1>7, <2>1, CounterAssumption
       DEF LinkTypeOK, OpenerTypeOK, AcceptorTypeOK, NetTypeOK
  <2>3. ibTx'[p] = TxReset /\ ibTx'[q] = ibTx[q]
    BY <1>0, <1>1, <1>7 DEF AcceptorTypeOK
  <2>4. ASSUME NEW r \in Peer PROVE EndsOK(r)'
    BY <1>1, <1>3, <1>7, <2>3, CounterAssumption DEF EndsOK, LinkInv
  <2>5. ASSUME q \notin cut PROVE ConOK(q)'
    <3>1. ConOK(q)
      BY <1>1, <2>5 DEF LinkInv
    <3>2. CASE Heard(p, q)
      <4>1. /\ down'[q] # << >>
            /\ down[q] # << >> => Head(down'[q]) = Head(down[q])
            /\ Has(down'[q], "fin") <=> Has(down[q], "fin")
        <5> DEFINE v == Append(Append(down[q], "data"), "data")
        <5>1. /\ v # << >> /\ (down[q] # << >> => Head(v) = Head(down[q]))
              /\ Has(v, "fin") <=> Has(down[q], "fin")
          BY <1>2, HasAppendTwice
        <5> HIDE DEF v
        <5>2. down'[q] = v
          BY <2>1, <2>5, <3>2 DEF v
        <5> QED BY <5>1, <5>2
      <4>2. ob[q] = "up" /\ Accepted(q)
        BY <1>1, <3>1, <3>2 DEF Heard, ConOK, Asking, Refused
      <4>3. ibTx[p] \in 1 .. TxReset /\ obRx[q] \in Nat
        BY <1>0, <1>1, <3>2, CounterAssumption
           DEF OpenerTypeOK, AcceptorTypeOK, EndsOK, LinkInv, Heard
      <4>4. RxReset <= obRx[q] + Phase(q) + TxReset
        <5>1. DownTimely(q) /\ Other(q) = p
          BY <1>1, <4>2 DEF Accepted
        <5>2. Phase(p) \in {0, 1} /\ Phase(q) \in {0, 1} /\ TxReset \in Nat /\ RxReset \in Nat
          BY CounterAssumption DEF Phase
        <5>3. RxReset <= obRx[q] + Phase(q) +
                (IF down[q] # << >> THEN TxReset ELSE TxReset - ibTx[p] + 1 - Phase(p))
          BY <5>1 DEF DownTimely
        <5> QED BY <4>3, <5>2, <5>3
      <4>5. DownTimely(q)'
        BY <1>1, <1>3, <1>5, <4>1, <4>4 DEF DownTimely
      <4>6. UpTimely(q)'
        BY <1>1, <1>3, <1>5, <1>7, <4>2 DEF UpTimely, Accepted
      <4>7. Accepted(q)'
        BY <1>1, <1>3, <1>7, <4>1, <4>2, <4>5, <4>6 DEF Accepted
      <4> QED BY <1>3, <4>2, <4>7 DEF ConOK
    <3>3. CASE ~Heard(p, q)
      <4>1. ~(ob[q] = "up" /\ Accepted(q))
        BY <1>1, <3>3 DEF Heard, Accepted
      <4>2. down'[q] = down[q]
        BY <2>1, <3>3
      <4> QED BY <1>1, <1>3, <1>5, <1>7, <3>1, <4>1, <4>2 DEF ConOK, Asking, Refused, Left
    <3> QED BY <3>2, <3>3
  <2>6. SameCon(p)
    BY <1>1, <1>3, <1>5, <1>7, <2>1, <2>3 DEF SameCon, q
  <2>7. p \notin cut => ConOK(p)'
    BY <2>6, ConUnnoticed DEF LinkInv
  <2> QED BY <1>1, <1>3, <2>2, <2>4, <2>5, <2>7 DEF LinkInv
<1> QED BY <1>6, <1>7 DEF SendMsg, q

LEMMA NextSecondKeeps ==
  ASSUME LinkInv, NextSecond PROVE LinkInv'
<1>0. OpenerTypeOK /\ AcceptorTypeOK /\ NetTypeOK /\ ClockTypeOK
  BY DEF LinkInv, LinkTypeOK
<1>1. UNCHANGED <<obHello, obTx, obRx, ibVars, ticking, net>>
  BY DEF NextSecond
<1>2. \A p \in Peer : ob'[p] = IF ob[p] = "wait" THEN "down" ELSE ob[p]
  BY DEF NextSecond
<1>3. LinkTypeOK'
  BY <1>0, <1>1 DEF NextSecond, LinkTypeOK, OpenerTypeOK, AcceptorTypeOK, NetTypeOK, ClockTypeOK,
                    ibVars, net
<1>4. ASSUME NEW r \in Peer PROVE EndsOK(r)'
  BY <1>1, <1>2 DEF EndsOK, LinkInv, ibVars
<1>5. ASSUME NEW p \in Peer \ cut PROVE ConOK(p)'
  <2> DEFINE q == Other(p)
  <2>1. q \in Peer /\ ConOK(p) /\ EndsOK(p) /\ EndsOK(q)
    BY OtherPeer DEF LinkInv
  <2>2. Phase(p)' = 0 /\ Phase(q)' = 0
    BY DEF NextSecond, Phase
  <2>3. /\ ob[p] = "up" => up[p] = << >> /\ down[p] = << >>
        /\ ib[q] = "live" => up[p] = << >>
    BY DEF NextSecond, Delivered
  <2>4. CASE ob[p] = "up"
    <3>1. Accepted(p)
      BY <2>1, <2>3, <2>4, HasNone DEF ConOK, Asking, Refused
    <3>2. Phase(p) = 1 /\ Phase(q) = 1
      BY <2>1, <2>4, <3>1 DEF EndsOK, Accepted, NextSecond, Phase
    <3>3. obRx[p] \in Nat /\ obTx[p] \in 0 .. TxReset /\ ibRx[q] \in Nat /\ ibTx[q] \in 0 .. TxReset
      BY <1>0, <2>1 DEF OpenerTypeOK, AcceptorTypeOK
    <3>4. UpTimely(p)'
      BY <1>1, <2>2, <2>3, <2>4, <3>1, <3>2, <3>3, CounterAssumption
         DEF UpTimely, Accepted, ibVars, net
    <3>5. DownTimely(p)'
      BY <1>1, <2>2, <2>3, <2>4, <3>1, <3>2, <3>3, CounterAssumption
         DEF DownTimely, Accepted, ibVars, net
    <3>6. Accepted(p)'
      BY <1>1, <3>1, <3>4, <3>5 DEF Accepted, ibVars, net
    <3> QED BY <1>2, <2>4, <3>6 DEF ConOK
  <2>5. CASE ob[p] # "up"
    BY <1>1, <1>2, <2>1, <2>3, <2>5, HasNone DEF ConOK, Left, ibVars, net
  <2> QED BY <2>4, <2>5
<1> QED BY <1>1, <1>3, <1>4, <1>5 DEF LinkInv, net

LEMMA CutKeeps ==
  ASSUME LinkInv, NEW p \in Peer, Cut(p) PROVE LinkInv'
<1>0. OpenerTypeOK /\ AcceptorTypeOK /\ NetTypeOK /\ ClockTypeOK
  BY DEF LinkInv, LinkTypeOK
<1>1. /\ UNCHANGED <<obVars, ibVars, ticking, ticked>> /\ cut' = cut \cup {p}
      /\ up' = [up EXCEPT ![p] = << >>] /\ down' = [down EXCEPT ![p] = << >>]
  BY DEF Cut
<1>2. LinkTypeOK'
  <2>1. << >> \in Seq(Frame)
    OBVIOUS
  <2> QED BY <1>0, <1>1, <2>1 DEF LinkTypeOK, OpenerTypeOK, AcceptorTypeOK, NetTypeOK, ClockTypeOK,
                    obVars, ibVars
<1>3. ASSUME NEW r \in Peer PROVE EndsOK(r)'
  BY <1>1 DEF EndsOK, LinkInv, obVars, ibVars
<1>4. ASSUME NEW r \in Peer \ cut' PROVE ConOK(r)'
  <2>1. r # p /\ ConOK(r)
    BY <1>1, <1>4 DEF LinkInv
  <2>2. SameCon(r)
    BY <1>0, <1>1, <2>1 DEF SameCon, Phase, obVars, ibVars, NetTypeOK
  <2> QED BY <2>1, <2>2, ConUnnoticed
<1> QED BY <1>2, <1>3, <1>4 DEF LinkInv

LEMMA ResetKeeps ==
  ASSUME LinkInv, NEW p \in Peer, Reset(p) PROVE LinkInv'
<1> DEFINE q == Other(p)
<1>0. OpenerTypeOK /\ AcceptorTypeOK /\ NetTypeOK /\ ClockTypeOK
  BY DEF LinkInv, LinkTypeOK
<1>1. q \in Peer /\ q # p /\ Other(q) = p /\ \A r \in Peer : r = p \/ r = q
  BY OtherPeer
<1> HIDE DEF q
<1>2. /\ up' = [up EXCEPT ![p] = IF ib[q] = "live" THEN <<"fin">> ELSE << >>]
      /\ down' = [down EXCEPT ![p] = << >>] /\ UNCHANGED <<ibVars, cut, ticked>>
  BY DEF Reset, q
<1>3. <<"fin">> \in Seq(Frame) /\ << >> \in Seq(Frame)
  BY DEF Frame
<1>4. LinkTypeOK'
  <2>1. OpenerTypeOK' /\ ClockTypeOK'
    BY <1>0, CounterAssumption DEF Reset, OutboundLost, Retries, StillNeeded, OpenerTypeOK, ClockTypeOK
  <2>2. AcceptorTypeOK'
    BY <1>0, <1>2 DEF AcceptorTypeOK, ibVars
  <2>3. NetTypeOK'
    BY <1>0, <1>2, <1>3 DEF NetTypeOK
  <2> QED BY <2>1, <2>2, <2>3 DEF LinkTypeOK
<1>5. ASSUME NEW r \in Peer PROVE EndsOK(r)'
  <2>1. /\ ob'[r] = IF r = p THEN "wait" ELSE ob[r]
        /\ obTx'[r] = IF r = p THEN 0 ELSE obTx[r]
        /\ ticking'[r] <=> ticking[r] /\ (r = p => ib[r] # "none")
    BY <1>0 DEF Reset, OutboundLost, Retries, StillNeeded, OpenerTypeOK, ClockTypeOK
  <2> QED BY <1>2, <2>1 DEF EndsOK, LinkInv, ibVars
<1>6. ASSUME p \notin cut PROVE ConOK(p)'
  <2>1. ob[p] = "up" /\ ob'[p] = "wait" /\ ConOK(p)
    BY <1>0, <1>6 DEF Reset, OutboundLost, Retries, OpenerTypeOK, LinkInv
  <2>2. up'[p] = IF ib[q] = "live" THEN <<"fin">> ELSE << >>
    BY <1>0, <1>2 DEF NetTypeOK
  <2>3. ib'[q] = ib[q] /\ ibRx'[q] = ibRx[q] /\ Phase(q)' = Phase(q) /\ Phase(q) \in {0, 1}
        /\ Phase(p) \in {0, 1}
    BY <1>2 DEF ibVars, Phase
  <2>4. ~Has(up'[p], "hello") /\ (ib[q] = "live" => Has(up'[p], "fin"))
    <3>1. ~Has(<<"fin">>, "hello") /\ Has(<<"fin">>, "fin")
      BY DEF Has
    <3> QED BY <2>2, <3>1, HasNone
  <2>5. ib[q] = "live" => RxReset <= ibRx[q] + Phase(q) + TxReset
    <3>1. ib[q] = "live" => Accepted(p)
      BY <2>1 DEF ConOK, Asking, Refused, q
    <3>2. obTx[p] \in 1 .. TxReset /\ ibRx[q] \in Nat
      BY <1>0, <1>1, <2>1, CounterAssumption DEF OpenerTypeOK, AcceptorTypeOK, EndsOK, LinkInv
    <3> QED BY <2>3, <3>1, <3>2, CounterAssumption DEF Accepted, UpTimely, q
  <2> QED BY <2>1, <2>3, <2>4, <2>5 DEF ConOK, Left, q
<1>7. SameCon(q)
  BY <1>0, <1>1, <1>2 DEF Reset, OutboundLost, SameCon, Phase, OpenerTypeOK, NetTypeOK, ibVars
<1>8. q \notin cut => ConOK(q)'
  BY <1>1, <1>7, ConUnnoticed DEF LinkInv
<1> QED BY <1>1, <1>2, <1>4, <1>5, <1>6, <1>8 DEF LinkInv

LEMMA CrashKeeps ==
  ASSUME LinkInv, NEW p \in Peer, Crash(p) PROVE LinkInv'
<1> DEFINE q == Other(p)
<1>0. OpenerTypeOK /\ AcceptorTypeOK /\ NetTypeOK /\ ClockTypeOK
  BY DEF LinkInv, LinkTypeOK
<1>1. q \in Peer /\ q # p /\ Other(q) = p /\ \A r \in Peer : r = p \/ r = q
  BY OtherPeer
<1>2. << >> \in Seq(Frame)
  OBVIOUS
<1> HIDE DEF q
<1>3. /\ ob' = [ob EXCEPT ![p] = "down"] /\ obTx' = [obTx EXCEPT ![p] = 0]
      /\ ib' = [ib EXCEPT ![p] = "none", ![q] = IF ib[q] = "none" THEN ib[q] ELSE "stale"]
      /\ ibTx' = [ibTx EXCEPT ![p] = 0] /\ ticking' = [ticking EXCEPT ![p] = FALSE]
      /\ ibHello' = [ibHello EXCEPT ![p] = FALSE] /\ ibRx' = [ibRx EXCEPT ![p] = 0]
      /\ up' = [r \in Peer |-> << >>] /\ down' = [r \in Peer |-> << >>]
      /\ cut' = (cut \ {p}) \cup (IF ob[q] = "up" THEN {q} ELSE {})
  BY <1>0, <1>1 DEF Crash, q, AcceptorTypeOK
<1>4. LinkTypeOK'
  <2>1. OpenerTypeOK'
    BY <1>0, CounterAssumption DEF Crash, OpenerTypeOK
  <2>2. AcceptorTypeOK'
    <3>1. ib' \in [Peer -> {"none", "live", "closing", "stale"}]
      BY <1>0, <1>1, <1>3 DEF AcceptorTypeOK
    <3>2. ibHello' \in [Peer -> BOOLEAN] /\ ibTx' \in [Peer -> 0 .. TxReset] /\ ibRx' \in [Peer -> Nat]
      BY <1>0, <1>3, CounterAssumption DEF AcceptorTypeOK
    <3> QED BY <3>1, <3>2 DEF AcceptorTypeOK
  <2>3. NetTypeOK'
    BY <1>0, <1>1, <1>2, <1>3 DEF NetTypeOK
  <2>4. ClockTypeOK'
    BY <1>0 DEF Crash, ClockTypeOK
  <2> QED BY <2>1, <2>2, <2>3, <2>4 DEF LinkTypeOK
<1>5. /\ ob'[p] = "down" /\ ob'[q] = ob[q] /\ obTx'[q] = obTx[q]
      /\ ib'[p] = "none" /\ ib'[q] \in {"none", "stale"} /\ (ib'[q] # "none" => ib[q] # "none")
      /\ ibTx'[q] = ibTx[q] /\ (ticking'[q] <=> ticking[q])
  BY <1>0, <1>1, <1>3 DEF OpenerTypeOK, AcceptorTypeOK, ClockTypeOK
<1>6. EndsOK(p)' /\ EndsOK(q)'
  <2>1. EndsOK(q)
    BY <1>1 DEF LinkInv
  <2> QED BY <1>5, <2>1 DEF EndsOK
<1>7. ConOK(p)' /\ (q \notin cut' => ConOK(q)')
  BY <1>1, <1>3, <1>5, HasNone DEF ConOK, Left, q
<1> QED BY <1>1, <1>4, <1>6, <1>7 DEF LinkInv

-----------------------------------------------------------------------------
(* The heartbeat timer, which serves the opening end of one connection and *)
(* the accepting end of the other.                                         *)

LEMMA TxAfterType ==
  ASSUME NEW tx \in 1 .. TxReset PROVE TxAfter(tx) \in 1 .. TxReset
  BY CounterAssumption DEF TxAfter

(* An opening end that is not cut beats and does not time out. *)
LEMMA OutboundNeverDue ==
  ASSUME LinkInv, NEW p \in Peer \ cut, p \notin ticked, ob[p] = "up"
  PROVE  obRx[p] > 1 /\ OutboundBeats(p) /\ ~OutboundTimesOut(p)
<1> DEFINE q == Other(p)
<1>0. OpenerTypeOK /\ AcceptorTypeOK
  BY DEF LinkInv, LinkTypeOK
<1>1. q \in Peer /\ EndsOK(q) /\ ConOK(p)
  BY OtherPeer DEF LinkInv
<1>2. Phase(p) = 0 /\ Phase(q) \in {0, 1} /\ obRx[p] \in Nat /\ ibTx[q] \in 0 .. TxReset
  BY <1>0, <1>1 DEF Phase, OpenerTypeOK, AcceptorTypeOK
<1>3. RxReset <= obRx[p] + TxReset
  <2>1. CASE Asking(p)
    BY <1>2, <2>1, CounterAssumption DEF Asking
  <2>2. CASE Accepted(p)
    <3>1. ibTx[q] > 0
      BY <1>1, <2>2 DEF EndsOK, Accepted
    <3> QED BY <1>2, <2>2, <3>1, CounterAssumption DEF Accepted, DownTimely
  <2>3. CASE Refused(p)
    BY <1>2, <2>3 DEF Refused
  <2> QED BY <1>1, <2>1, <2>2, <2>3 DEF ConOK
<1>4. obRx[p] > 1
  BY <1>2, <1>3, CounterAssumption
<1> QED BY <1>2, <1>4 DEF OutboundBeats, OutboundTimesOut

(* An accepting end beats and does not time out either. *)
LEMMA InboundNeverDue ==
  ASSUME LinkInv, NEW p \in Peer, p \notin ticked, Other(p) \notin cut, ib[p] = "live"
  PROVE  ibRx[p] > 1 /\ InboundBeats(p) /\ ~InboundTimesOut(p)
<1> DEFINE q == Other(p)
<1>0. OpenerTypeOK /\ AcceptorTypeOK
  BY DEF LinkInv, LinkTypeOK
<1>1. q \in Peer /\ Other(q) = p /\ EndsOK(q) /\ ConOK(q)
  BY OtherPeer DEF LinkInv
<1> HIDE DEF q
<1>2. Phase(p) = 0 /\ Phase(q) \in {0, 1} /\ ibRx[p] \in Nat /\ obTx[q] \in 0 .. TxReset
  BY <1>0, <1>1 DEF Phase, OpenerTypeOK, AcceptorTypeOK
<1>3. RxReset <= ibRx[p] + TxReset
  <2>1. CASE ob[q] = "up"
    <3>1. Accepted(q) /\ obTx[q] > 0
      BY <1>1, <2>1 DEF ConOK, EndsOK, Asking, Refused
    <3> QED BY <1>1, <1>2, <3>1, CounterAssumption DEF Accepted, UpTimely
  <2>2. CASE ob[q] # "up"
    BY <1>1, <1>2, <2>2 DEF ConOK, Left
  <2> QED BY <2>1, <2>2
<1>4. ibRx[p] > 1
  BY <1>2, <1>3, CounterAssumption
<1> QED BY <1>2, <1>4 DEF InboundBeats, InboundTimesOut

LEMMA TickOutboundEffect ==
  ASSUME LinkInv, NEW p \in Peer, p \notin ticked, TickOutbound(p)
  PROVE  /\ OpenerTypeOK' /\ obHello' = obHello /\ up' \in [Peer -> Seq(Frame)]
         /\ \A r \in Peer : r # p => /\ ob'[r] = ob[r] /\ obTx'[r] = obTx[r] /\ obRx'[r] = obRx[r]
                                     /\ up'[r] = up[r]
         /\ ob'[p] = "up" => ob[p] = "up" /\ obTx'[p] > 0
         /\ ob[p] # "up" => ob'[p] = ob[p] /\ up'[p] = up[p]
         /\ ob[p] = "up" /\ p \notin cut =>
                /\ ob'[p] = "up" /\ obRx'[p] = obRx[p] - 1
                /\ \/ obTx[p] = 1 /\ obTx'[p] = TxReset /\ up'[p] = Append(up[p], "heartbeat")
                   \/ obTx[p] # 1 /\ obTx'[p] = obTx[p] - 1 /\ up'[p] = up[p]
<1>0. OpenerTypeOK /\ up \in [Peer -> Seq(Frame)]
  BY DEF LinkInv, LinkTypeOK, NetTypeOK
<1>1. ob[p] = "up" => obTx[p] \in 1 .. TxReset
  BY <1>0, CounterAssumption DEF OpenerTypeOK, LinkInv, EndsOK
<1>2. ob[p] = "up" /\ p \notin cut => OutboundBeats(p) /\ ~OutboundTimesOut(p)
  BY OutboundNeverDue
<1>3. CASE ~OutboundBeats(p)
  BY <1>0, <1>1, <1>2, <1>3 DEF TickOutbound, obVars, OpenerTypeOK
<1>4. CASE OutboundBeats(p)
  <2>1. ob[p] = "up" /\ obRx[p] \in Nat /\ obRx[p] > 0 /\ TxAfter(obTx[p]) \in 1 .. TxReset
    BY <1>0, <1>1, <1>4, TxAfterType DEF OutboundBeats, OpenerTypeOK
  <2>2. /\ obTx' = [obTx EXCEPT ![p] = TxAfter(obTx[p])]
        /\ obRx' = [obRx EXCEPT ![p] = obRx[p] - 1]
        /\ ob' = IF OutboundTimesOut(p) THEN [ob EXCEPT ![p] = "off"] ELSE ob
        /\ obHello' = obHello
    BY <1>4 DEF TickOutbound, AfterOutboundTimeout
  <2> DEFINE beaten == IF obTx[p] = 1 THEN Sent(up, p, "heartbeat") ELSE up
  <2>3. up' = IF OutboundTimesOut(p) THEN Sent(beaten, p, "fin") ELSE beaten
    BY <1>4 DEF TickOutbound
  <2>4. "heartbeat" \in Frame /\ "fin" \in Frame
    BY DEF Frame
  <2>5. /\ beaten \in [Peer -> Seq(Frame)]
        /\ \A r \in Peer : r # p => beaten[r] = up[r]
        /\ p \notin cut => beaten[p] = IF obTx[p] = 1 THEN Append(up[p], "heartbeat") ELSE up[p]
    <3>1. /\ Sent(up, p, "heartbeat") \in [Peer -> Seq(Frame)]
          /\ \A r \in Peer : r # p => Sent(up, p, "heartbeat")[r] = up[r]
          /\ p \notin cut => Sent(up, p, "heartbeat")[p] = Append(up[p], "heartbeat")
      BY <1>0, <2>4, SentType
    <3> QED BY <1>0, <3>1
  <2> HIDE DEF beaten
  <2>6. /\ Sent(beaten, p, "fin") \in [Peer -> Seq(Frame)]
        /\ \A r \in Peer : r # p => Sent(beaten, p, "fin")[r] = beaten[r]
    BY <2>4, <2>5, SentType
  <2>7. OpenerTypeOK'
    BY <1>0, <2>1, <2>2, CounterAssumption DEF OpenerTypeOK
  <2>8. up' \in [Peer -> Seq(Frame)] /\ \A r \in Peer : r # p => up'[r] = up[r]
    BY <2>3, <2>5, <2>6
  <2>9. /\ \A r \in Peer : r # p => ob'[r] = ob[r] /\ obTx'[r] = obTx[r] /\ obRx'[r] = obRx[r]
        /\ obTx'[p] = TxAfter(obTx[p]) /\ obRx'[p] = obRx[p] - 1
    BY <1>0, <2>2 DEF OpenerTypeOK
  <2>10. p \notin cut => /\ ob' = ob
                         /\ up'[p] = IF obTx[p] = 1 THEN Append(up[p], "heartbeat") ELSE up[p]
    BY <1>2, <2>1, <2>2, <2>3, <2>5
  <2> QED BY <2>1, <2>2, <2>7, <2>8, <2>9, <2>10 DEF TxAfter
<1> QED BY <1>3, <1>4

LEMMA TickInboundEffect ==
  ASSUME LinkInv, NEW p \in Peer, p \notin ticked, TickInbound(p)
  PROVE  LET q == Other(p) IN
         /\ AcceptorTypeOK' /\ ibHello' = ibHello /\ down' \in [Peer -> Seq(Frame)]
         /\ down'[p] = down[p] /\ ib'[q] = ib[q] /\ ibTx'[q] = ibTx[q] /\ ibRx'[q] = ibRx[q]
         /\ ib'[p] # "none" => ib'[p] = ib[p] /\ ibTx'[p] > 0
         /\ ib[p] # "live" => ib'[p] # "live"
         /\ ~Heard(p, q) => down'[q] = down[q]
         /\ ib[p] = "live" /\ q \notin cut =>
                /\ ib'[p] = "live" /\ ibRx'[p] = ibRx[p] - 1
                /\ \/ ibTx[p] = 1 /\ ibTx'[p] = TxReset
                   \/ ibTx[p] # 1 /\ ibTx'[p] = ibTx[p] - 1
                /\ Heard(p, q) => down'[q] = IF ibTx[p] = 1
                     THEN Append(Append(down[q], "heartbeat"), "heartbeat") ELSE down[q]
<1> DEFINE q == Other(p)
<1>0. AcceptorTypeOK /\ down \in [Peer -> Seq(Frame)]
  BY DEF LinkInv, LinkTypeOK, NetTypeOK
<1>1. q \in Peer /\ q # p
  BY OtherPeer
<1>2. ib[p] # "none" => ibTx[p] \in 1 .. TxReset
  BY <1>0, CounterAssumption DEF AcceptorTypeOK, LinkInv, EndsOK
<1>3. ib[p] = "live" /\ q \notin cut => InboundBeats(p) /\ ~InboundTimesOut(p)
  BY InboundNeverDue
<1> HIDE DEF q
<1>4. CASE ~InboundBeats(p)
  BY <1>0, <1>1, <1>2, <1>3, <1>4 DEF TickInbound, ibVars, AcceptorTypeOK, q
<1>5. CASE InboundBeats(p)
  <2>1. ib[p] # "none" /\ ibRx[p] \in Nat /\ ibRx[p] > 0 /\ TxAfter(ibTx[p]) \in 1 .. TxReset
    BY <1>0, <1>2, <1>5, TxAfterType DEF InboundBeats, AcceptorTypeOK
  <2> DEFINE beaten == IF ibTx[p] = 1 THEN SentTwice(down, q, "heartbeat") ELSE down
             closed == IF InboundTimesOut(p) THEN Sent(beaten, q, "fin") ELSE beaten
  <2>2. /\ ibTx' = [ibTx EXCEPT ![p] = TxAfter(ibTx[p])]
        /\ ibRx' = [ibRx EXCEPT ![p] = ibRx[p] - 1]
        /\ ib' = IF InboundTimesOut(p) THEN [ib EXCEPT ![p] = "none"] ELSE ib
        /\ ibHello' = ibHello
        /\ down' = IF Heard(p, q) THEN closed ELSE down
    BY <1>5 DEF TickInbound, InboundForgotten, q
  <2>3. "heartbeat" \in Frame /\ "fin" \in Frame
    BY DEF Frame
  <2>4. /\ beaten \in [Peer -> Seq(Frame)]
        /\ \A r \in Peer : r # q => beaten[r] = down[r]
        /\ q \notin cut => beaten[q] = IF ibTx[p] = 1
                             THEN Append(Append(down[q], "heartbeat"), "heartbeat") ELSE down[q]
    <3>1. /\ SentTwice(down, q, "heartbeat") \in [Peer -> Seq(Frame)]
          /\ \A r \in Peer : r # q => SentTwice(down, q, "heartbeat")[r] = down[r]
          /\ q \notin cut => SentTwice(down, q, "heartbeat")[q]
                               = Append(Append(down[q], "heartbeat"), "heartbeat")
      BY <1>0, <1>1, <2>3, SentTwiceType
    <3> QED BY <1>0, <3>1
  <2> HIDE DEF beaten
  <2>5. /\ Sent(beaten, q, "fin") \in [Peer -> Seq(Frame)]
        /\ \A r \in Peer : r # q => Sent(beaten, q, "fin")[r] = beaten[r]
    BY <1>1, <2>3, <2>4, SentType
  <2>6. closed \in [Peer -> Seq(Frame)] /\ closed[p] = down[p]
        /\ (~InboundTimesOut(p) => closed = beaten)
    BY <1>1, <2>4, <2>5
  <2> HIDE DEF closed
  <2>7. AcceptorTypeOK'
    BY <1>0, <2>1, <2>2 DEF AcceptorTypeOK
  <2>8. /\ ibTx'[p] = TxAfter(ibTx[p]) /\ ibRx'[p] = ibRx[p] - 1
        /\ ibTx'[q] = ibTx[q] /\ ibRx'[q] = ibRx[q] /\ ib'[q] = ib[q]
        /\ ib'[p] = IF InboundTimesOut(p) THEN "none" ELSE ib[p]
    BY <1>0, <1>1, <2>2 DEF AcceptorTypeOK
  <2>9. down' \in [Peer -> Seq(Frame)] /\ down'[p] = down[p] /\ (~Heard(p, q) => down'[q] = down[q])
        /\ (Heard(p, q) => down'[q] = closed[q])
    BY <1>0, <2>2, <2>6
  <2>10. TxAfter(ibTx[p]) = IF ibTx[p] = 1 THEN TxReset ELSE ibTx[p] - 1
    BY DEF TxAfter
  <2>11. ib[p] = "live" /\ q \notin cut => InboundBeats(p) /\ ~InboundTimesOut(p)
    BY <1>3
  <2> QED BY <2>1, <2>2, <2>4, <2>6, <2>7, <2>8, <2>9, <2>10, <2>11 DEF q
<1> QED BY <1>4, <1>5

LEMMA HeartbeatTickKeeps ==
  ASSUME LinkInv, NEW p \in Peer, HeartbeatTick(p) PROVE LinkInv'
<1> DEFINE q == Other(p)
<1>0. OpenerTypeOK /\ AcceptorTypeOK /\ NetTypeOK /\ ClockTypeOK
  BY DEF LinkInv, LinkTypeOK
<1>1. q \in Peer /\ q # p /\ Other(q) = p /\ \A r \in Peer : r = p \/ r = q
  BY OtherPeer
<1>2. /\ p \notin ticked /\ TickOutbound(p) /\ TickInbound(p)
      /\ ticked' = ticked \cup {p} /\ UNCHANGED <<cut, faults>>
  BY DEF HeartbeatTick
<1>3. /\ OpenerTypeOK' /\ obHello' = obHello /\ up' \in [Peer -> Seq(Frame)]
      /\ ob'[q] = ob[q] /\ obTx'[q] = obTx[q] /\ obRx'[q] = obRx[q] /\ up'[q] = up[q]
      /\ ob'[p] = "up" => ob[p] = "up" /\ obTx'[p] > 0
      /\ ob[p] # "up" => ob'[p] = ob[p] /\ up'[p] = up[p]
      /\ ob[p] = "up" /\ p \notin cut =>
             /\ ob'[p] = "up" /\ obRx'[p] = obRx[p] - 1
             /\ \/ obTx[p] = 1 /\ obTx'[p] = TxReset /\ up'[p] = Append(up[p], "heartbeat")
                \/ obTx[p] # 1 /\ obTx'[p] = obTx[p] - 1 /\ up'[p] = up[p]
  BY <1>1, <1>2, TickOutboundEffect
<1>4. /\ AcceptorTypeOK' /\ ibHello' = ibHello /\ down' \in [Peer -> Seq(Frame)]
      /\ down'[p] = down[p] /\ ib'[q] = ib[q] /\ ibTx'[q] = ibTx[q] /\ ibRx'[q] = ibRx[q]
      /\ ib'[p] # "none" => ib'[p] = ib[p] /\ ibTx'[p] > 0
      /\ ib[p] # "live" => ib'[p] # "live"
      /\ ~Heard(p, q) => down'[q] = down[q]
      /\ ib[p] = "live" /\ q \notin cut =>
             /\ ib'[p] = "live" /\ ibRx'[p] = ibRx[p] - 1
             /\ \/ ibTx[p] = 1 /\ ibTx'[p] = TxReset
                \/ ibTx[p] # 1 /\ ibTx'[p] = ibTx[p] - 1
             /\ Heard(p, q) => down'[q] = IF ibTx[p] = 1
                  THEN Append(Append(down[q], "heartbeat"), "heartbeat") ELSE down[q]
  BY <1>2, TickInboundEffect
<1> HIDE DEF q
<1>5. LinkTypeOK'
  <2>1. NetTypeOK'
    BY <1>0, <1>2, <1>3, <1>4 DEF NetTypeOK
  <2>2. ClockTypeOK'
    BY <1>0, <1>2 DEF HeartbeatTick, StillNeeded, ClockTypeOK, InboundTimesOut, InboundBeats
  <2> QED BY <1>3, <1>4, <2>1, <2>2 DEF LinkTypeOK
<1>6. EndsOK(p)' /\ EndsOK(q)'
  <2>1. EndsOK(p) /\ EndsOK(q)
    BY <1>1 DEF LinkInv
  <2>2. (ticking'[q] <=> ticking[q]) /\ (ob'[p] = "up" \/ ib'[p] # "none" => ticking'[p])
    BY <1>0, <1>1 DEF HeartbeatTick, StillNeeded, ClockTypeOK
  <2> QED BY <1>3, <1>4, <2>1, <2>2 DEF EndsOK
<1>7. Phase(p) = 0 /\ Phase(p)' = 1 /\ Phase(q) \in {0, 1} /\ Phase(q)' = Phase(q)
  BY <1>1, <1>2 DEF Phase
<1>8. "heartbeat" \in Frame /\ "heartbeat" \notin {"hello", "fin"}
      /\ up[p] \in Seq(Frame) /\ down[q] \in Seq(Frame)
  BY <1>0, <1>1 DEF NetTypeOK, Frame
<1>9. /\ obRx[p] \in Nat /\ ibRx[q] \in Nat /\ obTx[p] \in 0 .. TxReset /\ ibTx[q] \in 0 .. TxReset
      /\ obRx[q] \in Nat /\ ibRx[p] \in Nat /\ obTx[q] \in 0 .. TxReset /\ ibTx[p] \in 0 .. TxReset
  BY <1>0, <1>1 DEF OpenerTypeOK, AcceptorTypeOK
<1>10. ASSUME p \notin cut PROVE ConOK(p)'
  <2>1. ConOK(p) /\ EndsOK(p)
    BY <1>10 DEF LinkInv
  <2>2. CASE ob[p] # "up"
    BY <1>3, <1>4, <1>7, <2>1, <2>2 DEF ConOK, Left, q
  <2>3. CASE ob[p] = "up"
    <3>1. ob'[p] = "up" /\ obRx'[p] = obRx[p] - 1 /\ obRx[p] > 1
      BY <1>2, <1>3, <1>10, <2>3, OutboundNeverDue
    <3>2. /\ up[p] # << >> => up'[p] # << >> /\ Head(up'[p]) = Head(up[p])
          /\ Has(up'[p], "fin") <=> Has(up[p], "fin")
          /\ Has(up'[p], "hello") <=> Has(up[p], "hello")
          /\ up[p] # << >> => (Has(Tail(up'[p]), "hello") <=> Has(Tail(up[p]), "hello"))
      <4> DEFINE v == Append(up[p], "heartbeat")
      <4>1. /\ up[p] # << >> => v # << >> /\ Head(v) = Head(up[p])
            /\ up[p] # << >> => Tail(v) = Append(Tail(up[p]), "heartbeat")
            /\ Has(v, "fin") <=> Has(up[p], "fin")
            /\ Has(v, "hello") <=> Has(up[p], "hello")
        BY <1>8, AppendToQueue, HasAppend
      <4>2. up[p] # << >> => (Has(Append(Tail(up[p]), "heartbeat"), "hello")
                                <=> Has(Tail(up[p]), "hello"))
        BY <1>8, HasTail, HasAppend
      <4>3. up'[p] \in {v, up[p]}
        BY <1>3, <1>10, <2>3
      <4> HIDE DEF v
      <4> QED BY <4>1, <4>2, <4>3
    <3>3. CASE Asking(p)
      <4>1. Asking(p)'
        BY <1>3, <1>4, <1>7, <1>9, <3>1, <3>2, <3>3 DEF Asking, q
      <4> QED BY <3>1, <4>1 DEF ConOK
    <3>4. CASE Accepted(p)
      <4>1. DownTimely(p)'
        BY <1>4, <1>7, <1>9, <3>1, <3>4, CounterAssumption DEF Accepted, DownTimely, q
      <4>2. UpTimely(p)'
        <5>1. obTx[p] > 0 /\ UpTimely(p) /\ ibRx'[q] = ibRx[q]
          BY <1>4, <2>1, <2>3, <3>4 DEF EndsOK, Accepted
        <5>2. CASE obTx[p] = 1
          <6>1. up'[p] # << >>
            BY <1>3, <1>8, <1>10, <2>3, <5>2, AppendToQueue
          <6> QED BY <1>7, <1>9, <5>1, <5>2, <6>1, CounterAssumption DEF UpTimely, q
        <5>3. CASE obTx[p] # 1
          <6>1. obTx'[p] = obTx[p] - 1 /\ up'[p] = up[p]
            BY <1>3, <1>10, <2>3, <5>3
          <6> QED BY <1>7, <1>9, <5>1, <6>1, CounterAssumption DEF UpTimely, q
        <5> QED BY <5>2, <5>3
      <4>3. Accepted(p)'
        BY <1>3, <1>4, <3>2, <3>4, <4>1, <4>2 DEF Accepted, q
      <4> QED BY <3>1, <4>3 DEF ConOK
    <3>5. CASE Refused(p)
      <4>1. Refused(p)'
        BY <1>3, <1>4, <1>7, <1>9, <3>1, <3>2, <3>5, CounterAssumption DEF Refused, q
      <4> QED BY <3>1, <4>1 DEF ConOK
    <3> QED BY <2>1, <2>3, <3>3, <3>4, <3>5 DEF ConOK
  <2> QED BY <2>2, <2>3
<1>11. ASSUME q \notin cut PROVE ConOK(q)'
  <2>1. ConOK(q) /\ EndsOK(p)
    BY <1>1, <1>11 DEF LinkInv
  <2>2. CASE ib[p] # "live"
    <3>1. ~Heard(p, q) /\ ~Accepted(q) /\ down'[q] = down[q] /\ ib'[p] # "live"
      BY <1>1, <1>4, <2>2 DEF Heard, Accepted
    <3> QED BY <1>1, <1>3, <1>7, <2>1, <2>2, <3>1 DEF ConOK, Asking, Refused, Left
  <2>3. CASE ib[p] = "live"
    <3>1. ib'[p] = "live" /\ ibRx'[p] = ibRx[p] - 1 /\ ibRx[p] > 1 /\ ibTx[p] > 0
      BY <1>1, <1>2, <1>4, <1>11, <2>1, <2>3, InboundNeverDue DEF EndsOK, q
    <3>2. CASE ob[q] # "up"
      <4>1. down'[q] = down[q]
        BY <1>4, <3>2 DEF Heard
      <4> QED BY <1>1, <1>3, <1>7, <1>9, <2>1, <2>3, <3>1, <3>2, CounterAssumption DEF ConOK, Left
    <3>3. CASE ob[q] = "up"
      <4>1. Accepted(q) /\ Heard(p, q)
        BY <1>1, <2>1, <2>3, <3>3 DEF ConOK, Asking, Refused, Heard
      <4> DEFINE v == Append(Append(down[q], "heartbeat"), "heartbeat")
      <4>2. /\ v # << >>
            /\ down[q] # << >> => Head(v) = Head(down[q])
            /\ Has(v, "fin") <=> Has(down[q], "fin")
        BY <1>8, HasAppendTwice
      <4> HIDE DEF v
      <4>3. down'[q] = IF ibTx[p] = 1 THEN v ELSE down[q]
        BY <1>4, <1>11, <2>3, <4>1 DEF v
      <4>4. UpTimely(q)'
        BY <1>1, <1>3, <1>7, <1>9, <3>1, <4>1, CounterAssumption DEF Accepted, UpTimely
      <4>5. DownTimely(q)'
        <5>1. DownTimely(q) /\ obRx'[q] = obRx[q]
          BY <1>3, <4>1 DEF Accepted
        <5>2. CASE ibTx[p] = 1
          BY <1>1, <1>7, <1>9, <4>2, <4>3, <5>1, <5>2, CounterAssumption DEF DownTimely
        <5>3. CASE ibTx[p] # 1
          <6>1. ibTx'[p] = ibTx[p] - 1 /\ down'[q] = down[q]
            BY <1>4, <1>11, <2>3, <4>3, <5>3
          <6> QED BY <1>1, <1>7, <1>9, <3>1, <5>1, <6>1, CounterAssumption DEF DownTimely
        <5> QED BY <5>2, <5>3
      <4>6. Accepted(q)'
        BY <1>1, <1>3, <3>1, <4>1, <4>2, <4>3, <4>4, <4>5 DEF Accepted
      <4> QED BY <1>3, <3>3, <4>6 DEF ConOK
    <3> QED BY <3>2, <3>3
  <2> QED BY <2>2, <2>3
<1> QED BY <1>1, <1>2, <1>5, <1>6, <1>10, <1>11 DEF LinkInv

LEMMA LinkInvNext == LinkInv /\ [LinkNext]_linkVars => LinkInv'
<1> SUFFICES ASSUME LinkInv, [LinkNext]_linkVars PROVE LinkInv'
  OBVIOUS
<1>1. CASE UNCHANGED linkVars
  <2>1. ASSUME NEW r \in Peer PROVE EndsOK(r)'
    BY <1>1 DEF linkVars, obVars, ibVars, LinkInv, EndsOK
  <2>2. ASSUME NEW r \in Peer \ cut PROVE ConOK(r)'
    <3>1. SameCon(r) /\ ConOK(r)
      BY <1>1 DEF linkVars, obVars, ibVars, net, SameCon, Phase, LinkInv
    <3> QED BY <3>1, ConUnnoticed
  <2>3. LinkTypeOK' /\ cut' = cut
    BY <1>1 DEF linkVars, obVars, ibVars, net, LinkInv, LinkTypeOK, OpenerTypeOK, AcceptorTypeOK,
                NetTypeOK, ClockTypeOK
  <2> QED BY <2>1, <2>2, <2>3 DEF LinkInv
<1>2. CASE NextSecond
  BY <1>2, NextSecondKeeps
<1> QED
  BY <1>1, <1>2, OnConnectedKeeps, OnDisconnectedKeeps, AcceptInboundKeeps,
     OnInboundDisconnectedKeeps, OutboundFrameKeeps, InboundFrameKeeps, SendMsgKeeps,
     HeartbeatTickKeeps, CutKeeps, ResetKeeps, CrashKeeps DEF LinkNext

(***************************************************************************)
(* Whatever is cut, reset or crashes, and however often: an opener that    *)
(* takes its connection for ready has been accepted, or the end of the     *)
(* connection is already under way to it (acceptInboundConnection,         *)
(* onFrameReceived).                                                       *)
(***************************************************************************)
THEOREM ReadyAgrees == LinkSafe => []ReadyIsAccepted
<1>1. LinkInv => ReadyIsAccepted
  <2> SUFFICES ASSUME LinkInv, NEW p \in Peer, IsOutboundReady(p), p \notin cut
               PROVE  ib[Other(p)] = "live" \/ "fin" \in {down[p][i] : i \in DOMAIN down[p]}
    BY DEF ReadyIsAccepted
  <2>1. Accepted(p) \/ Refused(p)
    BY DEF LinkInv, ConOK, IsOutboundReady, Asking
  <2> QED BY <2>1 DEF Accepted, Refused, Has
<1> QED BY <1>1, LinkInvInit, LinkInvNext, PTL DEF LinkSafe

(***************************************************************************)
(* No live connection is ever given up for silence, for any two reset      *)
(* values of which the receiver's exceeds the sender's by two ticks: a     *)
(* heartbeat is sent in time whichever end ticks first and whatever else   *)
(* has reset the counters (heartbeatTick).                                 *)
(***************************************************************************)
THEOREM LiveNeverTimesOut == LinkSafe => OnlyDeadTimeOut
<1>1. ASSUME LinkInv, [LinkNext]_linkVars, NEW p \in Peer, ob[p] = "up", ob'[p] = "off"
      PROVE  p \in cut
  <2>0. OpenerTypeOK
    BY <1>1 DEF LinkInv, LinkTypeOK
  <2>1. ASSUME NEW r \in Peer, HeartbeatTick(r) PROVE p \in cut
    BY <1>1, <2>1, TickOutboundEffect DEF HeartbeatTick
  <2>2. ASSUME NEW r \in Peer, OnConnected(r) \/ OnDisconnected(r) \/ Reset(r) \/ Crash(r)
        PROVE  ob'[p] \in {"up", "wait", "down", ob[p]}
    BY <2>0, <2>2 DEF OnConnected, OnDisconnected, Reset, Crash, OutboundLost, Retries, OpenerTypeOK
  <2>3. ASSUME NEW r \in Peer, AcceptInbound(r) \/ OnInboundDisconnected(r) \/ OutboundFrame(r)
                                 \/ InboundFrame(r) \/ SendMsg(r) \/ Cut(r)
        PROVE  ob' = ob
    BY <2>3 DEF AcceptInbound, OnInboundDisconnected, OutboundFrame, InboundFrame, SendMsg, Cut, obVars
  <2>4. CASE NextSecond
    BY <1>1, <2>4 DEF NextSecond
  <2> QED BY <1>1, <2>1, <2>2, <2>3, <2>4 DEF LinkNext, linkVars, obVars
<1>2. ASSUME LinkInv, NEW p \in Peer, HeartbeatTick(p), ib[p] = "live", ib'[p] = "none"
      PROVE  Other(p) \in cut
  BY <1>2, TickInboundEffect DEF HeartbeatTick
<1>3. LinkInv /\ [LinkNext]_linkVars =>
        [\A p \in Peer :
           /\ ob[p] = "up" /\ ob'[p] = "off" => p \in cut
           /\ HeartbeatTick(p) /\ ib[p] = "live" /\ ib'[p] = "none" => Other(p) \in cut]_linkVars
  BY <1>1, <1>2
<1> QED BY <1>3, LinkInvInit, LinkInvNext, PTL DEF LinkSafe, OnlyDeadTimeOut

=============================================================================
