--------------------------- MODULE UdpTrunkProofs ---------------------------
(***************************************************************************)
(* For any number of reflectors and any order and loss of the datagrams:   *)
(* the number of the group survives every route (NumberAssumption);        *)
(* nothing comes twice, everything that no fault hit comes, and the        *)
(* displays follow it (WayAssumption, ReachAssumption).                    *)
(***************************************************************************)
EXTENDS UdpTrunk, SequenceTheorems, TLAPS

(* A datagram that is translated on arrival comes out under the number of  *)
(* the reflector it is under way to.                                       *)
RightOnArrival(l, m) ==
    m.kind \in {"start", "stop", "audio"} =>
        (IsIpAllowed(net.peers[l[2]], l[1]) =>
            TgFromDestTable(net.peers[l[2]], l[1], m.tg) = net.number[l[2]])

Good(l) == {m \in Datagram : RightOnArrival(l, m)}

Routed(w) == w = [l \in Link |-> w[l]] /\ \A l \in Link : w[l] \in Seq(Good(l))

IInv ==
    /\ net \in Network
    /\ sent \in Nat
    /\ Routed(wire)
    /\ shown \in [Node -> SUBSET (Audience \X TG \X Speaker)]
    /\ told \in [Node -> SUBSET Datagram]
    /\ NumbersCorrespond

-----------------------------------------------------------------------------
(* The peers of a reflector, as the configuration has them. *)
LEMMA PeerFacts ==
    ASSUME net \in Network, NEW n \in Node, NEW i \in DOMAIN net.peers[n]
    PROVE  /\ net.number \in [Node -> TG]
           /\ net.peers[n] \in Seq(TrunkPeer)
           /\ i \in Nat /\ i > 0
           /\ net.peers[n][i] \in TrunkPeer
           /\ net.peers[n][i].host \in Node
<1>1. net.number \in [Node -> TG] /\ net.peers \in [Node -> Seq(TrunkPeer)]
  BY NetworkAssumption
<1>2. net.peers[n] \in Seq(TrunkPeer)
  BY <1>1
<1>3. i \in 1 .. Len(net.peers[n]) /\ net.peers[n][i] \in TrunkPeer
  BY <1>2, LenProperties, ElementOfSeq
<1>4. i \in Nat /\ i > 0
  BY <1>2, <1>3, LenProperties
<1>5. net.peers[n][i].host \in Node
  BY <1>3 DEF TrunkPeer
<1> QED BY <1>1, <1>2, <1>3, <1>4, <1>5

LEMMA RemapTypes ==
    ASSUME NEW p \in TrunkPeer, NEW tg \in TG
    PROVE  RemapDest(p.map, tg) \in TG /\ RemapSrc(p.map, tg) \in TG
<1>1. PICK D \in SUBSET TG : p.map \in [D -> TG]
  BY DEF TrunkPeer
<1>2. RemapDest(p.map, tg) \in TG
  BY <1>1 DEF RemapDest
<1>3. CASE tg \in Range(p.map)
  <2>1. \E s \in DOMAIN p.map : p.map[s] = tg
    BY <1>3 DEF Range
  <2>2. (CHOOSE s \in DOMAIN p.map : p.map[s] = tg) \in DOMAIN p.map
    BY <2>1
  <2> QED BY <1>1, <1>2, <1>3, <2>2 DEF RemapSrc
<1>4. CASE tg \notin Range(p.map)
  BY <1>2, <1>4 DEF RemapSrc
<1> QED BY <1>3, <1>4

LEMMA TableTypes ==
    ASSUME net \in Network, NEW n \in Node, NEW h \in Node, NEW tg \in TG
    PROVE  TgFromDestTable(net.peers[n], h, tg) \in TG
<1>1. CASE IsIpAllowed(net.peers[n], h)
  <2> DEFINE i == CHOOSE i \in IndexOfHost(net.peers[n], h) : TRUE
  <2>1. i \in DOMAIN net.peers[n]
    BY <1>1 DEF IsIpAllowed, IndexOfHost
  <2>2. RemapSrc(net.peers[n][i].map, tg) \in TG
    BY <2>1, PeerFacts, RemapTypes
  <2> QED BY <1>1, <2>2 DEF TgFromDestTable
<1>2. CASE ~IsIpAllowed(net.peers[n], h)
  BY <1>2 DEF TgFromDestTable
<1> QED BY <1>1, <1>2

(* With the peers without a mapping file first, none of them gets what was *)
(* left by another.                                                        *)
LEMMA OutgoingIsRemapped ==
    ASSUME net \in Network, NEW n \in Node, NEW i \in DOMAIN net.peers[n], NEW tg
    PROVE  OutgoingTg(net.peers[n], i, tg) = RemapDest(net.peers[n][i].map, tg)
<1> DEFINE mapped == {j \in 1 .. i : net.peers[n][j].map # << >>}
<1>1. i \in 1 .. i
  BY PeerFacts
<1>2. CASE net.peers[n][i].map = << >>
  <2>1. mapped = {}
    BY <1>2, NumberAssumption
  <2>2. RemapDest(<< >>, tg) = tg
    BY DEF RemapDest
  <2> QED BY <1>2, <2>1, <2>2 DEF OutgoingTg
<1>3. CASE net.peers[n][i].map # << >>
  <2>1. i \in mapped /\ \A j \in mapped : i >= j
    BY <1>1, <1>3, PeerFacts
  <2>2. mapped \subseteq Nat
    BY PeerFacts
  <2>3. Max(mapped) = i
    <3>1. \A x, y \in mapped : x >= y /\ y >= x => x = y
      BY <2>2
    <3> HIDE DEF mapped
    <3> QED BY <2>1, <3>1 DEF Max
  <2> QED BY <2>1, <2>3 DEF OutgoingTg
<1> QED BY <1>2, <1>3

-----------------------------------------------------------------------------
(* What a reflector sends of its own. *)
LEMMA OwnIsGood ==
    ASSUME IInv, NEW n \in Speaker, NEW kind \in Kind, NEW i \in DOMAIN net.peers[n]
    PROVE  /\ OwnMsg(n, kind) \in Datagram
           /\ [OwnMsg(n, kind) EXCEPT !.tg = OutgoingTg(net.peers[n], i, @)]
                  \in Good(<<n, net.peers[n][i].host>>)
<1> DEFINE p == net.peers[n][i]
           m == OwnMsg(n, kind)
           out == [m EXCEPT !.tg = OutgoingTg(net.peers[n], i, @)]
<1>0. n \in Node
  BY BoundAssumption
<1>1. m \in Datagram /\ m.tg = net.number[n]
  BY <1>0, PeerFacts DEF IInv, OwnMsg, Datagram
<1>2. OutgoingTg(net.peers[n], i, m.tg) = RemapDest(p.map, net.number[n])
  BY <1>0, <1>1, OutgoingIsRemapped DEF IInv
<1>3. RemapDest(p.map, net.number[n]) \in TG
  BY <1>0, PeerFacts, RemapTypes DEF IInv
<1>4. out \in Datagram /\ out.tg = RemapDest(p.map, net.number[n])
  BY <1>1, <1>2, <1>3 DEF Datagram
<1>5. IsIpAllowed(net.peers[p.host], n) =>
        TgFromDestTable(net.peers[p.host], n, out.tg) = net.number[p.host]
  BY <1>0, <1>4, NumberAssumption DEF IInv
<1>6. RightOnArrival(<<n, p.host>>, out)
  BY <1>5 DEF RightOnArrival
<1> QED BY <1>1, <1>4, <1>6 DEF Good

(* What it passes on. *)
LEMMA ResentIsGood ==
    ASSUME IInv, NEW n \in Node, NEW h \in Node, NEW m \in Datagram,
           m.kind \in {"start", "stop", "audio"} => m.tg = net.number[n],
           NEW i \in DOMAIN net.peers[n]
    PROVE  Resend(n, m, h)[i] \in Seq(Good(<<n, net.peers[n][i].host>>))
<1> DEFINE p == net.peers[n][i]
<1>1. Resend(n, m, h)[i] = << >> \/ (Resend(n, m, h)[i] = <<m>> /\ p.retransmit)
  BY DEF Resend, PassedOn, Relays
<1>2. ASSUME p.retransmit PROVE m \in Good(<<n, p.host>>)
  <2>1. IsIpAllowed(net.peers[p.host], n) =>
          TgFromDestTable(net.peers[p.host], n, net.number[n]) = net.number[p.host]
    <3>1. net \in Network
      BY DEF IInv
    <3>2. n \in Node /\ i \in DOMAIN net.peers[n]
      OBVIOUS
    <3>3. LET arrives(tg) == IsIpAllowed(net.peers[p.host], n) =>
                             TgFromDestTable(net.peers[p.host], n, tg) = net.number[p.host]
          IN  p.retransmit => arrives(net.number[n])
      <4> HIDE DEF p
      <4>1. p = net.peers[n][i]
        BY DEF p
      <4> QED BY <3>1, <3>2, <4>1, NumberAssumption, ZenonT(30)
    <3> QED BY <1>2, <3>3
  <2>2. RightOnArrival(<<n, p.host>>, m)
    BY <2>1 DEF RightOnArrival
  <2> QED BY <2>2 DEF Good
<1>3. << >> \in Seq(Good(<<n, p.host>>))
  OBVIOUS
<1>4. ASSUME p.retransmit PROVE <<m>> \in Seq(Good(<<n, p.host>>))
  <2>1. m \in Good(<<n, p.host>>)
    BY <1>2, <1>4
  <2> QED BY <2>1
<1> QED BY <1>1, <1>3, <1>4

(* Sending keeps the wires good. *)
LEMMA SentIsRouted ==
    ASSUME net \in Network, NEW w, Routed(w), NEW n \in Node, NEW out,
           \A i \in DOMAIN net.peers[n] : out[i] \in Seq(Good(<<n, net.peers[n][i].host>>))
    PROVE  Routed(Sent(w, n, out))
<1>1. ASSUME NEW l \in Link PROVE Sent(w, n, out)[l] \in Seq(Good(l))
  <2> DEFINE i == IndexOfHost(net.peers[n], l[2])
             j == CHOOSE j \in i : TRUE
  <2>1. CASE l[1] = n /\ i # {}
    <3>1. j \in DOMAIN net.peers[n] /\ net.peers[n][j].host = l[2]
      BY <2>1 DEF IndexOfHost
    <3>2. <<n, net.peers[n][j].host>> = l
      BY <2>1, <3>1 DEF Link
    <3>3. out[j] \in Seq(Good(l))
      BY <3>1, <3>2
    <3>4. w[l] \in Seq(Good(l))
      BY DEF Routed
    <3>5. w[l] \o out[j] \in Seq(Good(l))
      BY <3>3, <3>4, ConcatProperties
    <3> QED BY <2>1, <3>5 DEF Sent
  <2>2. CASE ~(l[1] = n /\ i # {})
    BY <2>2 DEF Sent, Routed
  <2> QED BY <2>1, <2>2
<1>2. Sent(w, n, out) = [l \in Link |-> Sent(w, n, out)[l]]
  BY DEF Sent
<1> QED BY <1>1, <1>2 DEF Routed

(* The messages of a reflector, one or two at a time. *)
LEMMA OwnIsRouted ==
    ASSUME IInv, NEW n \in Speaker, NEW k1 \in Kind, NEW k2 \in Kind
    PROVE  /\ Routed(Sent(wire, n, WidthRemap(n, <<OwnMsg(n, k1)>>)))
           /\ Routed(Sent(wire, n, WidthRemap(n, <<OwnMsg(n, k1), OwnMsg(n, k2)>>)))
<1> n \in Node
  BY BoundAssumption
<1>1. ASSUME NEW i \in DOMAIN net.peers[n]
      PROVE  /\ WidthRemap(n, <<OwnMsg(n, k1)>>)[i] \in Seq(Good(<<n, net.peers[n][i].host>>))
             /\ WidthRemap(n, <<OwnMsg(n, k1), OwnMsg(n, k2)>>)[i]
                    \in Seq(Good(<<n, net.peers[n][i].host>>))
  <2> DEFINE remap(m) == [m EXCEPT !.tg = OutgoingTg(net.peers[n], i, @)]
             G == Good(<<n, net.peers[n][i].host>>)
             m1 == OwnMsg(n, k1)
             m2 == OwnMsg(n, k2)
  <2>1. remap(m1) \in G /\ remap(m2) \in G
    BY OwnIsGood
  <2>2. WidthRemap(n, <<m1>>)[i] = [k \in 1 .. 1 |-> remap(<<m1>>[k])]
    BY DEF WidthRemap
  <2>3. WidthRemap(n, <<m1, m2>>)[i] = [k \in 1 .. 2 |-> remap(<<m1, m2>>[k])]
    BY DEF WidthRemap
  <2>4. [k \in 1 .. 1 |-> remap(<<m1>>[k])] \in Seq(G)
    <3> HIDE DEF remap, G, m1, m2
    <3> QED BY <2>1
  <2>5. [k \in 1 .. 2 |-> remap(<<m1, m2>>[k])] \in Seq(G)
    <3> HIDE DEF remap, G, m1, m2
    <3>1. \A k \in 1 .. 2 : remap(<<m1, m2>>[k]) \in G
      BY <2>1
    <3> QED BY <3>1
  <2> QED BY <2>2, <2>3, <2>4, <2>5
<1> QED BY <1>1, SentIsRouted DEF IInv

-----------------------------------------------------------------------------
LEMMA IInvInit == Init => IInv
<1> SUFFICES ASSUME Init PROVE IInv
  OBVIOUS
<1>1. Routed(wire)
  BY DEF Init, Routed
<1> QED BY <1>1 DEF Init, IInv, NumbersCorrespond

(* A step that leaves the configuration alone and says nothing new to the  *)
(* clients only has to route well.                                         *)
LEMMA QuietStep ==
    ASSUME IInv, Routed(wire'), sent' \in Nat, UNCHANGED <<net, shown, told>>
    PROVE  IInv'
<1>1. Routed(wire)'
  <2>1. \A l : Good(l)' = Good(l)
    BY DEF Good, RightOnArrival
  <2> QED BY <2>1 DEF Routed
<1> QED BY <1>1 DEF IInv, NumbersCorrespond

(* What a reflector takes from the wire. *)
LEMMA TakenIsGood ==
    ASSUME IInv, NEW l \in Link, wire[l] # << >>
    PROVE  /\ Head(wire[l]) \in Good(l)
           /\ Routed([wire EXCEPT ![l] = Tail(@)])
<1>1. wire[l] \in Seq(Good(l))
  BY DEF IInv, Routed
<1>2. Head(wire[l]) \in Good(l) /\ Tail(wire[l]) \in Seq(Good(l))
  BY <1>1, HeadTailProperties
<1>3. Routed([wire EXCEPT ![l] = Tail(@)])
  BY <1>2 DEF IInv, Routed
<1> QED BY <1>2, <1>3

(* A datagram that is handled carries the number of the reflector. *)
LEMMA TranslatedIsRight ==
    ASSUME IInv, NEW h \in Node, NEW n \in Node, NEW m0 \in Good(<<h, n>>),
           IsIpAllowed(net.peers[n], h)
    PROVE  LET m == Translated(n, m0, h) IN
           /\ m \in Datagram /\ m.kind = m0.kind
           /\ m.kind \in {"start", "stop", "audio"} => m.tg = net.number[n]
<1>1. m0 \in Datagram /\ RightOnArrival(<<h, n>>, m0)
  BY DEF Good
<1>2. TgFromDestTable(net.peers[n], h, m0.tg) \in TG
  BY <1>1, TableTypes DEF IInv, Datagram
<1>3. CASE m0.kind \in {"start", "stop", "audio"}
  <2>1. TgFromDestTable(net.peers[n], h, m0.tg) = net.number[n]
    BY <1>1, <1>3 DEF RightOnArrival
  <2>2. Translated(n, m0, h) = [m0 EXCEPT !.tg = TgFromDestTable(net.peers[n], h, @)]
    BY <1>3 DEF Translated
  <2> QED BY <1>1, <1>2, <2>1, <2>2 DEF Datagram
<1>4. CASE m0.kind \notin {"start", "stop", "audio"}
  BY <1>1, <1>4 DEF Translated
<1> QED BY <1>3, <1>4

LEMMA ReceiveKeeps ==
    ASSUME IInv, NEW h \in Node, NEW n \in Node, Receive(h, n)
    PROVE  IInv'
<1> DEFINE l == <<h, n>>
           rest == [wire EXCEPT ![l] = Tail(@)]
           m == Translated(n, Head(wire[l]), h)
<1>1. l \in Link /\ wire[l] # << >> /\ UNCHANGED <<net, sent>>
  BY DEF Receive, Link
<1>2. Head(wire[l]) \in Good(l) /\ Routed(rest)
  BY <1>1, TakenIsGood
<1>3. CASE ~IsIpAllowed(net.peers[n], h)
  <2>1. wire' = rest /\ UNCHANGED <<shown, told>>
    BY <1>3 DEF Receive
  <2>2. sent' \in Nat
    BY <1>1 DEF IInv
  <2> QED BY <1>1, <1>2, <2>1, <2>2, QuietStep
<1>4. CASE IsIpAllowed(net.peers[n], h)
  <2>1. wire' = Sent(rest, n, Resend(n, m, h)) /\ Broadcast(n, m)
    BY <1>4 DEF Receive
  <2>2. /\ m \in Datagram
        /\ m.kind \in {"start", "stop", "audio"} => m.tg = net.number[n]
    BY <1>2, <1>4, TranslatedIsRight
  <2> HIDE DEF m
  <2>3. \A i \in DOMAIN net.peers[n] :
            Resend(n, m, h)[i] \in Seq(Good(<<n, net.peers[n][i].host>>))
    BY <2>2, ResentIsGood
  <2>4. Routed(wire')
    BY <1>2, <2>1, <2>3, SentIsRouted DEF IInv
  <2>5. \A k : Good(k)' = Good(k)
    BY <1>1 DEF Good, RightOnArrival
  <2>6. Routed(wire)'
    BY <2>4, <2>5 DEF Routed
  <2>7. m.tg \in TG /\ m.talker \in Speaker /\ m.kind \in Kind
    BY <2>2 DEF Datagram
  <2>8. CASE m.kind = "start"
    <3>1. /\ shown' = [shown EXCEPT ![n] = @ \cup (Audience \X {m.tg} \X {m.talker})]
          /\ told' = told
      BY <2>1, <2>8 DEF Broadcast
    <3>2. Audience \X {m.tg} \X {m.talker} \subseteq Audience \X TG \X Speaker
      BY <2>7
    <3>3. \A s \in Audience \X {m.tg} \X {m.talker} : s[2] = net.number[n]
      BY <2>2, <2>8
    <3>4. shown' \in [Node -> SUBSET (Audience \X TG \X Speaker)]
      BY <3>1, <3>2 DEF IInv
    <3>5. NumbersCorrespond'
      BY <1>1, <3>1, <3>3 DEF IInv, NumbersCorrespond
    <3> QED BY <1>1, <2>6, <3>1, <3>4, <3>5 DEF IInv
  <2>9. CASE m.kind = "stop"
    <3>1. /\ shown' = [shown EXCEPT ![n] = @ \ (StopAudience \X {m.tg} \X {m.talker})]
          /\ told' = told
      BY <2>1, <2>9 DEF Broadcast
    <3> QED BY <1>1, <2>6, <3>1 DEF IInv, NumbersCorrespond
  <2>10. CASE m.kind \notin {"start", "stop"}
    <3> DEFINE note == [kind |-> m.kind, tg |-> m.tg, talker |-> m.talker, nr |-> m.nr]
    <3>1. told' = [told EXCEPT ![n] = @ \cup {note}] /\ shown' = shown
      BY <2>1, <2>10 DEF Broadcast
    <3>2. note \in Datagram /\ (note.kind = "audio" => note.tg = net.number[n])
      BY <2>2 DEF Datagram
    <3> HIDE DEF note
    <3>3. told' \in [Node -> SUBSET Datagram]
      BY <3>1, <3>2 DEF IInv
    <3>4. NumbersCorrespond'
      BY <1>1, <3>1, <3>2 DEF IInv, NumbersCorrespond
    <3> QED BY <1>1, <2>6, <3>1, <3>3, <3>4 DEF IInv
  <2> QED BY <2>8, <2>9, <2>10
<1> QED BY <1>3, <1>4

LEMMA IInvNext == IInv /\ [Next]_vars => IInv'
<1> SUFFICES ASSUME IInv, [Next]_vars PROVE IInv'
  OBVIOUS
<1>0. sent \in Nat /\ sent + 1 \in Nat /\ Routed(wire)
  BY DEF IInv
<1>1. ASSUME NEW n \in Speaker, TalkerStart(n) PROVE IInv'
  <2>1. Routed(wire')
    BY <1>1, OwnIsRouted DEF TalkerStart, Kind
  <2> QED BY <1>0, <1>1, <2>1, QuietStep DEF TalkerStart
<1>2. ASSUME NEW n \in Speaker, TalkerStop(n) PROVE IInv'
  <2>1. Routed(wire')
    BY <1>2, OwnIsRouted DEF TalkerStop, Kind
  <2> QED BY <1>0, <1>2, <2>1, QuietStep DEF TalkerStop
<1>3. ASSUME NEW n \in Speaker, Flush(n) \/ TalkerGoes(n) PROVE IInv'
  <2>1. "stop" \in Kind /\ "flush" \in Kind
    BY DEF Kind
  <2>2. CASE Flush(n)
    BY <2>1, <2>2, OwnIsRouted, <1>0, QuietStep DEF Flush
  <2>3. CASE TalkerGoes(n)
    BY <2>3, <1>0, QuietStep DEF TalkerGoes
  <2> QED BY <1>3, <2>2, <2>3
<1>4. ASSUME NEW n \in Speaker, NEW kind \in {"audio", "qsy", "flush"}, Say(n, kind) PROVE IInv'
  <2>1. Routed(wire')
    BY <1>4, OwnIsRouted DEF Say, Kind
  <2> QED BY <1>0, <1>4, <2>1, QuietStep DEF Say
<1>5. ASSUME NEW h \in Node, NEW n \in Node, Receive(h, n) PROVE IInv'
  BY <1>5, ReceiveKeeps
<1>6. ASSUME NEW l \in Link, Lose(l) PROVE IInv'
  <2>1. Routed(wire')
    BY <1>6, TakenIsGood DEF Lose
  <2> QED BY <1>0, <1>6, <2>1, QuietStep DEF Lose
<1>7. ASSUME NEW l \in Link, Overtake(l) PROVE IInv'
  <2> DEFINE s == wire[l]
  <2>1. s \in Seq(Good(l)) /\ Len(s) > 1
    BY <1>0, <1>7 DEF Overtake, Routed
  <2>2. s[1] \in Good(l) /\ s[2] \in Good(l)
    BY <2>1, ElementOfSeq
  <2>3. SubSeq(s, 3, Len(s)) \in Seq(Good(l))
    BY <2>1
  <2>4. <<s[2], s[1]>> \o SubSeq(s, 3, Len(s)) \in Seq(Good(l))
    BY <2>2, <2>3, ConcatProperties
  <2>5. Routed(wire')
    BY <1>0, <1>7, <2>4 DEF Overtake, Routed
  <2> QED BY <1>0, <1>7, <2>5, QuietStep DEF Overtake
<1>8. CASE UNCHANGED vars
  BY <1>0, <1>8, QuietStep DEF vars
<1> QED BY <1>1, <1>2, <1>3, <1>4, <1>5, <1>6, <1>7, <1>8 DEF Next

(* Audio and talkers arrive under the number that the group has at each    *)
(* reflector, on every route, as handleOutgoing..._width_remap, the relays *)
(* and get_tg_from_dest_table translate it between them.                   *)
THEOREM NumbersHold == Spec => []NumbersCorrespond
<1>1. IInv => NumbersCorrespond
  BY DEF IInv
<1> QED BY <1>1, IInvInit, IInvNext, PTL DEF Spec

-----------------------------------------------------------------------------
(* What is passed on to the clients of a reflector as it is. *)
ToldKind == {"flush", "qsy", "audio"}

(* Copies of one message, under whatever number. *)
Same(x, y) == x.kind = y.kind /\ x.talker = y.talker /\ x.nr = y.nr

(* n has said m itself or passed it to its clients, as told has it. *)
Heard(T, n, m) == n = m.talker \/ \E t \in T[n] : Same(t, m)

OnWire(q, m) == \E i \in DOMAIN q : Same(q[i], m)

Takes(l) == IsIpAllowed(net.peers[l[2]], l[1])

Via(m) == Way(net, m.talker, m.kind = "qsy")

(* The datagrams q that are under way on l. *)
OnTheWay(l, q, T, s) ==
    \A i \in DOMAIN q :
        /\ q[i].kind \in ToldKind => Heard(T, l[1], q[i]) /\ q[i].nr <= s
        /\ Takes(l) =>
              /\ l[2] # q[i].talker
              /\ Via(q[i])[l[2]] = l[1]
              /\ q[i].kind \in {"flush", "qsy"} =>
                    q[i].tg \in NumbersAt(net, q[i].talker, q[i].kind, l[2])

(* None of them comes twice, or to one that has it. *)
OnlyOnce(l, q, T) ==
    \A i \in DOMAIN q : q[i].kind \in ToldKind =>
        /\ Takes(l) => ~Heard(T, l[2], q[i])
        /\ \A j \in DOMAIN q : Same(q[i], q[j]) => i = j

(* What has been told came from the reflector before on its way. *)
ToldOnItsWay(n, T, s) ==
    \A t \in T[n] : /\ t.talker # n /\ t.nr <= s /\ t.kind \in ToldKind
                    /\ Heard(T, Via(t)[n], t)

OnceInv ==
    /\ \A l \in Link : OnTheWay(l, wire[l], told, sent) /\ OnlyOnce(l, wire[l], told)
    /\ \A n \in Node : ToldOnItsWay(n, told, sent)
    /\ again = [n \in Node |-> {}]

(* What a clean talker said is told on, or under way to, the next. *)
Comes(m, h, r) ==
    Heard(told, h, m) => Heard(told, r, m) \/ OnWire(wire[<<h, r>>], m)

SaidInv ==
    /\ clean \subseteq Speaker
    /\ said \in [Speaker -> SUBSET (ToldKind \X Nat)]
    /\ \A m \in Datagram : m.talker \in clean /\ <<m.kind, m.nr>> \in said[m.talker] =>
          \A h, r \in Node : Delivers(net, m.talker, m.kind, h, r) => Comes(m, h, r)

Turn(m, s) == m.talker = s /\ m.kind \in {"start", "stop"}

Pending(q, s) == \E i \in DOMAIN q : Turn(q[i], s)

(* A display v becomes w when the datagrams q have come. *)
Follows(q, s, v, w) ==
    /\ ~Pending(q, s) => (v <=> w)
    /\ \A i \in DOMAIN q :
          Turn(q[i], s) /\ (\A j \in DOMAIN q : Turn(q[j], s) => j <= i)
          => (w <=> q[i].kind = "start")

(* The talkers whose start is the last that was said of them, and who n    *)
(* takes for one: at home the talker itself, elsewhere the display.        *)
Announced == talking \cup gone
Shows(n, s) ==
    IF n = s THEN s \in Announced ELSE <<"group", net.number[n], s>> \in shown[n]

(* F are the reflectors that the last turn of s has not come to. *)
Caught(s, F) ==
    \A h, r \in Node : Delivers(net, s, "start", h, r) /\ h \notin F =>
        /\ Follows(wire[<<h, r>>], s, Shows(r, s), Shows(h, s))
        /\ r \in F => Pending(wire[<<h, r>>], s)

(* Who monitors the group is shown at least the talkers that those on it   *)
(* are shown.                                                              *)
MonitorSees ==
    \A n \in Node, s \in Speaker : <<"group", net.number[n], s>> \in shown[n] =>
                                     <<"monitor", net.number[n], s>> \in shown[n]

DisplayInv ==
    /\ clean \subseteq Speaker
    /\ talking \cap gone = {}
    /\ \A s \in clean : \E F \in SUBSET (Node \ {s}) : Caught(s, F)
    /\ MonitorSees

-----------------------------------------------------------------------------
(* The ways through the trunks. *)
LEMMA WayFacts ==
    ASSUME net \in Network, NEW s \in Speaker, NEW qsy \in BOOLEAN
    PROVE  /\ Way(net, s, qsy) \in [Node -> Node]
           /\ \A n \in Node : \A i \in DOMAIN net.peers[n] :
                LET p == net.peers[n][i]
                    via == Way(net, s, qsy)
                IN  (/\ IsIpAllowed(net.peers[p.host], n)
                     /\ n # s => /\ via[n] # n
                                 /\ Relays(p, via[n], HostTypeSend(net.peers[n], via[n]), qsy))
                    => p.host # s /\ via[p.host] = n
<1> DEFINE via == Way(net, s, qsy)
<1>1. Ways(net, s, qsy) # {}
  BY WayAssumption
<1>2. via \in Ways(net, s, qsy)
  BY <1>1 DEF Way
<1> HIDE DEF via
<1>3. /\ via \in [Node -> Node]
      /\ \A n \in Node : \A i \in DOMAIN net.peers[n] :
           LET p == net.peers[n][i] IN
           (/\ IsIpAllowed(net.peers[p.host], n)
            /\ n # s => /\ via[n] # n
                        /\ Relays(p, via[n], HostTypeSend(net.peers[n], via[n]), qsy))
           => p.host # s /\ via[p.host] = n
  BY <1>2, Zenon DEF Ways
<1> QED BY <1>3 DEF via

LEMMA TurnComesFrom ==
    ASSUME net \in Network, NEW s \in Speaker, NEW qsy \in BOOLEAN, ~qsy,
           NEW h \in Node, NEW r \in Node, Delivers(net, s, "start", h, r)
    PROVE  r # s /\ Way(net, s, qsy)[r] = h
<1> DEFINE via == Way(net, s, qsy)
<1>1. ("start" = "qsy") = qsy
  OBVIOUS
<1>2. PICK i \in DOMAIN net.peers[h] :
        /\ net.peers[h][i].host = r
        /\ h # s => /\ via[h] # h
                    /\ Relays(net.peers[h][i], via[h], HostTypeSend(net.peers[h], via[h]), qsy)
  BY <1>1 DEF Delivers, IndexOfHost
<1>3. IsIpAllowed(net.peers[r], h)
  BY DEF Delivers
<1>4. net.peers[h][i].host # s /\ via[net.peers[h][i].host] = h
  <2> HIDE DEF via
  <2> QED BY <1>2, <1>3, WayFacts DEF via
<1> QED BY <1>2, <1>4

LEMMA TurnNeverReturns ==
    ASSUME net \in Network, NEW s \in Speaker, NEW h \in Node, NEW r \in Node,
           Delivers(net, s, "start", h, r)
    PROVE  r # s
<1>1. PICK qsy \in BOOLEAN : ~qsy
  OBVIOUS
<1> QED BY <1>1, TurnComesFrom

-----------------------------------------------------------------------------
(* What a reflector adds to the datagrams under way on l. *)
Added(n, out, l) ==
    LET i == IndexOfHost(net.peers[n], l[2]) IN
    IF l[1] = n /\ i # {} THEN out[CHOOSE j \in i : TRUE] ELSE << >>

LEMMA SentAdds ==
    ASSUME NEW w, NEW l \in Link, w[l] \in Seq(Datagram), NEW n, NEW out
    PROVE  /\ Sent(w, n, out)[l] = w[l] \o Added(n, out, l)
           /\ \/ Added(n, out, l) = << >>
              \/ \E j \in DOMAIN net.peers[n] :
                    /\ l = <<n, net.peers[n][j].host>>
                    /\ Added(n, out, l) = out[j]
<1> DEFINE i == IndexOfHost(net.peers[n], l[2])
           j == CHOOSE k \in i : TRUE
<1>1. CASE l[1] = n /\ i # {}
  <2>1. j \in DOMAIN net.peers[n] /\ net.peers[n][j].host = l[2]
    BY <1>1 DEF IndexOfHost
  <2>2. l = <<n, net.peers[n][j].host>>
    BY <1>1, <2>1 DEF Link
  <2>3. Sent(w, n, out)[l] = w[l] \o out[j] /\ Added(n, out, l) = out[j]
    BY <1>1 DEF Sent, Added
  <2> QED BY <2>1, <2>2, <2>3
<1>2. CASE ~(l[1] = n /\ i # {})
  <2>1. Sent(w, n, out)[l] = w[l] /\ Added(n, out, l) = << >>
    BY <1>2 DEF Sent, Added
  <2>2. w[l] \o << >> = w[l]
    BY ConcatEmptySeq
  <2> QED BY <2>1, <2>2
<1> QED BY <1>1, <1>2

(* A host has one place in the list of peers. *)
LEMMA AddedAt ==
    ASSUME net \in Network, NEW n \in Node, NEW j \in DOMAIN net.peers[n], NEW out
    PROVE  Added(n, out, <<n, net.peers[n][j].host>>) = out[j]
<1> DEFINE i == IndexOfHost(net.peers[n], net.peers[n][j].host)
<1>1. j \in i
  BY DEF IndexOfHost
<1>2. \A k \in i : k = j
  BY NetworkAssumption DEF IndexOfHost
<1>3. (CHOOSE k \in i : TRUE) = j
  BY <1>1, <1>2
<1> QED BY <1>1, <1>3 DEF Added

LEMMA Joined ==
    ASSUME NEW q \in Seq(Datagram), NEW x \in Seq(Datagram)
    PROVE  /\ q \o x \in Seq(Datagram)
           /\ \A i \in DOMAIN q : i \in DOMAIN (q \o x) /\ (q \o x)[i] = q[i]
           /\ \A i \in DOMAIN x : /\ Len(q) + i \in DOMAIN (q \o x)
                                  /\ (q \o x)[Len(q) + i] = x[i]
           /\ \A i \in DOMAIN (q \o x) :
                 \/ i \in DOMAIN q /\ (q \o x)[i] = q[i]
                 \/ i - Len(q) \in DOMAIN x /\ (q \o x)[i] = x[i - Len(q)]
<1>1. /\ q \o x \in Seq(Datagram) /\ Len(q \o x) = Len(q) + Len(x)
      /\ \A i \in 1 .. Len(q) + Len(x) :
            (q \o x)[i] = IF i <= Len(q) THEN q[i] ELSE x[i - Len(q)]
  BY ConcatProperties
<1>2. /\ Len(q) \in Nat /\ Len(x) \in Nat
      /\ DOMAIN q = 1 .. Len(q) /\ DOMAIN x = 1 .. Len(x)
      /\ DOMAIN (q \o x) = 1 .. Len(q) + Len(x)
  BY <1>1, LenProperties
<1> DEFINE y == q \o x
<1> HIDE DEF y
<1>3. \A i \in 1 .. Len(q) + Len(x) : y[i] = IF i <= Len(q) THEN q[i] ELSE x[i - Len(q)]
  BY <1>1 DEF y
<1>4. DOMAIN y = 1 .. Len(q) + Len(x) /\ y \in Seq(Datagram)
  BY <1>1, <1>2 DEF y
<1>5. \A i \in DOMAIN q : i \in DOMAIN y /\ y[i] = q[i]
  BY <1>2, <1>3, <1>4
<1>6. \A i \in DOMAIN x : Len(q) + i \in DOMAIN y /\ y[Len(q) + i] = x[i]
  BY <1>2, <1>3, <1>4
<1>7. \A i \in DOMAIN y : \/ i \in DOMAIN q /\ y[i] = q[i]
                          \/ i - Len(q) \in DOMAIN x /\ y[i] = x[i - Len(q)]
  BY <1>2, <1>3, <1>4
<1> QED BY <1>4, <1>5, <1>6, <1>7 DEF y

-----------------------------------------------------------------------------
LEMMA HeardGrows ==
    ASSUME NEW T, NEW T2, NEW n, NEW m, T[n] \subseteq T2[n], Heard(T, n, m)
    PROVE  Heard(T2, n, m)
BY DEF Heard

LEMMA SameHeard ==
    ASSUME NEW T, NEW n, NEW x, NEW y, Same(x, y)
    PROVE  Heard(T, n, x) <=> Heard(T, n, y)
BY DEF Heard, Same

(* New datagrams behind those that are under way. *)
LEMMA AddOnTheWay ==
    ASSUME NEW l \in Link, NEW q \in Seq(Datagram), NEW x \in Seq(Datagram),
           NEW T, NEW T2, T[l[1]] \subseteq T2[l[1]],
           NEW s \in Nat, NEW s2 \in Nat, s <= s2,
           OnTheWay(l, q, T, s), OnTheWay(l, x, T2, s2)
    PROVE  OnTheWay(l, q \o x, T2, s2)
<1> DEFINE Right(e, t, k) ==
        /\ e.kind \in ToldKind => Heard(t, l[1], e) /\ e.nr <= k
        /\ Takes(l) =>
              /\ l[2] # e.talker
              /\ Via(e)[l[2]] = l[1]
              /\ e.kind \in {"flush", "qsy"} =>
                    e.tg \in NumbersAt(net, e.talker, e.kind, l[2])
<1>1. \A i \in DOMAIN q : q[i] \in Datagram /\ Right(q[i], T, s)
  BY LenProperties, ElementOfSeq DEF OnTheWay
<1>2. \A i \in DOMAIN x : Right(x[i], T2, s2)
  BY DEF OnTheWay
<1>3. \A i \in DOMAIN q : Right(q[i], T2, s2)
  <2>1. ASSUME NEW i \in DOMAIN q, q[i].kind \in ToldKind
        PROVE  Heard(T2, l[1], q[i]) /\ q[i].nr <= s2
    <3>1. Heard(T, l[1], q[i]) /\ q[i].nr <= s /\ q[i].nr \in Nat
      BY <1>1, <2>1 DEF Datagram
    <3> QED BY <3>1, HeardGrows
  <2> QED BY <1>1, <2>1
<1> HIDE DEF Right
<1>4. \A i \in DOMAIN (q \o x) : Right((q \o x)[i], T2, s2)
  BY <1>2, <1>3, Joined
<1> QED BY <1>4 DEF OnTheWay, Right

LEMMA AddOnlyOnce ==
    ASSUME NEW l \in Link, NEW q \in Seq(Datagram), NEW x \in Seq(Datagram), NEW T,
           OnlyOnce(l, q, T), OnlyOnce(l, x, T),
           \A i \in DOMAIN q, j \in DOMAIN x : x[j].kind \in ToldKind => ~Same(q[i], x[j])
    PROVE  OnlyOnce(l, q \o x, T)
<1> DEFINE y == q \o x
<1>0. Len(q) \in Nat /\ DOMAIN q \subseteq Nat /\ DOMAIN x \subseteq Nat /\ DOMAIN y \subseteq Nat
  BY Joined, LenProperties
<1>1. \A i \in DOMAIN y : \/ i \in DOMAIN q /\ y[i] = q[i]
                          \/ i - Len(q) \in DOMAIN x /\ y[i] = x[i - Len(q)]
  BY Joined
<1> HIDE DEF y
<1>2. ASSUME NEW i \in DOMAIN y, y[i].kind \in ToldKind, Takes(l) PROVE ~Heard(T, l[2], y[i])
  BY <1>1, <1>2 DEF OnlyOnce
<1>3. ASSUME NEW i \in DOMAIN y, NEW j \in DOMAIN y, y[i].kind \in ToldKind, Same(y[i], y[j])
      PROVE  i = j
  <2>0. y[j].kind \in ToldKind /\ Same(y[j], y[i])
    BY <1>3 DEF Same
  <2>1. CASE i \in DOMAIN q /\ y[i] = q[i] /\ j \in DOMAIN q /\ y[j] = q[j]
    BY <1>3, <2>1 DEF OnlyOnce
  <2>2. CASE i \in DOMAIN q /\ y[i] = q[i] /\ j - Len(q) \in DOMAIN x /\ y[j] = x[j - Len(q)]
    BY <1>3, <2>0, <2>2
  <2>3. CASE i - Len(q) \in DOMAIN x /\ y[i] = x[i - Len(q)] /\ j \in DOMAIN q /\ y[j] = q[j]
    BY <1>3, <2>0, <2>3
  <2>4. CASE /\ i - Len(q) \in DOMAIN x /\ y[i] = x[i - Len(q)]
             /\ j - Len(q) \in DOMAIN x /\ y[j] = x[j - Len(q)]
    <3>1. i - Len(q) = j - Len(q)
      BY <1>3, <2>4 DEF OnlyOnce
    <3> QED BY <1>0, <3>1
  <2> QED BY <1>1, <2>1, <2>2, <2>3, <2>4
<1> QED BY <1>2, <1>3 DEF OnlyOnce, y

(* q2 are datagrams of q, each once, in some order. *)
Among(q2, q) ==
    \E f \in [DOMAIN q2 -> DOMAIN q] :
        /\ \A i \in DOMAIN q2 : q2[i] = q[f[i]]
        /\ \A i, j \in DOMAIN q2 : f[i] = f[j] => i = j

LEMMA AmongKeeps ==
    ASSUME NEW l \in Link, NEW q, NEW q2, Among(q2, q), NEW T, NEW s
    PROVE  /\ OnTheWay(l, q, T, s) => OnTheWay(l, q2, T, s)
           /\ OnlyOnce(l, q, T) => OnlyOnce(l, q2, T)
<1>1. PICK f \in [DOMAIN q2 -> DOMAIN q] :
        /\ \A i \in DOMAIN q2 : q2[i] = q[f[i]]
        /\ \A i, j \in DOMAIN q2 : f[i] = f[j] => i = j
  BY DEF Among
<1>2. OnTheWay(l, q, T, s) => OnTheWay(l, q2, T, s)
  BY <1>1 DEF OnTheWay
<1>3. OnlyOnce(l, q, T) => OnlyOnce(l, q2, T)
  BY <1>1 DEF OnlyOnce
<1> QED BY <1>2, <1>3

LEMMA AmongItself == \A q : Among(q, q)
<1> SUFFICES ASSUME NEW q PROVE Among(q, q)
  OBVIOUS
<1> DEFINE f == [i \in DOMAIN q |-> i]
<1>1. /\ f \in [DOMAIN q -> DOMAIN q]
      /\ \A i \in DOMAIN q : q[i] = q[f[i]]
      /\ \A i, j \in DOMAIN q : f[i] = f[j] => i = j
  OBVIOUS
<1> HIDE DEF f
<1> QED BY <1>1 DEF Among

LEMMA TailIsAmong ==
    ASSUME NEW q \in Seq(Datagram), q # << >>
    PROVE  /\ Among(Tail(q), q)
           /\ Head(q) = q[1] /\ 1 \in DOMAIN q
           /\ \A i \in DOMAIN Tail(q) : i + 1 \in DOMAIN q /\ Tail(q)[i] = q[i + 1] /\ i \in Nat \ {0}
           /\ \A i \in DOMAIN q : i = 1 \/ (i - 1 \in DOMAIN Tail(q) /\ Tail(q)[i - 1] = q[i])
<1>1. /\ Tail(q) \in Seq(Datagram) /\ Len(Tail(q)) = Len(q) - 1
      /\ \A i \in 1 .. Len(Tail(q)) : Tail(q)[i] = q[i + 1]
  BY HeadTailProperties
<1>2. /\ Len(q) \in Nat \ {0} /\ DOMAIN q = 1 .. Len(q)
      /\ DOMAIN Tail(q) = 1 .. Len(Tail(q))
  BY <1>1, LenProperties, EmptySeq
<1> DEFINE t == Tail(q)
<1>3. Head(q) = q[1]
  OBVIOUS
<1> HIDE DEF t
<1>4. DOMAIN t = 1 .. Len(q) - 1 /\ \A i \in 1 .. Len(q) - 1 : t[i] = q[i + 1]
  BY <1>1, <1>2 DEF t
<1>5. \A i \in DOMAIN t : i + 1 \in DOMAIN q /\ t[i] = q[i + 1] /\ i \in Nat \ {0}
  BY <1>2, <1>4
<1>6. \A i \in DOMAIN q : i = 1 \/ (i - 1 \in DOMAIN t /\ t[i - 1] = q[i])
  BY <1>2, <1>4
<1>7. Among(t, q)
  <2> DEFINE f == [i \in DOMAIN t |-> i + 1]
  <2>1. f \in [DOMAIN t -> DOMAIN q]
    BY <1>5
  <2>2. \A i \in DOMAIN t : t[i] = q[f[i]]
    BY <1>5
  <2>3. \A i, j \in DOMAIN t : f[i] = f[j] => i = j
    BY <1>5
  <2> HIDE DEF f
  <2> QED BY <2>1, <2>2, <2>3 DEF Among
<1>8. 1 \in DOMAIN q
  BY <1>2
<1> QED BY <1>3, <1>5, <1>6, <1>7, <1>8 DEF t

(* One overtakes another. *)
LEMMA SwapIsAmong ==
    ASSUME NEW q \in Seq(Datagram), Len(q) > 1
    PROVE  LET z == <<q[2], q[1]>> \o SubSeq(q, 3, Len(q)) IN
           /\ Among(z, q)
           /\ DOMAIN z = DOMAIN q /\ 1 \in DOMAIN q /\ 2 \in DOMAIN q /\ DOMAIN q \subseteq Nat
           /\ z[1] = q[2] /\ z[2] = q[1] /\ \A i \in DOMAIN q \ {1, 2} : z[i] = q[i]
<1> DEFINE t == SubSeq(q, 3, Len(q))
           z == <<q[2], q[1]>> \o t
<1>1. Len(q) \in Nat /\ DOMAIN q = 1 .. Len(q) /\ q[1] \in Datagram /\ q[2] \in Datagram
  BY LenProperties, ElementOfSeq
<1>2. \A i \in 3 .. Len(q) : q[i] \in Datagram
  BY <1>1, ElementOfSeq
<1>3. /\ t \in Seq(Datagram)
      /\ Len(t) = Len(q) - 2
      /\ \A i \in 1 .. Len(q) - 2 : t[i] = q[i + 2]
  <2>1. /\ SubSeq(q, 3, Len(q)) \in Seq(Datagram)
        /\ Len(SubSeq(q, 3, Len(q))) = IF 3 <= Len(q) THEN Len(q) - 3 + 1 ELSE 0
        /\ \A i \in 1 .. Len(q) - 3 + 1 : SubSeq(q, 3, Len(q))[i] = q[3 + i - 1]
    <3>1. 3 \in Int /\ Len(q) \in Int
      BY <1>1
    <3> QED BY ONLY <1>2, <3>1, SubSeqProperties
  <2> QED BY <1>1, <2>1
<1>4. <<q[2], q[1]>> \in Seq(Datagram) /\ Len(<<q[2], q[1]>>) = 2
  BY <1>1
<1> DEFINE p == <<q[2], q[1]>>
<1>5. p[1] = q[2] /\ p[2] = q[1]
  OBVIOUS
<1> HIDE DEF t, p
<1>6. /\ p \o t \in Seq(Datagram) /\ Len(p \o t) = Len(q)
      /\ \A i \in 1 .. Len(q) : (p \o t)[i] = IF i <= 2 THEN p[i] ELSE t[i - 2]
  <2>1. p \in Seq(Datagram) /\ t \in Seq(Datagram) /\ Len(p) = 2 /\ Len(t) = Len(q) - 2
    BY <1>3, <1>4 DEF p
  <2>2. /\ p \o t \in Seq(Datagram) /\ Len(p \o t) = Len(p) + Len(t)
        /\ \A i \in 1 .. Len(p) + Len(t) :
              (p \o t)[i] = IF i <= Len(p) THEN p[i] ELSE t[i - Len(p)]
    BY <2>1, ConcatProperties
  <2>3. Len(p) + Len(t) = Len(q)
    BY <1>1, <2>1
  <2> DEFINE z0 == p \o t
  <2> HIDE DEF z0
  <2>4. /\ z0 \in Seq(Datagram) /\ Len(z0) = Len(q)
        /\ \A i \in 1 .. Len(q) : z0[i] = IF i <= 2 THEN p[i] ELSE t[i - 2]
    BY <2>1, <2>2, <2>3 DEF z0
  <2> QED BY <2>4 DEF z0
<1>7. z = p \o t
  BY DEF p
<1> HIDE DEF z
<1>8. DOMAIN z = DOMAIN q
  BY <1>1, <1>6, <1>7, LenProperties
<1>9. z[1] = q[2] /\ z[2] = q[1]
  BY <1>1, <1>5, <1>6, <1>7
<1>10. \A i \in DOMAIN q \ {1, 2} : z[i] = q[i]
  <2>1. ASSUME NEW i \in DOMAIN q \ {1, 2} PROVE z[i] = q[i]
    <3>1. i \in 1 .. Len(q) /\ i > 2 /\ i - 2 \in 1 .. Len(q) - 2
      BY <1>1
    <3>2. z[i] = t[i - 2]
      <4> DEFINE y == p \o t
      <4>1. y[i] = IF i <= 2 THEN p[i] ELSE t[i - 2]
        BY <1>6, <3>1
      <4> HIDE DEF y
      <4>2. y[i] = t[i - 2]
        BY <3>1, <4>1
      <4> QED BY <1>7, <4>2 DEF y
    <3>3. t[i - 2] = q[(i - 2) + 2]
      BY <1>3, <3>1
    <3> QED BY <3>1, <3>2, <3>3
  <2> QED BY <2>1
<1>11. 1 \in DOMAIN q /\ 2 \in DOMAIN q /\ DOMAIN q \subseteq Nat
  BY <1>1
<1>12. Among(z, q)
  <2> DEFINE f == [i \in DOMAIN z |-> IF i = 1 THEN 2 ELSE IF i = 2 THEN 1 ELSE i]
  <2>1. f \in [DOMAIN z -> DOMAIN q]
    BY <1>8, <1>11
  <2>2. \A i \in DOMAIN z : z[i] = q[f[i]]
    BY <1>8, <1>9, <1>10
  <2>3. \A i, j \in DOMAIN z : f[i] = f[j] => i = j
    BY <1>8
  <2> HIDE DEF f
  <2> QED BY <2>1, <2>2, <2>3 DEF Among
<1> QED BY <1>8, <1>9, <1>10, <1>11, <1>12 DEF z, t

-----------------------------------------------------------------------------
(* The messages ms are a talker's own. *)
OwnMsgs(n, ms) ==
    /\ ms \in Seq(Datagram)
    /\ \A i \in DOMAIN ms : /\ ms[i].talker = n /\ ms[i].nr = sent + 1
                            /\ ms[i].tg = net.number[n]
    /\ \A i, j \in DOMAIN ms : Same(ms[i], ms[j]) => i = j

LEMMA WiresAreTyped ==
    ASSUME IInv, NEW l \in Link
    PROVE  wire[l] \in Seq(Datagram)
<1>1. wire[l] \in Seq(Good(l)) /\ Good(l) \subseteq Datagram
  BY DEF IInv, Routed, Good
<1> QED BY <1>1, SeqMonotonic

LEMMA OwnMsgTypes ==
    ASSUME IInv, NEW n \in Speaker, NEW k \in Kind
    PROVE  OwnMsg(n, k) \in Datagram
<1>1. n \in Node
  BY BoundAssumption
<1>2. net.number[n] \in TG /\ sent + 1 \in Nat
  BY <1>1, NetworkAssumption DEF IInv
<1> QED BY <1>2 DEF OwnMsg, Datagram

LEMMA OneOwnMsg ==
    ASSUME IInv, NEW n \in Speaker, NEW k \in Kind
    PROVE  LET ms == <<OwnMsg(n, k)>> IN
           OwnMsgs(n, ms) /\ DOMAIN ms = {1} /\ ms[1].kind = k
<1>1. OwnMsg(n, k) \in Datagram
  BY OwnMsgTypes
<1> DEFINE m == OwnMsg(n, k)
<1>2. m.talker = n /\ m.nr = sent + 1 /\ m.tg = net.number[n] /\ m.kind = k
  BY DEF OwnMsg
<1> HIDE DEF m
<1>3. /\ <<m>> \in Seq(Datagram) /\ DOMAIN <<m>> = {1} /\ <<m>>[1] = m
  BY <1>1 DEF m
<1>4. OwnMsgs(n, <<m>>)
  BY <1>2, <1>3 DEF OwnMsgs
<1> QED BY <1>2, <1>3, <1>4 DEF m

LEMMA TwoOwnMsgs ==
    ASSUME IInv, NEW n \in Speaker
    PROVE  LET ms == <<OwnMsg(n, "stop"), OwnMsg(n, "flush")>> IN
           OwnMsgs(n, ms) /\ DOMAIN ms = {1, 2} /\ ms[1].kind = "stop" /\ ms[2].kind = "flush"
<1> DEFINE m1 == OwnMsg(n, "stop")
           m2 == OwnMsg(n, "flush")
<1>1. m1 \in Datagram /\ m2 \in Datagram
  BY OwnMsgTypes DEF Kind
<1>2. /\ m1.talker = n /\ m1.nr = sent + 1 /\ m1.tg = net.number[n] /\ m1.kind = "stop"
      /\ m2.talker = n /\ m2.nr = sent + 1 /\ m2.tg = net.number[n] /\ m2.kind = "flush"
  BY DEF OwnMsg
<1> HIDE DEF m1, m2
<1>3. <<m1, m2>> \in Seq(Datagram) /\ DOMAIN <<m1, m2>> = {1, 2}
  BY <1>1
<1>4. <<m1, m2>>[1] = m1 /\ <<m1, m2>>[2] = m2
  OBVIOUS
<1>5. OwnMsgs(n, <<m1, m2>>)
  BY <1>2, <1>3, <1>4 DEF OwnMsgs, Same
<1> QED BY <1>2, <1>3, <1>4, <1>5 DEF m1, m2

LEMMA OwnAdded ==
    ASSUME IInv, NEW n \in Speaker, NEW ms, OwnMsgs(n, ms), NEW l \in Link
    PROVE  LET x == Added(n, WidthRemap(n, ms), l) IN
           /\ x \in Seq(Datagram)
           /\ \/ x = << >>
              \/ \E j \in DOMAIN net.peers[n] :
                   /\ l = <<n, net.peers[n][j].host>>
                   /\ DOMAIN x = DOMAIN ms
                   /\ \A i \in DOMAIN x :
                        /\ x[i].kind = ms[i].kind /\ x[i].talker = n /\ x[i].nr = sent + 1
                        /\ x[i].tg = RemapDest(net.peers[n][j].map, net.number[n])
<1> DEFINE out == WidthRemap(n, ms)
           x == Added(n, out, l)
<1>0. net \in Network /\ n \in Node /\ wire[l] \in Seq(Datagram)
  BY BoundAssumption, WiresAreTyped DEF IInv
<1>1. ASSUME NEW j \in DOMAIN net.peers[n]
      PROVE  /\ out[j] \in Seq(Datagram)
             /\ DOMAIN out[j] = DOMAIN ms
             /\ \A i \in DOMAIN ms :
                  /\ out[j][i].kind = ms[i].kind /\ out[j][i].talker = n /\ out[j][i].nr = sent + 1
                  /\ out[j][i].tg = RemapDest(net.peers[n][j].map, net.number[n])
  <2>1. out[j] = [k \in DOMAIN ms |-> [ms[k] EXCEPT !.tg = OutgoingTg(net.peers[n], j, ms[k].tg)]]
    BY DEF WidthRemap
  <2> DEFINE tg == RemapDest(net.peers[n][j].map, net.number[n])
  <2>2. tg \in TG
    <3>1. net.peers[n][j] \in TrunkPeer /\ net.number[n] \in TG
      BY <1>0, PeerFacts
    <3> QED BY <3>1, RemapTypes
  <2>3. \A k \in DOMAIN ms : OutgoingTg(net.peers[n], j, ms[k].tg) = tg
    <3>1. OutgoingTg(net.peers[n], j, net.number[n]) = tg
      BY <1>0, OutgoingIsRemapped
    <3> QED BY <3>1 DEF OwnMsgs
  <2> HIDE DEF tg
  <2>4. out[j] = [k \in DOMAIN ms |-> [ms[k] EXCEPT !.tg = tg]]
    BY <2>1, <2>3
  <2>5. \A k \in DOMAIN ms : ms[k] \in Datagram
    BY LenProperties, ElementOfSeq DEF OwnMsgs
  <2>6. \A k \in DOMAIN ms : [ms[k] EXCEPT !.tg = tg] \in Datagram
    BY <2>2, <2>5 DEF Datagram
  <2>7. DOMAIN ms = 1 .. Len(ms) /\ Len(ms) \in Nat
    BY LenProperties DEF OwnMsgs
  <2>8. out[j] \in Seq(Datagram)
    BY <2>4, <2>6, <2>7
  <2>9. \A i \in DOMAIN ms :
          /\ out[j][i].kind = ms[i].kind /\ out[j][i].talker = n /\ out[j][i].nr = sent + 1
          /\ out[j][i].tg = tg
    BY <2>4, <2>5 DEF OwnMsgs, Datagram
  <2> QED BY <2>4, <2>8, <2>9 DEF tg
<1>2. \/ x = << >>
      \/ \E j \in DOMAIN net.peers[n] : l = <<n, net.peers[n][j].host>> /\ x = out[j]
  BY <1>0, SentAdds
<1> HIDE DEF out, x
<1>3. CASE x = << >>
  BY <1>3, EmptySeq DEF x, out
<1>4. CASE \E j \in DOMAIN net.peers[n] : l = <<n, net.peers[n][j].host>> /\ x = out[j]
  <2>1. PICK j \in DOMAIN net.peers[n] : l = <<n, net.peers[n][j].host>> /\ x = out[j]
    BY <1>4
  <2>2. /\ x \in Seq(Datagram) /\ DOMAIN x = DOMAIN ms
        /\ \A i \in DOMAIN x :
             /\ x[i].kind = ms[i].kind /\ x[i].talker = n /\ x[i].nr = sent + 1
             /\ x[i].tg = RemapDest(net.peers[n][j].map, net.number[n])
    BY <1>1, <2>1
  <2> QED BY <2>1, <2>2 DEF x, out
<1> QED BY <1>2, <1>3, <1>4

(* A number that is new has not been told to anyone, nor is it under way. *)
LEMMA NewIsFresh ==
    ASSUME IInv, OnceInv, NEW m, m.nr = sent + 1, m.kind \in ToldKind
    PROVE  /\ \A n \in Node : Heard(told, n, m) <=> n = m.talker
           /\ \A l \in Link : \A i \in DOMAIN wire[l] : ~Same(wire[l][i], m)
<1>0. sent \in Nat
  BY DEF IInv
<1>1. ASSUME NEW n \in Node, NEW t \in told[n] PROVE ~Same(t, m)
  <2>1. t.nr <= sent /\ t.nr \in Nat
    BY DEF OnceInv, ToldOnItsWay, IInv, Datagram
  <2> QED BY <1>0, <2>1 DEF Same
<1>2. ASSUME NEW l \in Link, NEW i \in DOMAIN wire[l] PROVE ~Same(wire[l][i], m)
  <2>1. wire[l] \in Seq(Datagram)
    BY WiresAreTyped
  <2>2. wire[l][i] \in Datagram
    BY <2>1, LenProperties, ElementOfSeq
  <2>3. SUFFICES ASSUME Same(wire[l][i], m) PROVE FALSE
    OBVIOUS
  <2>4. wire[l][i].kind \in ToldKind /\ wire[l][i].nr = sent + 1
    BY <2>3 DEF Same
  <2>5. OnTheWay(l, wire[l], told, sent)
    BY DEF OnceInv
  <2>6. wire[l][i].nr <= sent
    BY <2>4, <2>5 DEF OnTheWay
  <2> QED BY <1>0, <2>4, <2>6
<1> QED BY <1>1, <1>2 DEF Heard

(* A talker sends messages of its own. *)
LEMMA OwnSends ==
    ASSUME IInv, OnceInv, NEW n \in Speaker, NEW ms, OwnMsgs(n, ms),
           NEW s2 \in Nat, sent <= s2,
           \A i \in DOMAIN ms : ms[i].kind \in ToldKind => s2 = sent + 1,
           NEW l \in Link
    PROVE  LET w == Sent(wire, n, WidthRemap(n, ms)) IN
           OnTheWay(l, w[l], told, s2) /\ OnlyOnce(l, w[l], told)
<1> DEFINE out == WidthRemap(n, ms)
           x == Added(n, out, l)
           q == wire[l]
<1>0. /\ n \in Node /\ net \in Network /\ sent \in Nat /\ q \in Seq(Datagram)
      /\ l[1] \in Node /\ l[2] \in Node
      /\ OnTheWay(l, q, told, sent) /\ OnlyOnce(l, q, told)
  BY BoundAssumption, WiresAreTyped DEF IInv, OnceInv, Link
<1>1. Sent(wire, n, out)[l] = q \o x
  BY <1>0, SentAdds
<1>2. /\ x \in Seq(Datagram)
      /\ \/ x = << >>
         \/ \E j \in DOMAIN net.peers[n] :
              /\ l = <<n, net.peers[n][j].host>>
              /\ DOMAIN x = DOMAIN ms
              /\ \A i \in DOMAIN x :
                   /\ x[i].kind = ms[i].kind /\ x[i].talker = n /\ x[i].nr = sent + 1
                   /\ x[i].tg = RemapDest(net.peers[n][j].map, net.number[n])
  BY OwnAdded
<1> HIDE DEF x, q, out
<1>3. CASE x = << >>
  <2>1. OnTheWay(l, x, told, s2) /\ OnlyOnce(l, x, told) /\ DOMAIN x = {}
    BY <1>3 DEF OnTheWay, OnlyOnce
  <2>2. OnTheWay(l, q \o x, told, s2)
    BY <1>0, <1>2, <2>1, AddOnTheWay
  <2>3. OnlyOnce(l, q \o x, told)
    BY <1>0, <1>2, <2>1, AddOnlyOnce
  <2> QED BY <1>1, <2>2, <2>3 DEF out
<1>4. CASE x # << >>
  <2>1. PICK j \in DOMAIN net.peers[n] :
          /\ l = <<n, net.peers[n][j].host>>
          /\ DOMAIN x = DOMAIN ms
          /\ \A i \in DOMAIN x :
               /\ x[i].kind = ms[i].kind /\ x[i].talker = n /\ x[i].nr = sent + 1
               /\ x[i].tg = RemapDest(net.peers[n][j].map, net.number[n])
    BY <1>2, <1>4
  <2>2. l[1] = n /\ l[2] = net.peers[n][j].host
    BY <2>1
  <2>3. ASSUME NEW i \in DOMAIN x, x[i].kind \in ToldKind
        PROVE  /\ Heard(told, n, x[i]) /\ x[i].nr <= s2
               /\ \A r \in Node : Heard(told, r, x[i]) => r = n
               /\ \A k \in DOMAIN q : ~Same(q[k], x[i])
    <3>1. x[i].talker = n /\ x[i].nr = sent + 1 /\ s2 = sent + 1
      BY <2>1, <2>3
    <3>2. /\ \A r \in Node : Heard(told, r, x[i]) <=> r = n
          /\ \A k \in DOMAIN q : ~Same(q[k], x[i])
      BY <2>3, <3>1, NewIsFresh DEF q
    <3> QED BY <1>0, <3>1, <3>2
  <2>4. ASSUME NEW i \in DOMAIN x, Takes(l)
        PROVE  /\ l[2] # x[i].talker
               /\ Via(x[i])[l[2]] = l[1]
               /\ x[i].kind \in {"flush", "qsy"} =>
                     x[i].tg \in NumbersAt(net, x[i].talker, x[i].kind, l[2])
    <3>1. x[i].talker = n
      BY <2>1
    <3>2. IsIpAllowed(net.peers[net.peers[n][j].host], n)
      BY <2>2, <2>4 DEF Takes
    <3>3. \A qsy \in BOOLEAN : /\ net.peers[n][j].host # n
                               /\ Way(net, n, qsy)[net.peers[n][j].host] = n
      BY <1>0, <3>2, WayFacts
    <3>4. (x[i].kind = "qsy") \in BOOLEAN
      OBVIOUS
    <3>5. l[2] # x[i].talker /\ Via(x[i])[l[2]] = l[1]
      BY <2>2, <3>1, <3>3, <3>4 DEF Via
    <3>6. x[i].kind \in {"flush", "qsy"} =>
             x[i].tg \in NumbersAt(net, x[i].talker, x[i].kind, l[2])
      BY <2>1, <3>1 DEF NumbersAt
    <3> QED BY <3>5, <3>6
  <2>5. OnTheWay(l, x, told, s2)
    BY <2>2, <2>3, <2>4 DEF OnTheWay
  <2>6. OnlyOnce(l, x, told)
    <3>1. ASSUME NEW i \in DOMAIN x, x[i].kind \in ToldKind, Takes(l) PROVE ~Heard(told, l[2], x[i])
      BY <1>0, <2>1, <2>3, <2>4, <3>1
    <3>2. ASSUME NEW i \in DOMAIN x, NEW k \in DOMAIN x, Same(x[i], x[k]) PROVE i = k
      <4>1. Same(ms[i], ms[k])
        BY <2>1, <3>2 DEF Same, OwnMsgs
      <4> QED BY <2>1, <4>1 DEF OwnMsgs
    <3> QED BY <3>1, <3>2 DEF OnlyOnce
  <2>7. OnTheWay(l, q \o x, told, s2)
    BY <1>0, <1>2, <2>5, AddOnTheWay
  <2>8. OnlyOnce(l, q \o x, told)
    BY <1>0, <1>2, <2>3, <2>6, AddOnlyOnce
  <2> QED BY <1>1, <2>7, <2>8 DEF out
<1> QED BY <1>3, <1>4

-----------------------------------------------------------------------------
(* What n passes on of a datagram m that it took from h. *)
LEMMA ResentAdded ==
    ASSUME NEW n \in Node, NEW h \in Node, NEW m \in Datagram, NEW l \in Link,
           net \in Network
    PROVE  LET x == Added(n, Resend(n, m, h), l) IN
           /\ x \in Seq(Datagram)
           /\ \/ x = << >>
              \/ \E j \in DOMAIN net.peers[n] :
                   /\ l = <<n, net.peers[n][j].host>>
                   /\ x = <<m>>
                   /\ PassedOn(net.peers[n][j], m, h, HostTypeSend(net.peers[n], h))
<1> DEFINE x == Added(n, Resend(n, m, h), l)
<1>1. \/ x = << >>
      \/ \E j \in DOMAIN net.peers[n] :
            l = <<n, net.peers[n][j].host>> /\ x = Resend(n, m, h)[j]
  <2> DEFINE i == IndexOfHost(net.peers[n], l[2])
             j == CHOOSE k \in i : TRUE
  <2>1. CASE l[1] = n /\ i # {}
    <3>1. j \in DOMAIN net.peers[n] /\ net.peers[n][j].host = l[2]
      BY <2>1 DEF IndexOfHost
    <3>2. l = <<n, net.peers[n][j].host>>
      BY <2>1, <3>1 DEF Link
    <3>3. x = Resend(n, m, h)[j]
      BY <2>1 DEF Added
    <3> QED BY <3>1, <3>2, <3>3
  <2>2. CASE ~(l[1] = n /\ i # {})
    BY <2>2 DEF Added
  <2> QED BY <2>1, <2>2
<1>2. \A j \in DOMAIN net.peers[n] :
        \/ Resend(n, m, h)[j] = << >>
        \/ /\ Resend(n, m, h)[j] = <<m>>
           /\ PassedOn(net.peers[n][j], m, h, HostTypeSend(net.peers[n], h))
  BY DEF Resend
<1>3. <<m>> \in Seq(Datagram) /\ << >> \in Seq(Datagram)
  OBVIOUS
<1> HIDE DEF x
<1>4. \/ x = << >>
      \/ \E j \in DOMAIN net.peers[n] :
            /\ l = <<n, net.peers[n][j].host>> /\ x = <<m>>
            /\ PassedOn(net.peers[n][j], m, h, HostTypeSend(net.peers[n], h))
  BY <1>1, <1>2
<1> QED BY <1>3, <1>4 DEF x

(* It goes only where it comes from n. *)
LEMMA ResentGoesOn ==
    ASSUME net \in Network, NEW n \in Node, NEW h \in Node, NEW m \in Datagram,
           n # m.talker, Via(m)[n] = h, h # n,
           NEW j \in DOMAIN net.peers[n],
           PassedOn(net.peers[n][j], m, h, HostTypeSend(net.peers[n], h)),
           Takes(<<n, net.peers[n][j].host>>)
    PROVE  net.peers[n][j].host # m.talker /\ Via(m)[net.peers[n][j].host] = n
<1>1. IsIpAllowed(net.peers[net.peers[n][j].host], n)
  BY DEF Takes
<1>2. Relays(net.peers[n][j], h, HostTypeSend(net.peers[n], h), m.kind = "qsy")
  BY DEF PassedOn
<1>3. m.talker \in Speaker /\ (m.kind = "qsy") \in BOOLEAN
  BY DEF Datagram
<1> DEFINE qsy == m.kind = "qsy"
           s == m.talker
           via == Way(net, s, qsy)
<1>4. via[n] = h
  BY DEF Via
<1>5. n # s
  OBVIOUS
<1> HIDE DEF qsy, s, via
<1>6. s \in Speaker /\ qsy \in BOOLEAN
  BY <1>3 DEF qsy, s
<1>7. (/\ IsIpAllowed(net.peers[net.peers[n][j].host], n)
       /\ n # s => /\ via[n] # n
                   /\ Relays(net.peers[n][j], via[n], HostTypeSend(net.peers[n], via[n]), qsy))
      => net.peers[n][j].host # s /\ via[net.peers[n][j].host] = n
  BY <1>6, WayFacts DEF via
<1>8. Relays(net.peers[n][j], via[n], HostTypeSend(net.peers[n], via[n]), qsy)
  BY <1>2, <1>4 DEF qsy
<1>9. net.peers[n][j].host # s /\ via[net.peers[n][j].host] = n
  BY <1>1, <1>4, <1>5, <1>7, <1>8
<1> QED BY <1>9 DEF via, qsy, s, Via

(* What n takes from h: nobody has told it to the clients of n before. *)
LEMMA TakenFacts ==
    ASSUME IInv, OnceInv, NEW h \in Node, NEW n \in Node, Receive(h, n),
           IsIpAllowed(net.peers[n], h)
    PROVE  LET m0 == Head(wire[<<h, n>>])
               m == Translated(n, m0, h)
               rest == [wire EXCEPT ![<<h, n>>] = Tail(@)]
           IN  /\ m \in Datagram /\ Same(m, m0) /\ Same(m0, m)
               /\ m.kind = m0.kind /\ m.talker = m0.talker
               /\ h # n /\ n # m.talker /\ Via(m)[n] = h
               /\ m.tg \in NumbersAt(net, m.talker, m.kind, n)
               /\ m.kind \in ToldKind =>
                     /\ Heard(told, h, m) /\ ~Heard(told, n, m) /\ m.nr <= sent
                     /\ \A i \in DOMAIN rest[<<h, n>>] : ~Same(rest[<<h, n>>][i], m)
               /\ wire' = Sent(rest, n, Resend(n, m, h)) /\ Broadcast(n, m)
<1> DEFINE l == <<h, n>>
           q == wire[l]
           m0 == Head(q)
           m == Translated(n, m0, h)
           rest == [wire EXCEPT ![l] = Tail(@)]
<1>1. /\ l \in Link /\ q # << >> /\ Takes(l) /\ net \in Network
      /\ wire' = Sent(rest, n, Resend(n, m, h)) /\ Broadcast(n, m)
  BY DEF Receive, Link, Takes, IInv
<1>2. q \in Seq(Datagram) /\ m0 \in Good(l)
  BY <1>1, WiresAreTyped, TakenIsGood
<1>3. /\ m \in Datagram /\ m.kind = m0.kind
      /\ m.kind \in {"start", "stop", "audio"} => m.tg = net.number[n]
  BY <1>2, TranslatedIsRight
<1>4. m.talker = m0.talker /\ m.nr = m0.nr
  <2>1. m0 \in Datagram
    BY <1>2 DEF Good
  <2>2. m = m0 \/ m = [m0 EXCEPT !.tg = TgFromDestTable(net.peers[n], h, @)]
    BY DEF Translated
  <2> QED BY <2>1, <2>2 DEF Datagram
<1>5. /\ 1 \in DOMAIN q /\ m0 = q[1]
      /\ \A i \in DOMAIN Tail(q) : i + 1 \in DOMAIN q /\ Tail(q)[i] = q[i + 1] /\ i \in Nat \ {0}
  BY <1>1, <1>2, TailIsAmong
<1>6. rest[l] = Tail(q)
  BY <1>1 DEF IInv, Routed
<1>7. h # n
  BY NetworkAssumption DEF IsIpAllowed, IndexOfHost, IInv
<1>8. OnTheWay(l, q, told, sent) /\ OnlyOnce(l, q, told)
  BY <1>1 DEF OnceInv
<1> HIDE DEF rest, q, m, m0
<1>9. l[1] = h /\ l[2] = n
  OBVIOUS
<1> HIDE DEF l
<1>10. /\ m0.kind \in ToldKind => Heard(told, h, m0) /\ m0.nr <= sent
       /\ n # m0.talker
       /\ Via(m0)[n] = h
       /\ m0.kind \in {"flush", "qsy"} => m0.tg \in NumbersAt(net, m0.talker, m0.kind, n)
  BY <1>1, <1>5, <1>8, <1>9 DEF OnTheWay
<1>11. /\ m0.kind \in ToldKind => ~Heard(told, n, m0)
       /\ m0.kind \in ToldKind => \A j \in DOMAIN q : Same(m0, q[j]) => j = 1
  BY <1>1, <1>5, <1>8, <1>9 DEF OnlyOnce
<1>12. Same(m, m0) /\ Same(m0, m)
  BY <1>3, <1>4 DEF Same
<1>13. Via(m) = Via(m0)
  BY <1>3, <1>4 DEF Via
<1>14. m.tg \in NumbersAt(net, m.talker, m.kind, n)
  <2>1. CASE m.kind \in {"start", "stop", "audio"}
    BY <1>3, <2>1 DEF NumbersAt
  <2>2. CASE m.kind \in {"flush", "qsy"}
    <3>1. m = m0
      BY <1>3, <2>2 DEF m, Translated
    <3> QED BY <1>3, <1>10, <2>2, <3>1
  <2> QED BY <1>3, <2>1, <2>2 DEF Datagram, Kind
<1>15. m.kind \in ToldKind =>
          /\ Heard(told, h, m) /\ ~Heard(told, n, m) /\ m.nr <= sent
          /\ \A i \in DOMAIN rest[l] : ~Same(rest[l][i], m)
  <2> SUFFICES ASSUME m.kind \in ToldKind
               PROVE  /\ Heard(told, h, m) /\ ~Heard(told, n, m) /\ m.nr <= sent
                      /\ \A i \in DOMAIN rest[l] : ~Same(rest[l][i], m)
    OBVIOUS
  <2>1. Heard(told, h, m) /\ ~Heard(told, n, m) /\ m.nr <= sent
    BY <1>3, <1>4, <1>10, <1>11, <1>12, SameHeard
  <2>2. ASSUME NEW i \in DOMAIN rest[l], Same(rest[l][i], m) PROVE FALSE
    <3>1. i \in DOMAIN Tail(q) /\ rest[l][i] = Tail(q)[i]
      BY <1>6, <2>2
    <3>2. i + 1 \in DOMAIN q /\ rest[l][i] = q[i + 1] /\ i + 1 # 1
      BY <1>5, <3>1
    <3>3. Same(m0, q[i + 1])
      BY <1>12, <2>2, <3>2 DEF Same
    <3> QED BY <1>3, <1>11, <3>2, <3>3
  <2> QED BY <2>1, <2>2
<1>16. n # m.talker /\ Via(m)[n] = h
  BY <1>4, <1>10, <1>13
<1> QED BY <1>1, <1>3, <1>4, <1>7, <1>12, <1>14, <1>15, <1>16 DEF m, m0, q, l, rest

LEMMA RestFacts ==
    ASSUME IInv, NEW k \in Link, wire[k] # << >>, NEW l \in Link
    PROVE  LET rest == [wire EXCEPT ![k] = Tail(@)] IN
           /\ rest[l] \in Seq(Datagram)
           /\ Among(rest[l], wire[l])
<1> DEFINE rest == [wire EXCEPT ![k] = Tail(@)]
<1>1. wire[l] \in Seq(Datagram) /\ wire[k] \in Seq(Datagram)
  BY WiresAreTyped
<1>2. CASE l = k
  <2>1. rest[l] = Tail(wire[k])
    BY <1>2 DEF IInv, Routed
  <2>2. Among(Tail(wire[k]), wire[k]) /\ Tail(wire[k]) \in Seq(Datagram)
    BY <1>1, TailIsAmong, HeadTailProperties
  <2> QED BY <1>2, <2>1, <2>2
<1>3. CASE l # k
  <2>1. rest[l] = wire[l]
    BY <1>3 DEF IInv, Routed
  <2>2. Among(wire[l], wire[l])
    BY AmongItself
  <2> QED BY <1>1, <2>1, <2>2
<1> QED BY <1>2, <1>3

-----------------------------------------------------------------------------
(* A datagram that is neither audio, flush nor QSY, or not taken at all,   *)
(* or new at n: after it everything still comes once.                      *)
LEMMA ReceiveKeepsOnce ==
    ASSUME IInv, OnceInv, NEW h \in Node, NEW n \in Node, Receive(h, n),
           IsIpAllowed(net.peers[n], h)
    PROVE  /\ \A l \in Link : OnTheWay(l, wire'[l], told', sent) /\ OnlyOnce(l, wire'[l], told')
           /\ \A k \in Node : ToldOnItsWay(k, told', sent)
           /\ again' = again
<1> DEFINE c == <<h, n>>
           m0 == Head(wire[c])
           m == Translated(n, m0, h)
           rest == [wire EXCEPT ![c] = Tail(@)]
           note == [kind |-> m.kind, tg |-> m.tg, talker |-> m.talker, nr |-> m.nr]
<1>1. /\ m \in Datagram
      /\ h # n /\ n # m.talker /\ Via(m)[n] = h
      /\ m.tg \in NumbersAt(net, m.talker, m.kind, n)
      /\ m.kind \in ToldKind =>
            /\ Heard(told, h, m) /\ ~Heard(told, n, m) /\ m.nr <= sent
            /\ \A i \in DOMAIN rest[c] : ~Same(rest[c][i], m)
      /\ wire' = Sent(rest, n, Resend(n, m, h)) /\ Broadcast(n, m)
  BY TakenFacts
<1>2. c \in Link /\ wire[c] # << >> /\ net \in Network
      /\ sent \in Nat /\ sent <= sent
  BY DEF Receive, Link, IInv
<1>3. \A l \in Link : rest[l] \in Seq(Datagram) /\ Among(rest[l], wire[l])
  BY <1>2, RestFacts
<1> HIDE DEF rest, m, m0
<1>4. \A l \in Link : OnTheWay(l, rest[l], told, sent) /\ OnlyOnce(l, rest[l], told)
  BY <1>3, AmongKeeps DEF OnceInv
<1>5. told \in [Node -> SUBSET Datagram] /\ \A k \in Node : ToldOnItsWay(k, told, sent)
  BY DEF IInv, OnceInv
(* What is new at n. *)
<1>6. /\ Same(note, m) /\ Same(m, note) /\ Via(note) = Via(m)
      /\ note.kind = m.kind /\ note.talker = m.talker /\ note.nr = m.nr
  BY DEF Same, Via
<1>7. /\ m.kind \notin ToldKind => told' = told /\ again' = again
      /\ m.kind \in ToldKind => told' = [told EXCEPT ![n] = @ \cup {note}] /\ again' = again
  <2>1. CASE m.kind = "start"
    BY <1>1, <2>1 DEF Broadcast, ToldKind
  <2>2. CASE m.kind = "stop"
    BY <1>1, <2>2 DEF Broadcast, ToldKind
  <2>3. CASE m.kind \in ToldKind
    <3>1. /\ told' = [told EXCEPT ![n] = @ \cup {note}]
          /\ again' = [again EXCEPT ![n] = IF note \in told[n] THEN @ \cup {note} ELSE @]
      BY <1>1, <2>3 DEF Broadcast, ToldKind
    <3>2. note \notin told[n]
      BY <1>1, <1>6, <2>3 DEF Heard
    <3>3. again' = again
      BY <3>1, <3>2 DEF OnceInv
    <3> QED BY <2>3, <3>1, <3>3
  <2> QED BY <1>1, <2>1, <2>2, <2>3 DEF Datagram, Kind, ToldKind
<1> HIDE DEF note
<1>8. \A k \in Node : told[k] \subseteq told'[k]
  BY <1>5, <1>7
<1>9. ASSUME NEW k \in Node, NEW e, Heard(told', k, e), ~Heard(told, k, e)
      PROVE  k = n /\ Same(note, e) /\ m.kind \in ToldKind
  <2>1. PICK t \in told'[k] : Same(t, e) /\ t \notin told[k]
    BY <1>9 DEF Heard
  <2> QED BY <1>5, <1>7, <2>1
<1>10. m.kind \in ToldKind => Heard(told', n, m)
  <2>1. m.kind \in ToldKind => note \in told'[n]
    BY <1>5, <1>7
  <2> QED BY <1>6, <2>1 DEF Heard
(* The datagrams that stay. *)
<1>11. ASSUME NEW l \in Link PROVE OnlyOnce(l, rest[l], told')
  <2>1. ASSUME NEW i \in DOMAIN rest[l], rest[l][i].kind \in ToldKind, Takes(l),
               Heard(told', l[2], rest[l][i])
        PROVE  FALSE
    <3> DEFINE e == rest[l][i]
    <3>1. ~Heard(told, l[2], e) /\ Via(e)[l[2]] = l[1] /\ l[1] \in Node /\ l[2] \in Node
      BY <1>4, <2>1 DEF OnlyOnce, OnTheWay, Link
    <3>2. l[2] = n /\ Same(note, e) /\ m.kind \in ToldKind
      BY <1>9, <2>1, <3>1
    <3>3. Via(e) = Via(m)
      BY <1>6, <3>2 DEF Via, Same
    <3>4. l = c
      BY <1>1, <3>1, <3>2, <3>3 DEF Link
    <3>5. Same(e, m)
      BY <1>6, <3>2 DEF Same
    <3> QED BY <1>1, <2>1, <3>2, <3>4, <3>5
  <2> QED BY <1>4, <2>1 DEF OnlyOnce
(* And those that n sends. *)
<1>12. ASSUME NEW l \in Link
       PROVE  OnTheWay(l, wire'[l], told', sent) /\ OnlyOnce(l, wire'[l], told')
  <2> DEFINE x == Added(n, Resend(n, m, h), l)
  <2>1. wire'[l] = rest[l] \o x
    BY <1>1, <1>3, SentAdds
  <2>2. /\ x \in Seq(Datagram)
        /\ \/ x = << >>
           \/ \E j \in DOMAIN net.peers[n] :
                /\ l = <<n, net.peers[n][j].host>>
                /\ x = <<m>>
                /\ PassedOn(net.peers[n][j], m, h, HostTypeSend(net.peers[n], h))
    BY <1>1, <1>2, ResentAdded
  <2> HIDE DEF x
  <2>3. l[1] \in Node /\ l[2] \in Node /\ told[l[1]] \subseteq told'[l[1]]
    BY <1>8 DEF Link
  <2>4. CASE x = << >>
    <3>1. OnTheWay(l, x, told', sent) /\ OnlyOnce(l, x, told') /\ DOMAIN x = {}
      BY <2>4 DEF OnTheWay, OnlyOnce
    <3>2. OnTheWay(l, rest[l] \o x, told', sent)
      BY <1>2, <1>3, <1>4, <2>2, <2>3, <3>1, AddOnTheWay
    <3>3. OnlyOnce(l, rest[l] \o x, told')
      BY <1>3, <1>11, <2>2, <3>1, AddOnlyOnce
    <3> QED BY <2>1, <3>2, <3>3
  <2>5. CASE x # << >>
    <3>1. PICK j \in DOMAIN net.peers[n] :
            /\ l = <<n, net.peers[n][j].host>>
            /\ x = <<m>>
            /\ PassedOn(net.peers[n][j], m, h, HostTypeSend(net.peers[n], h))
      BY <2>2, <2>5
    <3> DEFINE r == net.peers[n][j].host
    <3>2. l[1] = n /\ l[2] = r /\ r # n
      BY <1>2, <3>1, NetworkAssumption
    <3>3. DOMAIN x = {1} /\ x[1] = m
      BY <3>1
    <3>4. Takes(l) => r # m.talker /\ Via(m)[r] = n
      BY <1>1, <1>2, <3>1, ResentGoesOn
    <3>5. ASSUME Takes(l), m.kind \in ToldKind, Heard(told', r, m) PROVE FALSE
      <4>1. Heard(told, r, m)
        BY <1>9, <2>3, <3>2, <3>5
      <4>2. PICK t \in told[r] : Same(t, m)
        BY <3>4, <3>5, <4>1 DEF Heard
      <4>3. Heard(told, Via(t)[r], t)
        BY <1>5, <2>3, <3>2, <4>2 DEF ToldOnItsWay
      <4>4. Via(t) = Via(m)
        BY <4>2 DEF Via, Same
      <4>5. Heard(told, n, m)
        BY <3>4, <3>5, <4>2, <4>3, <4>4, SameHeard
      <4> QED BY <1>1, <3>5, <4>5
    <3>6. OnTheWay(l, x, told', sent)
      <4>1. m.kind \in {"flush", "qsy"} => m.tg \in NumbersAt(net, m.talker, m.kind, r)
        BY <1>1 DEF NumbersAt
      <4> QED BY <1>1, <1>10, <3>2, <3>3, <3>4, <4>1 DEF OnTheWay
    <3>7. OnlyOnce(l, x, told')
      BY <3>2, <3>3, <3>5 DEF OnlyOnce
    <3>8. ASSUME NEW i \in DOMAIN rest[l], m.kind \in ToldKind, Same(rest[l][i], m) PROVE FALSE
      <4>1. rest[l][i].kind \in ToldKind
        BY <3>8 DEF Same
      <4>2. Heard(told, n, rest[l][i])
        BY <1>4, <3>2, <4>1 DEF OnTheWay
      <4>3. Heard(told, n, m)
        BY <3>8, <4>2, SameHeard
      <4> QED BY <1>1, <3>8, <4>3
    <3>9. \A i \in DOMAIN rest[l], k \in DOMAIN x : x[k].kind \in ToldKind => ~Same(rest[l][i], x[k])
      BY <3>3, <3>8
    <3>10. OnTheWay(l, rest[l] \o x, told', sent)
      BY <1>2, <1>3, <1>4, <2>2, <2>3, <3>6, AddOnTheWay
    <3>11. OnlyOnce(l, rest[l] \o x, told')
      BY <1>3, <1>11, <2>2, <3>7, <3>9, AddOnlyOnce
    <3> QED BY <2>1, <3>10, <3>11
  <2> QED BY <2>4, <2>5
<1>13. ASSUME NEW k \in Node PROVE ToldOnItsWay(k, told', sent)
  <2>1. ASSUME NEW t \in told'[k]
        PROVE  /\ t.talker # k /\ t.nr <= sent /\ t.kind \in ToldKind
               /\ Heard(told', Via(t)[k], t)
    <3>1. CASE t \in told[k]
      <4>1. /\ t.talker # k /\ t.nr <= sent /\ t.kind \in ToldKind
            /\ Heard(told, Via(t)[k], t)
        BY <1>5, <3>1 DEF ToldOnItsWay
      <4>2. Via(t)[k] \in Node
        <5>1. t \in Datagram
          BY <1>5, <3>1
        <5>2. t.talker \in Speaker /\ (t.kind = "qsy") \in BOOLEAN
          BY <5>1 DEF Datagram
        <5>3. Via(t) \in [Node -> Node]
          BY <1>2, <5>2, WayFacts DEF Via
        <5> QED BY <5>3
      <4> QED BY <1>8, <4>1, <4>2, HeardGrows
    <3>2. CASE t \notin told[k]
      <4>1. k = n /\ t = note /\ m.kind \in ToldKind
        BY <1>5, <1>7, <2>1, <3>2
      <4>2. Heard(told, h, note)
        BY <1>1, <1>6, <4>1, SameHeard
      <4>3. Heard(told', h, note)
        BY <1>8, <4>2, HeardGrows
      <4> QED BY <1>1, <1>6, <4>1, <4>3
    <3> QED BY <3>1, <3>2
  <2> QED BY <2>1 DEF ToldOnItsWay
<1>14. again' = again
  BY <1>7
<1> QED BY <1>12, <1>13, <1>14

LEMMA OnceInvInit == Init => OnceInv
<1> SUFFICES ASSUME Init PROVE OnceInv
  OBVIOUS
<1>1. \A l \in Link : wire[l] = << >> /\ DOMAIN wire[l] = {}
  BY DEF Init
<1> QED BY <1>1 DEF Init, OnceInv, OnTheWay, OnlyOnce, ToldOnItsWay

(* For a step that tells nothing. *)
LEMMA QuietOnce ==
    ASSUME IInv, OnceInv, UNCHANGED <<net, told, again>>,
           \A l \in Link : OnTheWay(l, wire'[l], told, sent') /\ OnlyOnce(l, wire'[l], told),
           sent' \in Nat, sent <= sent'
    PROVE  OnceInv'
<1>1. \A k \in Node : ToldOnItsWay(k, told, sent')
  <2>1. ASSUME NEW k \in Node, NEW t \in told[k] PROVE t.nr <= sent'
    <3>1. t.nr <= sent /\ t.nr \in Nat
      BY DEF OnceInv, ToldOnItsWay, IInv, Datagram
    <3> QED BY <3>1 DEF IInv
  <2> QED BY <2>1 DEF OnceInv, ToldOnItsWay
<1>2. OnceInv'
  BY <1>1 DEF OnceInv, OnTheWay, OnlyOnce, ToldOnItsWay, Takes, Via
<1> QED BY <1>2

LEMMA OnceInvNext == IInv /\ OnceInv /\ [Next]_vars => OnceInv'
<1> SUFFICES ASSUME IInv, OnceInv, [Next]_vars PROVE OnceInv'
  OBVIOUS
<1>0. /\ sent \in Nat /\ sent + 1 \in Nat /\ sent <= sent /\ sent <= sent + 1
      /\ \A l \in Link : OnTheWay(l, wire[l], told, sent) /\ OnlyOnce(l, wire[l], told)
      /\ wire = [l \in Link |-> wire[l]]
  BY DEF IInv, OnceInv, Routed
(* Own messages with numbers up to s2. *)
<1>1. ASSUME NEW n \in Speaker, NEW ms, OwnMsgs(n, ms), sent' \in Nat, sent <= sent',
             \A i \in DOMAIN ms : ms[i].kind \in ToldKind => sent' = sent + 1,
             wire' = Sent(wire, n, WidthRemap(n, ms)),
             UNCHANGED <<net, told, again>>
      PROVE  OnceInv'
  <2>1. \A l \in Link : OnTheWay(l, wire'[l], told, sent') /\ OnlyOnce(l, wire'[l], told)
    BY <1>1, OwnSends
  <2> QED BY <1>1, <2>1, QuietOnce
<1>2. ASSUME NEW n \in Speaker, TalkerStart(n) PROVE OnceInv'
  <2> DEFINE ms == <<OwnMsg(n, "start")>>
  <2>1. OwnMsgs(n, ms) /\ DOMAIN ms = {1} /\ ms[1].kind = "start"
    BY OneOwnMsg DEF Kind
  <2>2. wire' = Sent(wire, n, WidthRemap(n, ms)) /\ UNCHANGED <<net, told, again, sent>>
    BY <1>2 DEF TalkerStart
  <2> HIDE DEF ms
  <2>3. \A i \in DOMAIN ms : ms[i].kind \notin ToldKind
    BY <2>1 DEF ToldKind
  <2> QED BY <1>0, <1>1, <2>1, <2>2, <2>3
<1>3. ASSUME NEW n \in Speaker, TalkerStop(n) PROVE OnceInv'
  <2> DEFINE ms == <<OwnMsg(n, "stop")>>
  <2>1. OwnMsgs(n, ms) /\ DOMAIN ms = {1} /\ ms[1].kind = "stop"
    BY OneOwnMsg DEF Kind
  <2>2. wire' = Sent(wire, n, WidthRemap(n, ms)) /\ UNCHANGED <<net, told, again, sent>>
    BY <1>3 DEF TalkerStop
  <2> HIDE DEF ms
  <2>3. \A i \in DOMAIN ms : ms[i].kind \notin ToldKind
    BY <2>1 DEF ToldKind
  <2> QED BY <1>0, <1>1, <2>1, <2>2, <2>3
<1>4. ASSUME NEW n \in Speaker, Flush(n) PROVE OnceInv'
  <2>1. PICK ms : OwnMsgs(n, ms) /\ wire' = Sent(wire, n, WidthRemap(n, ms))
    BY <1>4, TwoOwnMsgs DEF Flush
  <2>2. UNCHANGED <<net, told, again>> /\ sent' = sent + 1
    BY <1>4 DEF Flush
  <2> QED BY <1>0, <1>1, <2>1, <2>2
<1>5. ASSUME NEW n \in Speaker, NEW kind \in {"audio", "qsy", "flush"}, Say(n, kind) PROVE OnceInv'
  <2>1. OwnMsgs(n, <<OwnMsg(n, kind)>>)
    BY OneOwnMsg DEF Kind
  <2>2. /\ wire' = Sent(wire, n, WidthRemap(n, <<OwnMsg(n, kind)>>))
        /\ UNCHANGED <<net, told, again>> /\ sent' = sent + 1
    BY <1>5 DEF Say
  <2> QED BY <1>0, <1>1, <2>1, <2>2
<1>6. ASSUME NEW h \in Node, NEW n \in Node, Receive(h, n) PROVE OnceInv'
  <2>1. UNCHANGED <<net, sent>>
    BY <1>6 DEF Receive
  <2>2. CASE IsIpAllowed(net.peers[n], h)
    <3>1. /\ \A l \in Link : OnTheWay(l, wire'[l], told', sent) /\ OnlyOnce(l, wire'[l], told')
          /\ \A k \in Node : ToldOnItsWay(k, told', sent)
          /\ again' = again
      BY <1>6, <2>2, ReceiveKeepsOnce
    <3> QED BY <2>1, <3>1 DEF OnceInv, OnTheWay, OnlyOnce, ToldOnItsWay, Takes, Via
  <2>3. CASE ~IsIpAllowed(net.peers[n], h)
    <3>1. /\ <<h, n>> \in Link /\ wire[<<h, n>>] # << >>
          /\ wire' = [wire EXCEPT ![<<h, n>>] = Tail(@)]
          /\ UNCHANGED <<told, again>>
      BY <1>6, <2>3 DEF Receive, Link
    <3>2. \A l \in Link : OnTheWay(l, wire'[l], told, sent) /\ OnlyOnce(l, wire'[l], told)
      BY <1>0, <3>1, RestFacts, AmongKeeps
    <3> QED BY <1>0, <2>1, <3>1, <3>2, QuietOnce
  <2> QED BY <2>2, <2>3
<1>7. ASSUME NEW k \in Link, Lose(k) PROVE OnceInv'
  <2>1. /\ wire[k] # << >> /\ wire' = [wire EXCEPT ![k] = Tail(@)]
        /\ UNCHANGED <<net, told, again, sent>>
    BY <1>7 DEF Lose
  <2>2. \A l \in Link : OnTheWay(l, wire'[l], told, sent) /\ OnlyOnce(l, wire'[l], told)
    BY <1>0, <2>1, RestFacts, AmongKeeps
  <2> QED BY <1>0, <2>1, <2>2, QuietOnce
<1>8. ASSUME NEW k \in Link, Overtake(k) PROVE OnceInv'
  <2> DEFINE z == <<wire[k][2], wire[k][1]>> \o SubSeq(wire[k], 3, Len(wire[k]))
  <2>1. /\ Len(wire[k]) > 1 /\ wire' = [wire EXCEPT ![k] = z]
        /\ UNCHANGED <<net, told, again, sent>>
    BY <1>8 DEF Overtake
  <2>2. Among(z, wire[k])
    BY <2>1, WiresAreTyped, SwapIsAmong
  <2> HIDE DEF z
  <2>3. \A l \in Link : Among(wire'[l], wire[l])
    BY <1>0, <2>1, <2>2, AmongItself
  <2>4. \A l \in Link : OnTheWay(l, wire'[l], told, sent) /\ OnlyOnce(l, wire'[l], told)
    BY <1>0, <2>3, AmongKeeps
  <2> QED BY <1>0, <2>1, <2>4, QuietOnce
<1>9. CASE UNCHANGED vars \/ \E n \in Speaker : TalkerGoes(n)
  BY <1>0, <1>9, QuietOnce DEF vars, TalkerGoes
<1> QED BY <1>2, <1>3, <1>4, <1>5, <1>6, <1>7, <1>8, <1>9 DEF Next

(* Although nothing is numbered, no frame, flush or QSY request comes to   *)
(* the clients of a reflector twice or back to those of its talker, as     *)
(* long as each reflector takes what a talker says from one other only.    *)
THEOREM NothingTwice == Spec => []ToldOnce
<1>1. OnceInv => ToldOnce
  BY DEF OnceInv, ToldOnItsWay, ToldOnce
<1>2. Init => OnceInv
  BY OnceInvInit
<1> QED BY <1>1, <1>2, IInvInit, IInvNext, OnceInvNext, PTL DEF Spec

-----------------------------------------------------------------------------
(* What is to be delivered is sent. *)
LEMMA OwnIsSent ==
    ASSUME IInv, NEW n \in Speaker, NEW ms, OwnMsgs(n, ms), NEW kind \in Kind, NEW r \in Node,
           Delivers(net, n, kind, n, r)
    PROVE  LET x == Added(n, WidthRemap(n, ms), <<n, r>>) IN
           /\ DOMAIN x = DOMAIN ms
           /\ \A i \in DOMAIN ms : Same(x[i], ms[i])
<1> DEFINE x == Added(n, WidthRemap(n, ms), <<n, r>>)
<1>1. PICK j \in DOMAIN net.peers[n] : net.peers[n][j].host = r
  BY DEF Delivers, IndexOfHost
<1>2. n \in Node /\ net \in Network /\ <<n, r>> \in Link
  BY BoundAssumption DEF IInv, Link
<1>3. x = WidthRemap(n, ms)[j]
  BY <1>1, <1>2, AddedAt
<1>4. x = [k \in DOMAIN ms |-> [ms[k] EXCEPT !.tg = OutgoingTg(net.peers[n], j, ms[k].tg)]]
  BY <1>1, <1>3 DEF WidthRemap
<1>5. \A k \in DOMAIN ms : ms[k] \in Datagram
  BY LenProperties, ElementOfSeq DEF OwnMsgs
<1> HIDE DEF x
<1>6. \A i \in DOMAIN ms : Same(x[i], ms[i])
  BY <1>4, <1>5 DEF Same, Datagram
<1> QED BY <1>4, <1>6 DEF x

LEMMA TakenIsPassedOn ==
    ASSUME net \in Network, NEW n \in Node, NEW h \in Node, NEW m \in Datagram,
           n # m.talker, Via(m)[n] = h,
           m.tg \in NumbersAt(net, m.talker, m.kind, n),
           NEW r \in Node, Delivers(net, m.talker, m.kind, n, r)
    PROVE  Added(n, Resend(n, m, h), <<n, r>>) = <<m>>
<1>1. PICK j \in DOMAIN net.peers[n] :
        /\ net.peers[n][j].host = r
        /\ NumbersAt(net, m.talker, m.kind, n) \subseteq net.peers[n][j].tgRule
        /\ Relays(net.peers[n][j], h, HostTypeSend(net.peers[n], h), m.kind = "qsy")
  BY DEF Delivers, IndexOfHost, Via
<1>2. PassedOn(net.peers[n][j], m, h, HostTypeSend(net.peers[n], h))
  BY <1>1 DEF PassedOn
<1>3. Resend(n, m, h)[j] = <<m>>
  BY <1>1, <1>2 DEF Resend
<1> QED BY <1>1, <1>3, AddedAt

LEMMA OnWireGrows ==
    ASSUME NEW q \in Seq(Datagram), NEW x \in Seq(Datagram), NEW e,
           OnWire(q, e) \/ OnWire(x, e)
    PROVE  OnWire(q \o x, e)
<1>1. CASE OnWire(q, e)
  <2>1. PICK i \in DOMAIN q : Same(q[i], e)
    BY <1>1 DEF OnWire
  <2>2. i \in DOMAIN (q \o x) /\ (q \o x)[i] = q[i]
    BY Joined
  <2> QED BY <2>1, <2>2 DEF OnWire
<1>2. CASE OnWire(x, e)
  <2>1. PICK i \in DOMAIN x : Same(x[i], e)
    BY <1>2 DEF OnWire
  <2>2. PICK j \in DOMAIN (q \o x) : (q \o x)[j] = x[i]
    <3>1. Len(q) + i \in DOMAIN (q \o x) /\ (q \o x)[Len(q) + i] = x[i]
      BY Joined
    <3> QED BY <3>1
  <2> QED BY <2>1, <2>2 DEF OnWire
<1> QED BY <1>1, <1>2

LEMMA OnTail ==
    ASSUME NEW q \in Seq(Datagram), q # << >>, NEW e, OnWire(q, e)
    PROVE  Same(Head(q), e) \/ OnWire(Tail(q), e)
BY TailIsAmong DEF OnWire

(* More on the wires, nothing else told, and no new words of clean talkers *)
(* but those of n that are on their way.                                   *)
LEMMA MoreOnTheWires ==
    ASSUME IInv, SaidInv, UNCHANGED <<net, told>>, clean' \subseteq Speaker,
           said' \in [Speaker -> SUBSET (ToldKind \X Nat)],
           \A l \in Link, e \in Datagram : OnWire(wire[l], e) => OnWire(wire'[l], e),
           \A e \in Datagram : e.talker \in clean' /\ <<e.kind, e.nr>> \in said'[e.talker] =>
               \/ e.talker \in clean /\ <<e.kind, e.nr>> \in said[e.talker]
               \/ \A h, r \in Node : /\ Delivers(net, e.talker, e.kind, h, r)
                                     /\ Heard(told, h, e)
                                     => OnWire(wire'[<<h, r>>], e)
    PROVE  SaidInv'
<1>1. ASSUME NEW e \in Datagram, e.talker \in clean', <<e.kind, e.nr>> \in said'[e.talker],
             NEW h \in Node, NEW r \in Node, Delivers(net, e.talker, e.kind, h, r),
             Heard(told, h, e)
      PROVE  Heard(told, r, e) \/ OnWire(wire'[<<h, r>>], e)
  <2>0. <<h, r>> \in Link
    BY DEF Link
  <2>1. CASE e.talker \in clean /\ <<e.kind, e.nr>> \in said[e.talker]
    <3>1. Heard(told, r, e) \/ OnWire(wire[<<h, r>>], e)
      BY <1>1, <2>1 DEF SaidInv, Comes
    <3> QED BY <2>0, <3>1
  <2> QED BY <1>1, <2>1
<1> QED BY <1>1 DEF SaidInv, Comes

LEMMA ReceiveKeepsSaid ==
    ASSUME IInv, OnceInv, SaidInv, NEW h \in Node, NEW n \in Node, Receive(h, n),
           IsIpAllowed(net.peers[n], h)
    PROVE  SaidInv'
<1> DEFINE c == <<h, n>>
           m0 == Head(wire[c])
           m == Translated(n, m0, h)
           rest == [wire EXCEPT ![c] = Tail(@)]
           note == [kind |-> m.kind, tg |-> m.tg, talker |-> m.talker, nr |-> m.nr]
<1>1. /\ m \in Datagram /\ Same(m0, m)
      /\ n # m.talker /\ Via(m)[n] = h
      /\ m.tg \in NumbersAt(net, m.talker, m.kind, n)
      /\ wire' = Sent(rest, n, Resend(n, m, h)) /\ Broadcast(n, m)
  BY TakenFacts
<1>2. /\ c \in Link /\ wire[c] # << >> /\ net \in Network
      /\ UNCHANGED <<net, said, clean>>
  BY DEF Receive, Link, IInv
<1>3. \A l \in Link : rest[l] \in Seq(Datagram) /\ wire[l] \in Seq(Datagram)
  BY <1>2, RestFacts, WiresAreTyped
<1>4. \A l \in Link : rest[l] = IF l = c THEN Tail(wire[l]) ELSE wire[l]
  BY <1>2 DEF IInv, Routed
<1> HIDE DEF rest, m
<1>5. told \in [Node -> SUBSET Datagram]
  BY DEF IInv
<1>6. Same(note, m) /\ note.kind = m.kind
  BY DEF Same
<1>7. /\ m.kind \notin ToldKind => told' = told
      /\ m.kind \in ToldKind => told' = [told EXCEPT ![n] = @ \cup {note}]
  BY <1>1 DEF Broadcast, ToldKind, Datagram, Kind
<1> HIDE DEF note
<1>8. \A k \in Node : told[k] \subseteq told'[k]
  BY <1>5, <1>7
<1>9. \A l \in Link : /\ Added(n, Resend(n, m, h), l) \in Seq(Datagram)
                      /\ wire'[l] = rest[l] \o Added(n, Resend(n, m, h), l)
  <2>1. ASSUME NEW l \in Link
        PROVE  /\ Added(n, Resend(n, m, h), l) \in Seq(Datagram)
               /\ wire'[l] = rest[l] \o Added(n, Resend(n, m, h), l)
    <3>1. Added(n, Resend(n, m, h), l) \in Seq(Datagram)
      BY <1>1, <1>2, ResentAdded
    <3>2. Sent(rest, n, Resend(n, m, h))[l] = rest[l] \o Added(n, Resend(n, m, h), l)
      BY <1>3, SentAdds
    <3> QED BY <1>1, <3>1, <3>2
  <2> QED BY <2>1
<1>10. ASSUME NEW e \in Datagram, e.talker \in clean, <<e.kind, e.nr>> \in said[e.talker],
              NEW h1 \in Node, NEW r1 \in Node, Delivers(net, e.talker, e.kind, h1, r1),
              Heard(told', h1, e)
       PROVE  Heard(told', r1, e) \/ OnWire(wire'[<<h1, r1>>], e)
  <2> DEFINE l == <<h1, r1>>
             x == Added(n, Resend(n, m, h), l)
  <2>0. l \in Link /\ e.kind \in ToldKind
    BY <1>10 DEF Link, SaidInv
  <2>1. CASE Heard(told, h1, e)
    <3>1. Heard(told, r1, e) \/ OnWire(wire[l], e)
      BY <1>10, <2>1 DEF SaidInv, Comes
    <3>2. CASE Heard(told, r1, e)
      BY <1>8, <3>2, HeardGrows
    <3>3. CASE OnWire(rest[l], e)
      BY <1>3, <1>9, <2>0, <3>3, OnWireGrows
    <3>4. CASE OnWire(wire[l], e) /\ ~OnWire(rest[l], e)
      <4>1. l = c /\ ~OnWire(Tail(wire[c]), e)
        BY <1>4, <2>0, <3>4
      <4>2. Same(m0, e) /\ r1 = n
        BY <1>2, <1>3, <3>4, <4>1, OnTail
      <4>3. Same(m, e) /\ m.kind \in ToldKind
        BY <1>1, <2>0, <4>2 DEF Same
      <4>4. note \in told'[n] /\ Same(note, e)
        BY <1>5, <1>6, <1>7, <4>3 DEF Same
      <4> QED BY <4>2, <4>4 DEF Heard
    <3> QED BY <3>1, <3>2, <3>3, <3>4
  <2>2. CASE ~Heard(told, h1, e)
    <3>1. PICK t \in told'[h1] : Same(t, e) /\ t \notin told[h1]
      BY <1>10, <2>2 DEF Heard
    <3>2. h1 = n /\ t = note
      BY <1>5, <1>7, <3>1
    <3>3. Same(m, e) /\ e.talker = m.talker /\ e.kind = m.kind
      BY <1>6, <3>1, <3>2 DEF Same
    <3>4. Delivers(net, m.talker, m.kind, n, r1)
      BY <1>10, <3>2, <3>3
    <3>5. x = <<m>>
      BY <1>1, <1>2, <3>2, <3>4, TakenIsPassedOn
    <3> HIDE DEF x
    <3>6. OnWire(x, e)
      BY <3>3, <3>5 DEF OnWire
    <3>7. OnWire(rest[l] \o x, e)
      BY <1>3, <1>9, <2>0, <3>6, OnWireGrows DEF x
    <3> QED BY <1>9, <2>0, <3>7 DEF x
  <2> QED BY <2>1, <2>2
<1> QED BY <1>2, <1>10 DEF SaidInv, Comes

LEMMA SaidInvInit == Init => SaidInv
BY DEF Init, SaidInv

LEMMA SaidInvNext == IInv /\ OnceInv /\ SaidInv /\ [Next]_vars => SaidInv'
<1> SUFFICES ASSUME IInv, OnceInv, SaidInv, [Next]_vars PROVE SaidInv'
  OBVIOUS
<1>0. /\ clean \subseteq Speaker /\ said \in [Speaker -> SUBSET (ToldKind \X Nat)]
      /\ sent \in Nat /\ sent + 1 \in Nat
      /\ wire = [l \in Link |-> wire[l]]
      /\ \A l \in Link : wire[l] \in Seq(Datagram)
  BY WiresAreTyped DEF IInv, SaidInv, Routed
(* Own messages only add to what is on the wires. *)
<1>1. ASSUME NEW n \in Speaker, NEW ms, OwnMsgs(n, ms),
             wire' = Sent(wire, n, WidthRemap(n, ms))
      PROVE  /\ \A l \in Link : /\ wire'[l] = wire[l] \o Added(n, WidthRemap(n, ms), l)
                                /\ Added(n, WidthRemap(n, ms), l) \in Seq(Datagram)
             /\ \A l \in Link, e \in Datagram : OnWire(wire[l], e) => OnWire(wire'[l], e)
  <2>1. ASSUME NEW l \in Link
        PROVE  /\ wire'[l] = wire[l] \o Added(n, WidthRemap(n, ms), l)
               /\ Added(n, WidthRemap(n, ms), l) \in Seq(Datagram)
    <3>1. Sent(wire, n, WidthRemap(n, ms))[l] = wire[l] \o Added(n, WidthRemap(n, ms), l)
      <4>1. wire[l] \in Seq(Datagram)
        BY <1>0, <2>1
      <4> QED BY <4>1, <2>1, SentAdds
    <3>2. Added(n, WidthRemap(n, ms), l) \in Seq(Datagram)
      BY <1>1, OwnAdded
    <3> QED BY <1>1, <3>1, <3>2
  <2>2. ASSUME NEW l \in Link, NEW e \in Datagram, OnWire(wire[l], e) PROVE OnWire(wire'[l], e)
    BY <1>0, <2>1, <2>2, OnWireGrows
  <2> QED BY <2>1, <2>2
(* New words of n. *)
<1>2. ASSUME NEW n \in Speaker, NEW ms, OwnMsgs(n, ms),
             wire' = Sent(wire, n, WidthRemap(n, ms)),
             NEW i \in DOMAIN ms, NEW kind \in ToldKind, ms[i].kind = kind,
             said' = [said EXCEPT ![n] = @ \cup {<<kind, sent + 1>>}],
             UNCHANGED <<net, told, clean>>
      PROVE  SaidInv'
  <2>1. said' \in [Speaker -> SUBSET (ToldKind \X Nat)]
    BY <1>0, <1>2
  <2>2. ASSUME NEW e \in Datagram, e.talker \in clean', <<e.kind, e.nr>> \in said'[e.talker]
        PROVE  \/ e.talker \in clean /\ <<e.kind, e.nr>> \in said[e.talker]
               \/ \A h, r \in Node : /\ Delivers(net, e.talker, e.kind, h, r)
                                     /\ Heard(told, h, e)
                                     => OnWire(wire'[<<h, r>>], e)
    <3>1. CASE <<e.kind, e.nr>> \in said[e.talker]
      BY <1>2, <2>2, <3>1
    <3>2. CASE <<e.kind, e.nr>> \notin said[e.talker]
      <4>1. e.talker = n /\ e.kind = kind /\ e.nr = sent + 1
        BY <1>0, <1>2, <2>2, <3>2
      <4>2. Same(ms[i], e)
        BY <1>2, <4>1 DEF Same, OwnMsgs
      <4>3. ASSUME NEW h \in Node, NEW r \in Node, Delivers(net, e.talker, e.kind, h, r),
                   Heard(told, h, e)
            PROVE  OnWire(wire'[<<h, r>>], e)
        <5> DEFINE x == Added(n, WidthRemap(n, ms), <<h, r>>)
        <5>1. h = n
          BY <4>1, <4>3, NewIsFresh
        <5>2. kind \in Kind /\ <<h, r>> \in Link
          BY DEF ToldKind, Kind, Link
        <5>3. DOMAIN x = DOMAIN ms /\ Same(x[i], ms[i])
          BY <1>2, <4>1, <4>3, <5>1, <5>2, OwnIsSent
        <5>4. OnWire(x, e)
          <6> HIDE DEF x
          <6>1. Same(x[i], e) /\ i \in DOMAIN x
            BY <4>2, <5>3 DEF Same
          <6> QED BY <6>1 DEF OnWire
        <5>5. x \in Seq(Datagram) /\ wire'[<<h, r>>] = wire[<<h, r>>] \o x
          BY <1>1, <1>2, <5>2
        <5> HIDE DEF x
        <5> QED BY <1>0, <5>2, <5>4, <5>5, OnWireGrows
      <4> QED BY <4>3
    <3> QED BY <3>1, <3>2
  <2>3. \A l \in Link, e \in Datagram : OnWire(wire[l], e) => OnWire(wire'[l], e)
    BY <1>1, <1>2
  <2>4. clean' \subseteq Speaker
    BY <1>0, <1>2
  <2> QED BY <1>2, <2>1, <2>2, <2>3, <2>4, MoreOnTheWires
<1>3. ASSUME NEW n \in Speaker, TalkerStart(n) PROVE SaidInv'
  <2>1. OwnMsgs(n, <<OwnMsg(n, "start")>>)
    BY OneOwnMsg DEF Kind
  <2>2. /\ wire' = Sent(wire, n, WidthRemap(n, <<OwnMsg(n, "start")>>))
        /\ said' = [said EXCEPT ![n] = {}]
        /\ clean' \subseteq clean \cup {n}
        /\ UNCHANGED <<net, told>>
    BY <1>3 DEF TalkerStart
  <2>3. \A l \in Link, e \in Datagram : OnWire(wire[l], e) => OnWire(wire'[l], e)
    BY <1>1, <2>1, <2>2
  <2>4. /\ said' \in [Speaker -> SUBSET (ToldKind \X Nat)] /\ clean' \subseteq Speaker
        /\ \A e \in Datagram : e.talker \in clean' /\ <<e.kind, e.nr>> \in said'[e.talker]
             => e.talker \in clean /\ <<e.kind, e.nr>> \in said[e.talker]
    BY <1>0, <2>2
  <2> QED BY <2>2, <2>3, <2>4, MoreOnTheWires
<1>4. ASSUME NEW n \in Speaker, TalkerStop(n) PROVE SaidInv'
  <2>1. OwnMsgs(n, <<OwnMsg(n, "stop")>>)
    BY OneOwnMsg DEF Kind
  <2>2. /\ wire' = Sent(wire, n, WidthRemap(n, <<OwnMsg(n, "stop")>>))
        /\ UNCHANGED <<net, told, said, clean>>
    BY <1>4 DEF TalkerStop
  <2>3. \A l \in Link, e \in Datagram : OnWire(wire[l], e) => OnWire(wire'[l], e)
    BY <1>1, <2>1, <2>2
  <2> QED BY <1>0, <2>2, <2>3, MoreOnTheWires
<1>5. ASSUME NEW n \in Speaker, Flush(n) PROVE SaidInv'
  <2>1. PICK ms : /\ OwnMsgs(n, ms) /\ wire' = Sent(wire, n, WidthRemap(n, ms))
                  /\ \E i \in DOMAIN ms : ms[i].kind = "flush"
    <3>1. LET ms == <<OwnMsg(n, "stop"), OwnMsg(n, "flush")>> IN
          OwnMsgs(n, ms) /\ DOMAIN ms = {1, 2} /\ ms[2].kind = "flush"
      BY TwoOwnMsgs
    <3>2. wire' = Sent(wire, n, WidthRemap(n, <<OwnMsg(n, "stop"), OwnMsg(n, "flush")>>))
      BY <1>5 DEF Flush
    <3> QED BY <3>1, <3>2
  <2>2. /\ UNCHANGED <<net, told, clean>>
        /\ said' = [said EXCEPT ![n] = @ \cup {<<"flush", sent + 1>>}]
    BY <1>5 DEF Flush
  <2> QED BY <1>2, <2>1, <2>2 DEF ToldKind
<1>6. ASSUME NEW n \in Speaker, NEW kind \in {"audio", "qsy", "flush"}, Say(n, kind) PROVE SaidInv'
  <2> DEFINE ms == <<OwnMsg(n, kind)>>
  <2>1. OwnMsgs(n, ms) /\ DOMAIN ms = {1} /\ ms[1].kind = kind
    BY OneOwnMsg DEF Kind
  <2>2. /\ wire' = Sent(wire, n, WidthRemap(n, ms))
        /\ UNCHANGED <<net, told, clean>>
        /\ said' = [said EXCEPT ![n] = @ \cup {<<kind, sent + 1>>}]
    BY <1>6 DEF Say
  <2>3. kind \in ToldKind /\ 1 \in DOMAIN ms
    BY <2>1 DEF ToldKind
  <2> HIDE DEF ms
  <2> QED BY <1>2, <2>1, <2>2, <2>3
<1>7. ASSUME NEW h \in Node, NEW n \in Node, Receive(h, n) PROVE SaidInv'
  <2>1. CASE IsIpAllowed(net.peers[n], h)
    BY <1>7, <2>1, ReceiveKeepsSaid
  <2>2. CASE ~IsIpAllowed(net.peers[n], h)
    <3>1. /\ wire' = [wire EXCEPT ![<<h, n>>] = Tail(@)]
          /\ UNCHANGED <<net, told, said, clean>>
      BY <1>7, <2>2 DEF Receive
    <3>2. ASSUME NEW e \in Datagram, e.talker \in clean, <<e.kind, e.nr>> \in said[e.talker],
                 NEW h1 \in Node, NEW r1 \in Node, Delivers(net, e.talker, e.kind, h1, r1),
                 Heard(told, h1, e)
          PROVE  Heard(told, r1, e) \/ OnWire(wire'[<<h1, r1>>], e)
      <4>1. Heard(told, r1, e) \/ OnWire(wire[<<h1, r1>>], e)
        BY <3>2 DEF SaidInv, Comes
      <4>2. Takes(<<h1, r1>>)
        BY <3>2 DEF Delivers, Takes
      <4>3. <<h1, r1>> # <<h, n>>
        BY <2>2, <4>2 DEF Takes
      <4>4. wire'[<<h1, r1>>] = wire[<<h1, r1>>]
        BY <1>0, <3>1, <4>3 DEF Link
      <4> QED BY <4>1, <4>4
    <3> QED BY <3>1, <3>2 DEF SaidInv, Comes
  <2> QED BY <2>1, <2>2
<1>8. ASSUME NEW k \in Link, Lose(k) PROVE SaidInv'
  <2>1. /\ wire[k] # << >> /\ wire' = [wire EXCEPT ![k] = Tail(@)]
        /\ clean' = clean \ {Head(wire[k]).talker}
        /\ UNCHANGED <<net, told, said>>
    BY <1>8 DEF Lose
  <2>2. ASSUME NEW e \in Datagram, e.talker \in clean', <<e.kind, e.nr>> \in said[e.talker],
               NEW h1 \in Node, NEW r1 \in Node, Delivers(net, e.talker, e.kind, h1, r1),
               Heard(told, h1, e)
        PROVE  Heard(told, r1, e) \/ OnWire(wire'[<<h1, r1>>], e)
    <3>0. <<h1, r1>> \in Link
      BY DEF Link
    <3>1. Heard(told, r1, e) \/ OnWire(wire[<<h1, r1>>], e)
      BY <2>1, <2>2 DEF SaidInv, Comes
    <3>2. ~Same(Head(wire[k]), e)
      BY <2>1, <2>2 DEF Same
    <3>3. OnWire(wire[k], e) => OnWire(Tail(wire[k]), e)
      BY <1>0, <2>1, <3>2, OnTail
    <3>4. OnWire(wire[<<h1, r1>>], e) => OnWire(wire'[<<h1, r1>>], e)
      BY <1>0, <2>1, <3>0, <3>3
    <3> QED BY <3>1, <3>4
  <2> QED BY <2>1, <2>2 DEF SaidInv, Comes
<1>9. ASSUME NEW k \in Link, Overtake(k) PROVE SaidInv'
  <2> DEFINE q == wire[k]
             z == <<q[2], q[1]>> \o SubSeq(q, 3, Len(q))
  <2>1. /\ Len(q) > 1 /\ wire' = [wire EXCEPT ![k] = z]
        /\ clean' \subseteq clean
        /\ UNCHANGED <<net, told, said>>
    BY <1>9 DEF Overtake
  <2>2. /\ DOMAIN z = DOMAIN q /\ 1 \in DOMAIN q /\ 2 \in DOMAIN q
        /\ z[1] = q[2] /\ z[2] = q[1] /\ \A i \in DOMAIN q \ {1, 2} : z[i] = q[i]
    BY <1>0, <2>1, SwapIsAmong
  <2> HIDE DEF z, q
  <2>3. \A e : OnWire(q, e) => OnWire(z, e)
    BY <2>2 DEF OnWire
  <2>4. \A l \in Link, e \in Datagram : OnWire(wire[l], e) => OnWire(wire'[l], e)
    BY <1>0, <2>1, <2>3 DEF q
  <2> QED BY <1>0, <2>1, <2>4, MoreOnTheWires
<1>10. CASE UNCHANGED vars \/ \E n \in Speaker : TalkerGoes(n)
  BY <1>0, <1>10, MoreOnTheWires DEF vars, TalkerGoes
<1> QED BY <1>3, <1>4, <1>5, <1>6, <1>7, <1>8, <1>9, <1>10 DEF Next

(* A settled turn has been heard wherever it is meant to come: what the    *)
(* relays hold back comes on another way, and nothing else is missing.     *)
THEOREM SettledIsHeard == Spec => []AllAreReached
<1>1. ASSUME IInv, SaidInv PROVE AllAreReached
  <2>1. ASSUME NEW n \in Speaker, Settled(n), NEW r \in Node, NEW s \in said[n],
               <<n, r>> \in net.reach
        PROVE  \E m \in told[r] : m.talker = n /\ <<m.kind, m.nr>> = s
    <3> DEFINE e == [kind |-> s[1], tg |-> net.number[n], talker |-> n, nr |-> s[2]]
               S == {k \in Node : Heard(told, k, e)}
    <3>1. s \in ToldKind \X Nat /\ n \in Node /\ net \in Network
      BY <1>1, BoundAssumption DEF SaidInv, IInv
    <3>2. s = <<s[1], s[2]>> /\ s[1] \in ToldKind /\ s[1] \in Kind /\ s[2] \in Nat
      BY <3>1 DEF ToldKind, Kind
    <3>3. e \in Datagram /\ e.kind = s[1] /\ e.talker = n /\ e.nr = s[2]
      BY <3>1, <3>2, NetworkAssumption DEF Datagram
    <3> HIDE DEF e
    <3>4. n \in clean /\ \A l \in Link : ~OnWire(wire[l], e)
      BY <2>1, <3>3 DEF Settled, InFlight, OnWire, Same
    <3>5. n \in S /\ S \in SUBSET Node
      BY <3>1, <3>3 DEF Heard
    <3>6. ASSUME NEW h \in S, NEW k \in Node, Delivers(net, n, s[1], h, k) PROVE k \in S
      <4>1. Heard(told, k, e) \/ OnWire(wire[<<h, k>>], e)
        BY <1>1, <2>1, <3>2, <3>3, <3>4, <3>6 DEF SaidInv, Comes
      <4> QED BY <3>4, <3>6, <4>1 DEF Link
    <3> HIDE DEF S
    <3>7. r \in S \ {n}
      BY <2>1, <3>1, <3>2, <3>5, <3>6, ReachAssumption
    <3>8. PICK t \in told[r] : Same(t, e)
      BY <3>3, <3>7 DEF S, Heard
    <3> QED BY <3>2, <3>3, <3>8 DEF Same
  <2> QED BY <2>1 DEF AllAreReached
<1> QED BY <1>1, IInvInit, IInvNext, OnceInvInit, OnceInvNext, SaidInvInit, SaidInvNext, PTL DEF Spec

-----------------------------------------------------------------------------
(* What a display becomes when datagrams are added, taken or swapped. *)
LEMMA TurnAdded ==
    ASSUME NEW q \in Seq(Datagram), NEW x \in Seq(Datagram), NEW s, NEW v,
           1 \in DOMAIN x, Turn(x[1], s), \A i \in DOMAIN x : Turn(x[i], s) => i = 1
    PROVE  Follows(q \o x, s, v, x[1].kind = "start") /\ Pending(q \o x, s)
<1> DEFINE y == q \o x
<1>1. /\ Len(q) \in Nat /\ DOMAIN q = 1 .. Len(q) /\ DOMAIN x \subseteq Nat
      /\ DOMAIN y \subseteq Nat
  BY Joined, LenProperties
<1>2. Len(q) + 1 \in DOMAIN y /\ y[Len(q) + 1] = x[1]
  BY Joined
<1>3. \A i \in DOMAIN y : \/ i \in DOMAIN q /\ y[i] = q[i]
                          \/ i - Len(q) \in DOMAIN x /\ y[i] = x[i - Len(q)]
  BY Joined
<1> HIDE DEF y
<1>4. Pending(y, s)
  BY <1>2 DEF Pending
<1>5. ASSUME NEW i \in DOMAIN y, Turn(y[i], s), \A j \in DOMAIN y : Turn(y[j], s) => j <= i
      PROVE  y[i] = x[1]
  <2>1. Len(q) + 1 <= i
    BY <1>2, <1>5
  <2>2. i \notin DOMAIN q
    BY <1>1, <2>1
  <2>3. i - Len(q) = 1
    BY <1>3, <1>5, <2>2
  <2> QED BY <1>3, <2>2, <2>3
<1>6. Follows(y, s, v, x[1].kind = "start")
  BY <1>4, <1>5 DEF Follows
<1> QED BY <1>4, <1>6 DEF y

LEMMA NoTurnAdded ==
    ASSUME NEW q \in Seq(Datagram), NEW x \in Seq(Datagram), NEW s, NEW v, NEW w,
           ~Pending(x, s)
    PROVE  /\ Follows(q, s, v, w) => Follows(q \o x, s, v, w)
           /\ Pending(q, s) => Pending(q \o x, s)
<1> DEFINE y == q \o x
<1>1. /\ \A i \in DOMAIN q : i \in DOMAIN y /\ y[i] = q[i]
      /\ \A i \in DOMAIN y : \/ i \in DOMAIN q /\ y[i] = q[i]
                             \/ i - Len(q) \in DOMAIN x /\ y[i] = x[i - Len(q)]
  BY Joined
<1> HIDE DEF y
<1>2. \A i \in DOMAIN y : Turn(y[i], s) => i \in DOMAIN q /\ y[i] = q[i]
  BY <1>1 DEF Pending
<1>3. Pending(q, s) <=> Pending(y, s)
  BY <1>1, <1>2 DEF Pending
<1>4. ASSUME Follows(q, s, v, w) PROVE Follows(y, s, v, w)
  <2>1. ASSUME NEW i \in DOMAIN y, Turn(y[i], s), \A j \in DOMAIN y : Turn(y[j], s) => j <= i
        PROVE  w <=> y[i].kind = "start"
    <3>1. i \in DOMAIN q /\ y[i] = q[i] /\ Turn(q[i], s)
      BY <1>2, <2>1
    <3>2. \A j \in DOMAIN q : Turn(q[j], s) => j <= i
      BY <1>1, <2>1
    <3>3. w <=> q[i].kind = "start"
      BY <1>4, <3>1, <3>2 DEF Follows
    <3> QED BY <3>1, <3>3
  <2> QED BY <1>3, <1>4, <2>1 DEF Follows
<1> QED BY <1>3, <1>4 DEF y

LEMMA TurnTaken ==
    ASSUME NEW q \in Seq(Datagram), q # << >>, NEW s, NEW v, NEW w,
           Turn(Head(q), s), Follows(q, s, v, w)
    PROVE  Follows(Tail(q), s, Head(q).kind = "start", w)
<1> DEFINE t == Tail(q)
<1>1. /\ Head(q) = q[1] /\ 1 \in DOMAIN q /\ DOMAIN q \subseteq Nat
      /\ \A i \in DOMAIN t : i + 1 \in DOMAIN q /\ t[i] = q[i + 1] /\ i \in Nat \ {0}
      /\ \A i \in DOMAIN q : i = 1 \/ (i - 1 \in DOMAIN t /\ t[i - 1] = q[i])
  BY TailIsAmong, LenProperties
<1> HIDE DEF t
<1>2. ASSUME ~Pending(t, s) PROVE q[1].kind = "start" <=> w
  <2>1. \A j \in DOMAIN q : Turn(q[j], s) => j <= 1
    BY <1>1, <1>2 DEF Pending
  <2> QED BY <1>1, <2>1 DEF Follows
<1>3. ASSUME NEW i \in DOMAIN t, Turn(t[i], s), \A j \in DOMAIN t : Turn(t[j], s) => j <= i
      PROVE  w <=> t[i].kind = "start"
  <2>1. i + 1 \in DOMAIN q /\ t[i] = q[i + 1] /\ i \in Nat \ {0}
    BY <1>1, <1>3
  <2>2. ASSUME NEW j \in DOMAIN q, Turn(q[j], s) PROVE j <= i + 1
    <3>1. CASE j = 1
      BY <2>1, <3>1
    <3>2. CASE j # 1
      <4>1. j - 1 \in DOMAIN t /\ Turn(t[j - 1], s) /\ j \in Nat
        BY <1>1, <2>2, <3>2
      <4>2. j - 1 <= i
        BY <1>3, <4>1
      <4> QED BY <2>1, <4>1, <4>2
    <3> QED BY <3>1, <3>2
  <2> QED BY <1>3, <2>1, <2>2 DEF Follows
<1>4. Follows(t, s, q[1].kind = "start", w)
  BY <1>2, <1>3 DEF Follows
<1> QED BY <1>1, <1>4 DEF t

LEMMA NoTurnTaken ==
    ASSUME NEW q \in Seq(Datagram), q # << >>, NEW s, NEW v, NEW w, ~Turn(Head(q), s)
    PROVE  /\ Follows(q, s, v, w) => Follows(Tail(q), s, v, w)
           /\ Pending(q, s) => Pending(Tail(q), s)
<1> DEFINE t == Tail(q)
<1>1. /\ Head(q) = q[1] /\ 1 \in DOMAIN q /\ DOMAIN q \subseteq Nat
      /\ \A i \in DOMAIN t : i + 1 \in DOMAIN q /\ t[i] = q[i + 1] /\ i \in Nat \ {0}
      /\ \A i \in DOMAIN q : i = 1 \/ (i - 1 \in DOMAIN t /\ t[i - 1] = q[i])
  BY TailIsAmong, LenProperties
<1> HIDE DEF t
<1>2. Pending(q, s) <=> Pending(t, s)
  <2>1. ASSUME Pending(q, s) PROVE Pending(t, s)
    BY <1>1, <2>1 DEF Pending
  <2>2. ASSUME Pending(t, s) PROVE Pending(q, s)
    BY <1>1, <2>2 DEF Pending
  <2> QED BY <2>1, <2>2
<1>3. ASSUME Follows(q, s, v, w),
             NEW i \in DOMAIN t, Turn(t[i], s), \A j \in DOMAIN t : Turn(t[j], s) => j <= i
      PROVE  w <=> t[i].kind = "start"
  <2>1. i + 1 \in DOMAIN q /\ t[i] = q[i + 1] /\ i \in Nat \ {0}
    BY <1>1, <1>3
  <2>2. ASSUME NEW j \in DOMAIN q, Turn(q[j], s) PROVE j <= i + 1
    <3>1. j - 1 \in DOMAIN t /\ Turn(t[j - 1], s) /\ j \in Nat
      BY <1>1, <2>2
    <3>2. j - 1 <= i
      BY <1>3, <3>1
    <3> QED BY <2>1, <3>1, <3>2
  <2> QED BY <1>3, <2>1, <2>2 DEF Follows
<1>4. Follows(q, s, v, w) => Follows(t, s, v, w)
  BY <1>2, <1>3 DEF Follows
<1> QED BY <1>2, <1>4 DEF t

LEMMA NoTurnSwapped ==
    ASSUME NEW q \in Seq(Datagram), Len(q) > 1, NEW s, NEW v, NEW w,
           ~Turn(q[1], s), ~Turn(q[2], s)
    PROVE  LET z == <<q[2], q[1]>> \o SubSeq(q, 3, Len(q)) IN
           /\ Follows(q, s, v, w) => Follows(z, s, v, w)
           /\ Pending(q, s) => Pending(z, s)
<1> DEFINE z == <<q[2], q[1]>> \o SubSeq(q, 3, Len(q))
<1>1. /\ DOMAIN z = DOMAIN q /\ z[1] = q[2] /\ z[2] = q[1]
      /\ \A i \in DOMAIN q \ {1, 2} : z[i] = q[i]
  BY SwapIsAmong
<1> HIDE DEF z
<1>2. \A i \in DOMAIN q : /\ Turn(z[i], s) <=> Turn(q[i], s)
                          /\ Turn(z[i], s) => z[i] = q[i]
  BY <1>1
<1>3. Pending(q, s) <=> Pending(z, s)
  BY <1>1, <1>2 DEF Pending
<1>4. Follows(q, s, v, w) => Follows(z, s, v, w)
  BY <1>1, <1>2, <1>3 DEF Follows
<1> QED BY <1>3, <1>4 DEF z

-----------------------------------------------------------------------------
LEMMA OwnTurn ==
    ASSUME IInv, NEW n \in Speaker, NEW ms, OwnMsgs(n, ms),
           1 \in DOMAIN ms, ms[1].kind \in {"start", "stop"},
           \A i \in DOMAIN ms : ms[i].kind \in {"start", "stop"} => i = 1,
           NEW r \in Node, Delivers(net, n, "start", n, r), NEW v
    PROVE  LET w == Sent(wire, n, WidthRemap(n, ms)) IN
           /\ Follows(w[<<n, r>>], n, v, ms[1].kind = "start")
           /\ Pending(w[<<n, r>>], n)
<1> DEFINE l == <<n, r>>
           out == WidthRemap(n, ms)
           x == Added(n, out, l)
<1>1. l \in Link /\ wire[l] \in Seq(Datagram)
  BY BoundAssumption, WiresAreTyped DEF Link
<1>2. Sent(wire, n, out)[l] = wire[l] \o x
  <2> HIDE DEF l, out
  <2> QED BY <1>1, SentAdds
<1>3. x \in Seq(Datagram)
  BY <1>1, OwnAdded
<1>4. DOMAIN x = DOMAIN ms /\ \A i \in DOMAIN ms : Same(x[i], ms[i])
  BY OwnIsSent DEF Kind
<1> HIDE DEF x, l
<1>5. /\ 1 \in DOMAIN x /\ Turn(x[1], n) /\ x[1].kind = ms[1].kind
      /\ \A i \in DOMAIN x : Turn(x[i], n) => i = 1
  BY <1>4 DEF Turn, Same, OwnMsgs
<1>6. /\ Follows(wire[l] \o x, n, v, x[1].kind = "start")
      /\ Pending(wire[l] \o x, n)
  BY <1>1, <1>3, <1>5, TurnAdded
<1> QED BY <1>2, <1>5, <1>6 DEF l

LEMMA OwnNoTurn ==
    ASSUME IInv, NEW n \in Speaker, NEW ms, OwnMsgs(n, ms), NEW l \in Link, NEW s,
           s # n \/ l[1] # n \/ \A i \in DOMAIN ms : ms[i].kind \notin {"start", "stop"},
           NEW v, NEW w
    PROVE  LET q == Sent(wire, n, WidthRemap(n, ms))[l] IN
           /\ Follows(wire[l], s, v, w) => Follows(q, s, v, w)
           /\ Pending(wire[l], s) => Pending(q, s)
<1> DEFINE x == Added(n, WidthRemap(n, ms), l)
<1>1. wire[l] \in Seq(Datagram)
  BY WiresAreTyped
<1>2. Sent(wire, n, WidthRemap(n, ms))[l] = wire[l] \o x
  <2> DEFINE out == WidthRemap(n, ms)
  <2> HIDE DEF out
  <2>1. Sent(wire, n, out)[l] = wire[l] \o Added(n, out, l)
    BY <1>1, SentAdds
  <2> QED BY <2>1 DEF out
<1>3. /\ x \in Seq(Datagram)
      /\ \/ x = << >>
         \/ /\ l[1] = n /\ DOMAIN x = DOMAIN ms
            /\ \A i \in DOMAIN x : x[i].kind = ms[i].kind /\ x[i].talker = n
  BY OwnAdded
<1> HIDE DEF x
<1>4. ~Pending(x, s)
  BY <1>3 DEF Pending, Turn
<1> QED BY <1>1, <1>2, <1>3, <1>4, NoTurnAdded

(* How a start or a stop is passed on does not depend on which it is. *)
LEMMA DeliversTurn ==
    ASSUME NEW s \in Speaker, NEW kind \in {"start", "stop"}, NEW h, NEW r,
           Delivers(net, s, "start", h, r)
    PROVE  Delivers(net, s, kind, h, r)
<1>1. (kind = "qsy") = FALSE /\ ("start" = "qsy") = FALSE
  OBVIOUS
<1>2. NumbersAt(net, s, kind, h) = NumbersAt(net, s, "start", h)
  BY DEF NumbersAt
<1> QED BY <1>1, <1>2 DEF Delivers

LEMMA ReceiveKeepsCaught ==
    ASSUME IInv, OnceInv, NEW h \in Node, NEW n \in Node, Receive(h, n),
           IsIpAllowed(net.peers[n], h),
           NEW s \in Speaker, NEW F \in SUBSET (Node \ {s}), Caught(s, F)
    PROVE  \E F2 \in SUBSET (Node \ {s}) : Caught(s, F2)'
<1> DEFINE c == <<h, n>>
           m0 == Head(wire[c])
           m == Translated(n, m0, h)
           rest == [wire EXCEPT ![c] = Tail(@)]
<1>1. /\ m \in Datagram /\ m.kind = m0.kind /\ m.talker = m0.talker
      /\ h # n /\ n # m.talker /\ Via(m)[n] = h
      /\ m.tg \in NumbersAt(net, m.talker, m.kind, n)
      /\ wire' = Sent(rest, n, Resend(n, m, h)) /\ Broadcast(n, m)
  BY TakenFacts
<1>2. /\ c \in Link /\ wire[c] # << >> /\ net \in Network
      /\ UNCHANGED <<net, Announced>>
  BY DEF Receive, Link, IInv, Announced
<1>3. \A l \in Link : rest[l] \in Seq(Datagram) /\ wire[l] \in Seq(Datagram)
  BY <1>2, RestFacts, WiresAreTyped
<1>4. \A l \in Link : rest[l] = IF l = c THEN Tail(wire[l]) ELSE wire[l]
  BY <1>2 DEF IInv, Routed
<1> HIDE DEF rest, m
<1>5. ASSUME NEW l \in Link
      PROVE  /\ Added(n, Resend(n, m, h), l) \in Seq(Datagram)
             /\ wire'[l] = rest[l] \o Added(n, Resend(n, m, h), l)
             /\ \/ Added(n, Resend(n, m, h), l) = << >>
                \/ Added(n, Resend(n, m, h), l) = <<m>> /\ l[1] = n
  <2> DEFINE out == Resend(n, m, h)
             x == Added(n, out, l)
  <2>1. x \in Seq(Datagram) /\ (x = << >> \/ (x = <<m>> /\ l[1] = n))
    BY <1>1, <1>2, ResentAdded
  <2>2. wire'[l] = rest[l] \o x
    <3> HIDE DEF out
    <3>1. Sent(rest, n, out)[l] = rest[l] \o Added(n, out, l)
      BY <1>3, SentAdds
    <3> QED BY <1>1, <3>1 DEF out
  <2> QED BY <2>1, <2>2
<1>6. /\ shown \in [Node -> SUBSET (Audience \X TG \X Speaker)]
      /\ net.number \in [Node -> TG]
  BY <1>2, NetworkAssumption DEF IInv
<1>7. CASE Turn(m, s)
  <2> DEFINE F2 == F \ {n}
             go == m.kind = "start"
  <2>1. m.talker = s /\ m.kind \in {"start", "stop"} /\ m.tg = net.number[n] /\ n # s
    BY <1>1, <1>7 DEF Turn, NumbersAt
  <2>2. /\ Shows(n, s)' <=> go
        /\ \A k \in Node \ {n} : Shows(k, s)' <=> Shows(k, s)
    <3>1. CASE m.kind = "start"
      <4>1. shown' = [shown EXCEPT ![n] = @ \cup (Audience \X {m.tg} \X {m.talker})]
        BY <1>1, <3>1 DEF Broadcast
      <4>2. <<"group", net.number[n], s>> \in shown'[n]
        BY <1>6, <2>1, <4>1 DEF Audience
      <4> QED BY <1>2, <1>6, <2>1, <3>1, <4>1, <4>2 DEF Shows
    <3>2. CASE m.kind = "stop"
      <4>1. shown' = [shown EXCEPT ![n] = @ \ (StopAudience \X {m.tg} \X {m.talker})]
        BY <1>1, <3>2 DEF Broadcast
      <4>2. <<"group", net.number[n], s>> \notin shown'[n]
        BY <1>6, <2>1, <4>1 DEF StopAudience
      <4> QED BY <1>2, <1>6, <2>1, <3>2, <4>1, <4>2 DEF Shows
    <3> QED BY <2>1, <3>1, <3>2
  <2>3. ASSUME NEW h1 \in Node, NEW r1 \in Node, Delivers(net, s, "start", h1, r1), h1 \notin F2
        PROVE  /\ Follows(wire'[<<h1, r1>>], s, Shows(r1, s)', Shows(h1, s)')
               /\ r1 \in F2 => Pending(wire'[<<h1, r1>>], s)
    <3> DEFINE l == <<h1, r1>>
               x == Added(n, Resend(n, m, h), l)
    <3>0. l \in Link /\ l[1] = h1
      BY DEF Link
    <3>1. CASE h1 = n
      <4>1. Delivers(net, m.talker, m.kind, n, r1)
        BY <2>1, <2>3, <3>1, DeliversTurn
      <4>2. x = <<m>>
        BY <1>1, <1>2, <3>1, <4>1, TakenIsPassedOn
      <4>3. x \in Seq(Datagram) /\ wire'[l] = rest[l] \o x
        BY <1>5, <3>0
      <4> HIDE DEF x
      <4>4. 1 \in DOMAIN x /\ x[1] = m /\ \A i \in DOMAIN x : i = 1
        BY <4>2
      <4>5. /\ Follows(rest[l] \o x, s, Shows(r1, s)', x[1].kind = "start")
            /\ Pending(rest[l] \o x, s)
        <5>1. rest[l] \in Seq(Datagram)
          BY <1>3, <3>0
        <5> QED BY <1>7, <4>3, <4>4, <5>1, TurnAdded
      <4>6. Follows(wire'[l], s, Shows(r1, s)', go) /\ Pending(wire'[l], s)
        BY <4>3, <4>4, <4>5
      <4>7. Follows(wire'[l], s, Shows(r1, s)', Shows(h1, s)')
        BY <2>2, <3>1, <4>6 DEF Follows
      <4> QED BY <4>6, <4>7
    <3>2. CASE h1 # n
      <4>1. /\ h1 \notin F
            /\ Follows(wire[l], s, Shows(r1, s), Shows(h1, s))
            /\ r1 \in F => Pending(wire[l], s)
        BY <2>3, <3>2 DEF Caught
      <4>2. x = << >>
        BY <1>5, <3>0, <3>2
      <4>3. wire'[l] = rest[l]
        BY <1>3, <1>5, <3>0, <4>2, ConcatEmptySeq
      <4>4. CASE l = c
        <5>1. h1 = h /\ r1 = n /\ rest[l] = Tail(wire[c])
          BY <1>4, <3>0, <4>4
        <5>2. Turn(m0, s)
          BY <1>1, <1>7 DEF Turn
        <5>3. Follows(Tail(wire[c]), s, m0.kind = "start", Shows(h1, s))
          BY <1>2, <1>3, <4>1, <4>4, <5>2, TurnTaken
        <5>4. Follows(Tail(wire[c]), s, Shows(r1, s)', Shows(h1, s)')
          BY <1>1, <2>2, <3>2, <5>1, <5>3 DEF Follows
        <5> QED BY <4>3, <5>1, <5>4
      <4>5. CASE l # c
        <5>1. rest[l] = wire[l]
          BY <1>4, <3>0, <4>5
        <5>2. r1 # n
          <6> DEFINE qsy == m.kind = "qsy"
          <6>1. qsy \in BOOLEAN /\ ~qsy
            BY <2>1
          <6>2. Way(net, s, qsy)[n] = h
            BY <1>1, <2>1 DEF Via
          <6> HIDE DEF qsy
          <6>3. Way(net, s, qsy)[r1] = h1
            BY <1>2, <2>3, <6>1, TurnComesFrom
          <6> QED BY <4>5, <6>2, <6>3
        <5>3. Follows(wire[l], s, Shows(r1, s)', Shows(h1, s)')
          BY <2>2, <3>2, <4>1, <5>2 DEF Follows
        <5> QED BY <4>1, <4>3, <5>1, <5>3
      <4> QED BY <4>4, <4>5
    <3> QED BY <3>1, <3>2
  <2>4. Caught(s, F2)'
    BY <1>2, <2>3 DEF Caught
  <2> QED BY <2>4
<1>8. CASE ~Turn(m, s)
  <2>1. \A k \in Node : Shows(k, s)' <=> Shows(k, s)
    <3>1. CASE m.kind = "start"
      <4>1. shown' = [shown EXCEPT ![n] = @ \cup (Audience \X {m.tg} \X {m.talker})]
        BY <1>1, <3>1 DEF Broadcast
      <4>2. m.talker # s
        BY <1>8, <3>1 DEF Turn
      <4> QED BY <1>2, <1>6, <4>1, <4>2 DEF Shows
    <3>2. CASE m.kind = "stop"
      <4>1. shown' = [shown EXCEPT ![n] = @ \ (StopAudience \X {m.tg} \X {m.talker})]
        BY <1>1, <3>2 DEF Broadcast
      <4>2. m.talker # s
        BY <1>8, <3>2 DEF Turn
      <4> QED BY <1>2, <1>6, <4>1, <4>2 DEF Shows
    <3>3. CASE m.kind \notin {"start", "stop"}
      <4>1. shown' = shown
        BY <1>1, <3>3 DEF Broadcast
      <4> QED BY <1>2, <4>1 DEF Shows
    <3> QED BY <3>1, <3>2, <3>3
  <2>2. ASSUME NEW h1 \in Node, NEW r1 \in Node, Delivers(net, s, "start", h1, r1), h1 \notin F
        PROVE  /\ Follows(wire'[<<h1, r1>>], s, Shows(r1, s)', Shows(h1, s)')
               /\ r1 \in F => Pending(wire'[<<h1, r1>>], s)
    <3> DEFINE l == <<h1, r1>>
               x == Added(n, Resend(n, m, h), l)
               v == Shows(r1, s)
               w == Shows(h1, s)
    <3>0. l \in Link
      BY DEF Link
    <3>1. /\ Follows(wire[l], s, v, w)
          /\ r1 \in F => Pending(wire[l], s)
      BY <2>2 DEF Caught
    <3>2. /\ Follows(rest[l], s, v, w)
          /\ r1 \in F => Pending(rest[l], s)
      <4>1. CASE l = c
        <5>1. ~Turn(m0, s) /\ rest[l] = Tail(wire[c])
          BY <1>1, <1>4, <1>8, <3>0, <4>1 DEF Turn
        <5>2. /\ Follows(wire[c], s, v, w) => Follows(Tail(wire[c]), s, v, w)
              /\ Pending(wire[c], s) => Pending(Tail(wire[c]), s)
          <6> HIDE DEF v, w
          <6> QED BY <1>2, <1>3, <5>1, NoTurnTaken
        <5> QED BY <3>1, <4>1, <5>1, <5>2
      <4>2. CASE l # c
        BY <1>4, <3>0, <3>1, <4>2
      <4> QED BY <4>1, <4>2
    <3>3. /\ rest[l] \in Seq(Datagram) /\ x \in Seq(Datagram) /\ wire'[l] = rest[l] \o x
          /\ x = << >> \/ x = <<m>>
      BY <1>3, <1>5, <3>0
    <3> HIDE DEF x, v, w
    <3>4. ~Pending(x, s)
      BY <1>8, <3>3 DEF Pending
    <3>5. /\ Follows(wire'[l], s, v, w)
          /\ r1 \in F => Pending(wire'[l], s)
      BY <3>2, <3>3, <3>4, NoTurnAdded
    <3>6. Follows(wire'[l], s, Shows(r1, s)', Shows(h1, s)')
      BY <2>1, <3>5 DEF Follows, v, w
    <3> QED BY <3>5, <3>6
  <2>3. Caught(s, F)'
    BY <1>2, <2>2 DEF Caught
  <2> QED BY <2>3
<1> QED BY <1>7, <1>8

LEMMA DisplayInvInit == Init => DisplayInv
<1> SUFFICES ASSUME Init PROVE DisplayInv
  OBVIOUS
<1>1. ASSUME NEW s \in Speaker PROVE Caught(s, {})
  <2>1. ASSUME NEW h \in Node, NEW r \in Node
        PROVE  Follows(wire[<<h, r>>], s, Shows(r, s), Shows(h, s))
    <3>1. DOMAIN wire[<<h, r>>] = {} /\ ~Shows(r, s) /\ ~Shows(h, s)
      BY DEF Init, Link, Shows, Announced
    <3> QED BY <3>1 DEF Follows, Pending
  <2> QED BY <2>1 DEF Caught
<1> QED BY <1>1 DEF Init, DisplayInv, MonitorSees

(* A step that leaves the displays alone keeps every link that still       *)
(* delivers what it did.                                                   *)
LEMMA QuietCaught ==
    ASSUME UNCHANGED <<net, shown>>, NEW s \in Speaker, s \in Announced' <=> s \in Announced,
           NEW F \in SUBSET (Node \ {s}), Caught(s, F),
           \A h, r \in Node : Delivers(net, s, "start", h, r) => \A v, w :
               /\ Follows(wire[<<h, r>>], s, v, w) => Follows(wire'[<<h, r>>], s, v, w)
               /\ Pending(wire[<<h, r>>], s) => Pending(wire'[<<h, r>>], s)
    PROVE  Caught(s, F)'
<1>1. \A k : Shows(k, s)' <=> Shows(k, s)
  BY DEF Shows
<1>2. ASSUME NEW h \in Node, NEW r \in Node, Delivers(net, s, "start", h, r), h \notin F
      PROVE  /\ Follows(wire'[<<h, r>>], s, Shows(r, s)', Shows(h, s)')
             /\ r \in F => Pending(wire'[<<h, r>>], s)
  <2>1. /\ Follows(wire[<<h, r>>], s, Shows(r, s), Shows(h, s))
        /\ r \in F => Pending(wire[<<h, r>>], s)
    BY <1>2 DEF Caught
  <2>2. /\ Follows(wire'[<<h, r>>], s, Shows(r, s), Shows(h, s))
        /\ r \in F => Pending(wire'[<<h, r>>], s)
    BY <1>2, <2>1
  <2> QED BY <1>1, <2>2 DEF Follows
<1> QED BY <1>2 DEF Caught

(* A turn of n begins or ends: its own links follow at once. *)
LEMMA OwnTurnCaught ==
    ASSUME IInv, NEW n \in Speaker, NEW ms, OwnMsgs(n, ms),
           1 \in DOMAIN ms, ms[1].kind \in {"start", "stop"},
           \A i \in DOMAIN ms : ms[i].kind \in {"start", "stop"} => i = 1,
           wire' = Sent(wire, n, WidthRemap(n, ms)), UNCHANGED <<net, shown>>,
           n \in Announced' <=> ms[1].kind = "start",
           NEW F \in SUBSET (Node \ {n}), Caught(n, F) \/ F = Node \ {n}
    PROVE  Caught(n, F)'
<1>1. ASSUME NEW h \in Node, NEW r \in Node, Delivers(net, n, "start", h, r), h \notin F
      PROVE  /\ Follows(wire'[<<h, r>>], n, Shows(r, n)', Shows(h, n)')
             /\ r \in F => Pending(wire'[<<h, r>>], n)
  <2>1. CASE h = n
    <3> DEFINE v == Shows(r, n)'
               go == ms[1].kind = "start"
    <3> HIDE DEF v
    <3>1. /\ Follows(wire'[<<n, r>>], n, v, go)
          /\ Pending(wire'[<<n, r>>], n)
      BY <1>1, <2>1, OwnTurn
    <3>2. Shows(h, n)' <=> go
      BY <2>1 DEF Shows
    <3>3. Follows(wire'[<<n, r>>], n, v, Shows(h, n)')
      BY <3>1, <3>2 DEF Follows
    <3> QED BY <2>1, <3>1, <3>3 DEF v
  <2>2. CASE h # n
    <3> DEFINE l == <<h, r>>
               v == Shows(r, n)
               w == Shows(h, n)
    <3>1. Caught(n, F)
      BY <1>1, <2>2
    <3>2. /\ Follows(wire[l], n, v, w)
          /\ r \in F => Pending(wire[l], n)
      BY <1>1, <3>1 DEF Caught
    <3>3. l \in Link /\ l[1] # n
      BY <2>2 DEF Link
    <3>4. r # n
      <4>1. net \in Network
        BY DEF IInv
      <4> QED BY <1>1, <4>1, TurnNeverReturns
    <3>5. (Shows(r, n)' <=> v) /\ (Shows(h, n)' <=> w)
      BY <2>2, <3>4 DEF Shows
    <3> HIDE DEF v, w, l
    <3>6. /\ Follows(wire'[l], n, v, w)
          /\ r \in F => Pending(wire'[l], n)
      BY <3>2, <3>3, OwnNoTurn
    <3>7. Follows(wire'[l], n, Shows(r, n)', Shows(h, n)')
      BY <3>5, <3>6 DEF Follows
    <3> QED BY <3>6, <3>7 DEF l
  <2> QED BY <2>1, <2>2
<1> QED BY <1>1 DEF Caught

(* The same for the other talkers, and for what is neither start nor stop. *)
LEMMA OwnOtherCaught ==
    ASSUME IInv, NEW n \in Speaker, NEW ms, OwnMsgs(n, ms),
           wire' = Sent(wire, n, WidthRemap(n, ms)), UNCHANGED <<net, shown>>,
           NEW s \in Speaker, s \in Announced' <=> s \in Announced,
           s # n \/ \A i \in DOMAIN ms : ms[i].kind \notin {"start", "stop"},
           NEW F \in SUBSET (Node \ {s}), Caught(s, F)
    PROVE  Caught(s, F)'
<1>1. ASSUME NEW h \in Node, NEW r \in Node, NEW v, NEW w
      PROVE  /\ Follows(wire[<<h, r>>], s, v, w) => Follows(wire'[<<h, r>>], s, v, w)
             /\ Pending(wire[<<h, r>>], s) => Pending(wire'[<<h, r>>], s)
  <2> DEFINE l == <<h, r>>
  <2>1. l \in Link
    BY DEF Link
  <2> HIDE DEF l
  <2>2. /\ Follows(wire[l], s, v, w) => Follows(wire'[l], s, v, w)
        /\ Pending(wire[l], s) => Pending(wire'[l], s)
    BY <2>1, OwnNoTurn
  <2> QED BY <2>2 DEF l
<1> QED BY <1>1, QuietCaught

LEMMA MonitorNext ==
    ASSUME IInv, MonitorSees, [Next]_vars
    PROVE  MonitorSees'
<1>1. ASSUME UNCHANGED <<net, shown>> PROVE MonitorSees'
  BY <1>1 DEF MonitorSees
<1>2. ASSUME NEW h \in Node, NEW k \in Node, Receive(h, k) PROVE MonitorSees'
  <2> DEFINE m == Translated(k, Head(wire[<<h, k>>]), h)
  <2>0. net' = net /\ shown \in [Node -> SUBSET (Audience \X TG \X Speaker)]
    BY <1>2 DEF Receive, IInv
  <2>1. shown' = shown \/ Broadcast(k, m)
    BY <1>2 DEF Receive
  <2> HIDE DEF m
  <2>2. CASE shown' = shown
    BY <1>1, <2>0, <2>2
  <2>3. CASE Broadcast(k, m) /\ m.kind = "start"
    <3>1. shown' = [shown EXCEPT ![k] = @ \cup (Audience \X {m.tg} \X {m.talker})]
      BY <2>3 DEF Broadcast
    <3> QED BY <2>0, <3>1 DEF MonitorSees, Audience
  <2>4. CASE Broadcast(k, m) /\ m.kind = "stop"
    <3>1. shown' = [shown EXCEPT ![k] = @ \ (StopAudience \X {m.tg} \X {m.talker})]
      BY <2>4 DEF Broadcast
    <3> QED BY <2>0, <3>1 DEF MonitorSees, StopAudience
  <2>5. CASE Broadcast(k, m) /\ m.kind \notin {"start", "stop"}
    <3>1. shown' = shown
      BY <2>5 DEF Broadcast
    <3> QED BY <1>1, <2>0, <3>1
  <2> QED BY <2>1, <2>2, <2>3, <2>4, <2>5
<1>3. CASE \E h, k \in Node : Receive(h, k)
  BY <1>2, <1>3
<1>4. CASE ~\E h, k \in Node : Receive(h, k)
  <2>1. UNCHANGED <<net, shown>>
    BY <1>4 DEF Next, TalkerStart, TalkerStop, TalkerGoes, Flush, Say, Lose, Overtake, vars
  <2> QED BY <1>1, <2>1
<1> QED BY <1>3, <1>4

LEMMA LinkKept ==
    ASSUME UNCHANGED <<net, Announced, shown>>, NEW s \in Speaker,
           NEW F \in SUBSET (Node \ {s}), Caught(s, F),
           \A l \in Link : \A v, w :
               /\ Follows(wire[l], s, v, w) => Follows(wire'[l], s, v, w)
               /\ Pending(wire[l], s) => Pending(wire'[l], s)
    PROVE  Caught(s, F)'
<1>1. \A h, r \in Node : <<h, r>> \in Link
  BY DEF Link
<1> QED BY <1>1, QuietCaught

LEMMA DisplayInvNext == IInv /\ OnceInv /\ DisplayInv /\ [Next]_vars => DisplayInv'
<1> SUFFICES ASSUME IInv, OnceInv, DisplayInv, [Next]_vars PROVE DisplayInv'
  OBVIOUS
<1>0. /\ wire = [l \in Link |-> wire[l]]
      /\ \A l \in Link : wire[l] \in Seq(Datagram)
      /\ clean \subseteq Speaker
      /\ \A s \in clean : \E F \in SUBSET (Node \ {s}) : Caught(s, F)
      /\ MonitorSees' /\ talking \cap gone = {}
  BY WiresAreTyped, MonitorNext DEF IInv, Routed, DisplayInv
<1>1. SUFFICES ASSUME NEW s \in Speaker, s \in clean'
               PROVE  \E F \in SUBSET (Node \ {s}) : Caught(s, F)'
  <2>1. clean' \subseteq Speaker
    BY <1>0 DEF Next, TalkerStart, TalkerStop, TalkerGoes, Flush, Say, Receive, Lose, Overtake, vars
  <2>2. talking' \cap gone' = {}
    BY <1>0 DEF Next, TalkerStart, TalkerStop, TalkerGoes, Flush, Say, Receive, Lose, Overtake, vars
  <2> QED BY <1>0, <1>1, <2>1, <2>2 DEF DisplayInv
(* n sends a start or a stop, and perhaps more that is neither. *)
<1>2. ASSUME NEW n \in Speaker, NEW ms, OwnMsgs(n, ms),
             1 \in DOMAIN ms, ms[1].kind \in {"start", "stop"},
             \A i \in DOMAIN ms : ms[i].kind \in {"start", "stop"} => i = 1,
             wire' = Sent(wire, n, WidthRemap(n, ms)), UNCHANGED <<net, shown>>,
             n \in Announced' <=> ms[1].kind = "start",
             \A k \in Speaker \ {n} : k \in Announced' <=> k \in Announced,
             clean' = clean \/ (ms[1].kind = "start" /\ clean' = clean \cup {n})
      PROVE  \E F \in SUBSET (Node \ {s}) : Caught(s, F)'
  <2>1. CASE s # n
    <3>1. s \in clean
      BY <1>1, <1>2, <2>1
    <3>2. PICK F \in SUBSET (Node \ {s}) : Caught(s, F)
      BY <1>0, <3>1
    <3>3. Caught(s, F)'
      BY <1>2, <2>1, <3>2, OwnOtherCaught
    <3> QED BY <3>3
  <2>2. CASE s = n
    <3> DEFINE F == Node \ {n}
    <3>1. Caught(n, F)'
      <4>1. F \in SUBSET (Node \ {n})
        OBVIOUS
      <4> QED BY <1>2, <4>1, OwnTurnCaught
    <3>2. F \in SUBSET (Node \ {s})
      BY <2>2
    <3> HIDE DEF F
    <3> QED BY <2>2, <3>1, <3>2
  <2> QED BY <2>1, <2>2
(* n sends neither. *)
<1>3. ASSUME NEW n \in Speaker, NEW ms, OwnMsgs(n, ms),
             \A i \in DOMAIN ms : ms[i].kind \notin {"start", "stop"},
             wire' = Sent(wire, n, WidthRemap(n, ms)), UNCHANGED <<net, shown, Announced, clean>>
      PROVE  \E F \in SUBSET (Node \ {s}) : Caught(s, F)'
  <2>1. PICK F \in SUBSET (Node \ {s}) : Caught(s, F)
    BY <1>0, <1>1, <1>3
  <2>2. Caught(s, F)'
    BY <1>3, <2>1, OwnOtherCaught
  <2> QED BY <2>2
<1>4. ASSUME NEW n \in Speaker, TalkerStart(n)
      PROVE  \E F \in SUBSET (Node \ {s}) : Caught(s, F)'
  <2> DEFINE ms == <<OwnMsg(n, "start")>>
  <2>1. OwnMsgs(n, ms) /\ DOMAIN ms = {1} /\ ms[1].kind = "start"
    BY OneOwnMsg DEF Kind
  <2>2. /\ wire' = Sent(wire, n, WidthRemap(n, ms)) /\ UNCHANGED <<net, shown>>
        /\ Announced' = Announced \cup {n}
        /\ clean' = clean \/ clean' = clean \cup {n}
    BY <1>4 DEF TalkerStart, Announced
  <2> HIDE DEF ms
  <2> QED BY <1>2, <2>1, <2>2
<1>5. ASSUME NEW n \in Speaker, TalkerStop(n)
      PROVE  \E F \in SUBSET (Node \ {s}) : Caught(s, F)'
  <2> DEFINE ms == <<OwnMsg(n, "stop")>>
  <2>1. OwnMsgs(n, ms) /\ DOMAIN ms = {1} /\ ms[1].kind = "stop"
    BY OneOwnMsg DEF Kind
  <2>2. /\ wire' = Sent(wire, n, WidthRemap(n, ms)) /\ UNCHANGED <<net, shown>>
        /\ Announced' = Announced \ {n}
        /\ clean' = clean
    BY <1>0, <1>5 DEF TalkerStop, Announced
  <2> HIDE DEF ms
  <2> QED BY <1>2, <2>1, <2>2
<1>6. ASSUME NEW n \in Speaker, Flush(n)
      PROVE  \E F \in SUBSET (Node \ {s}) : Caught(s, F)'
  <2>0. UNCHANGED <<net, shown, clean>> /\ Announced' = Announced \ {n}
    BY <1>0, <1>6 DEF Flush, Announced
  <2> DEFINE ms == <<OwnMsg(n, "stop"), OwnMsg(n, "flush")>>
  <2>1. OwnMsgs(n, ms) /\ DOMAIN ms = {1, 2} /\ ms[1].kind = "stop" /\ ms[2].kind = "flush"
    BY TwoOwnMsgs
  <2>2. wire' = Sent(wire, n, WidthRemap(n, ms))
    BY <1>6 DEF Flush
  <2> HIDE DEF ms
  <2> QED BY <1>2, <2>0, <2>1, <2>2
<1>7. ASSUME NEW n \in Speaker, NEW kind \in {"audio", "qsy", "flush"}, Say(n, kind)
      PROVE  \E F \in SUBSET (Node \ {s}) : Caught(s, F)'
  <2> DEFINE ms == <<OwnMsg(n, kind)>>
  <2>1. OwnMsgs(n, ms) /\ DOMAIN ms = {1} /\ ms[1].kind = kind
    <3>1. kind \in Kind
      BY DEF Kind
    <3> QED BY <3>1, OneOwnMsg
  <2>2. wire' = Sent(wire, n, WidthRemap(n, ms)) /\ UNCHANGED <<net, shown, Announced, clean>>
    BY <1>7 DEF Say, Announced
  <2> HIDE DEF ms
  <2> QED BY <1>3, <2>1, <2>2
<1>8. ASSUME NEW h \in Node, NEW n \in Node, Receive(h, n)
      PROVE  \E F \in SUBSET (Node \ {s}) : Caught(s, F)'
  <2>0. UNCHANGED <<net, Announced, clean>>
    BY <1>8 DEF Receive, Announced
  <2>1. PICK F \in SUBSET (Node \ {s}) : Caught(s, F)
    BY <1>0, <1>1, <2>0
  <2>2. CASE IsIpAllowed(net.peers[n], h)
    BY <1>8, <2>1, <2>2, ReceiveKeepsCaught
  <2>3. CASE ~IsIpAllowed(net.peers[n], h)
    <3>1. wire' = [wire EXCEPT ![<<h, n>>] = Tail(@)] /\ UNCHANGED shown
      BY <1>8, <2>3 DEF Receive
    <3>2. ASSUME NEW h1 \in Node, NEW r1 \in Node, Delivers(net, s, "start", h1, r1)
          PROVE  wire'[<<h1, r1>>] = wire[<<h1, r1>>]
      <4>1. IsIpAllowed(net.peers[r1], h1)
        BY <3>2 DEF Delivers
      <4>2. <<h1, r1>> # <<h, n>> /\ <<h1, r1>> \in Link
        BY <2>3, <4>1 DEF Link
      <4> QED BY <1>0, <3>1, <4>2
    <3>3. Caught(s, F)'
      BY <2>0, <2>1, <3>1, <3>2, QuietCaught
    <3> QED BY <3>3
  <2> QED BY <2>2, <2>3
<1>9. ASSUME NEW k \in Link, Lose(k)
      PROVE  \E F \in SUBSET (Node \ {s}) : Caught(s, F)'
  <2>1. /\ wire[k] # << >> /\ wire' = [wire EXCEPT ![k] = Tail(@)]
        /\ clean' = clean \ {Head(wire[k]).talker}
        /\ UNCHANGED <<net, Announced, shown>>
    BY <1>9 DEF Lose, Announced
  <2>2. PICK F \in SUBSET (Node \ {s}) : Caught(s, F)
    BY <1>0, <1>1, <2>1
  <2>3. ~Turn(Head(wire[k]), s)
    BY <1>1, <2>1 DEF Turn
  <2>4. ASSUME NEW l \in Link, NEW v, NEW w
        PROVE  /\ Follows(wire[l], s, v, w) => Follows(wire'[l], s, v, w)
               /\ Pending(wire[l], s) => Pending(wire'[l], s)
    <3>1. /\ Follows(wire[k], s, v, w) => Follows(Tail(wire[k]), s, v, w)
          /\ Pending(wire[k], s) => Pending(Tail(wire[k]), s)
      BY <1>0, <1>9, <2>1, <2>3, NoTurnTaken
    <3>2. wire'[l] = IF l = k THEN Tail(wire[k]) ELSE wire[l]
      BY <1>0, <2>1, <2>4
    <3> QED BY <3>1, <3>2
  <2>5. Caught(s, F)'
    BY <2>1, <2>2, <2>4, LinkKept
  <2> QED BY <2>5
<1>10. ASSUME NEW k \in Link, Overtake(k)
       PROVE  \E F \in SUBSET (Node \ {s}) : Caught(s, F)'
  <2> DEFINE q == wire[k]
             z == <<q[2], q[1]>> \o SubSeq(q, 3, Len(q))
  <2>1. /\ Len(q) > 1 /\ wire' = [wire EXCEPT ![k] = z]
        /\ clean' = clean \ {q[1].talker, q[2].talker}
        /\ UNCHANGED <<net, Announced, shown>>
    BY <1>10 DEF Overtake, Announced
  <2>2. PICK F \in SUBSET (Node \ {s}) : Caught(s, F)
    BY <1>0, <1>1, <2>1
  <2>3. ~Turn(q[1], s) /\ ~Turn(q[2], s)
    BY <1>1, <2>1 DEF Turn
  <2>4. ASSUME NEW l \in Link, NEW v, NEW w
        PROVE  /\ Follows(wire[l], s, v, w) => Follows(wire'[l], s, v, w)
               /\ Pending(wire[l], s) => Pending(wire'[l], s)
    <3>1. q \in Seq(Datagram)
      BY <1>0, <1>10
    <3>2. /\ Follows(q, s, v, w) => Follows(z, s, v, w)
          /\ Pending(q, s) => Pending(z, s)
      <4> HIDE DEF q
      <4> QED BY <2>1, <2>3, <3>1, NoTurnSwapped
    <3> HIDE DEF z
    <3>3. wire'[l] = IF l = k THEN z ELSE wire[l]
      BY <1>0, <2>1, <2>4
    <3> QED BY <3>2, <3>3
  <2>5. Caught(s, F)'
    BY <2>1, <2>2, <2>4, LinkKept
  <2> QED BY <2>5
(* Nothing is said when a talker goes to another group. *)
<1>11. CASE UNCHANGED vars \/ \E n \in Speaker : TalkerGoes(n)
  <2>1. UNCHANGED <<net, wire, Announced, shown, clean>>
    BY <1>11 DEF vars, TalkerGoes, Announced
  <2>2. PICK F \in SUBSET (Node \ {s}) : Caught(s, F)
    BY <1>0, <1>1, <2>1
  <2>3. Caught(s, F)'
    BY <2>1, <2>2, LinkKept
  <2> QED BY <2>3
<1> QED BY <1>4, <1>5, <1>6, <1>7, <1>8, <1>9, <1>10, <1>11 DEF Next

(* Nobody keeps track of the talkers of a UDP trunk: still, as soon as a   *)
(* turn that no fault hit has settled, the clients on the group see        *)
(* whether its talker talks or went away to another group without being    *)
(* announced to stop, whatever befell the turns before it.                 *)
THEOREM DisplaysSettle == Spec => []DisplayAgrees
<1>1. ASSUME IInv, DisplayInv PROVE DisplayAgrees
  <2>1. ASSUME NEW n \in Speaker, Settled(n), NEW r \in Node, <<n, r>> \in net.reach
        PROVE  /\ <<"group", net.number[r], n>> \in shown[r] <=> n \in Announced
               /\ n \in Announced => <<"monitor", net.number[r], n>> \in shown[r]
    <3>1. n \in Node /\ net \in Network /\ "start" \in Kind
      BY <1>1, BoundAssumption DEF IInv, Kind
    <3>2. n \in clean /\ \A l \in Link : ~Pending(wire[l], n)
      BY <2>1 DEF Settled, InFlight, Pending, Turn
    <3>3. PICK F \in SUBSET (Node \ {n}) : Caught(n, F)
      BY <1>1, <3>2 DEF DisplayInv
    <3> DEFINE S == {k \in Node : k \notin F /\ (Shows(k, n) <=> n \in Announced)}
    <3>4. n \in S /\ S \in SUBSET Node
      BY <3>1, <3>3 DEF Shows
    <3>5. ASSUME NEW h \in S, NEW k \in Node, Delivers(net, n, "start", h, k) PROVE k \in S
      <4>1. <<h, k>> \in Link /\ h \notin F /\ (Shows(h, n) <=> n \in Announced)
        BY <3>5 DEF Link
      <4>2. /\ Follows(wire[<<h, k>>], n, Shows(k, n), Shows(h, n))
            /\ k \in F => Pending(wire[<<h, k>>], n)
        BY <3>3, <3>5, <4>1 DEF Caught, Link
      <4>3. k \notin F /\ (Shows(k, n) <=> Shows(h, n))
        BY <3>2, <4>1, <4>2 DEF Follows
      <4> QED BY <3>5, <4>1, <4>3
    <3> HIDE DEF S
    <3>6. r \in S \ {n}
      BY <2>1, <3>1, <3>4, <3>5, ReachAssumption
    <3>7. <<"group", net.number[r], n>> \in shown[r] <=> n \in Announced
      BY <3>6 DEF S, Shows
    <3> QED BY <1>1, <3>7 DEF DisplayInv, MonitorSees
  <2> QED BY <2>1 DEF DisplayAgrees, Announced
<1> QED BY <1>1, IInvInit, IInvNext, OnceInvInit, OnceInvNext, DisplayInvInit, DisplayInvNext, PTL DEF Spec
=============================================================================
