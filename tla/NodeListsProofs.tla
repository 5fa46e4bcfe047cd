-------------------------- MODULE NodeListsProofs ---------------------------
(***************************************************************************)
(* The two indices of the routing table stay in step, for any number of    *)
(* nodes and trunks, any expiry times and any order of the lists.          *)
(***************************************************************************)
EXTENDS NodeLists, SequenceTheorems, TLAPS

(* A table in order: its types, and its indices in step. *)
Sound(rt) == rt \in Table /\ IndicesMatch(rt)

LEMMA UpsertSound ==
    ASSUME NEW rt, Sound(rt), NEW cs \in SUBSET Callsign, NEW t \in Trunk
    PROVE  Sound(Upsert(rt, cs, t))
<1>1. [trunk |-> t, ttl |-> Immortal] \in RoutingEntry
  BY DEF RoutingEntry
<1>2. Upsert(rt, cs, t) \in Table
  BY <1>1 DEF Sound, Table, Upsert, UpsertIndex, Unindexed
<1>3. ASSUME NEW k \in Trunk
      PROVE  Upsert(rt, cs, t).trunk_index[k] = {c \in Callsign : Upsert(rt, cs, t).table[c].trunk = k}
  <2>1. rt.trunk_index[k] = {c \in Callsign : rt.table[c].trunk = k}
    BY DEF Sound, IndicesMatch
  <2>2. CASE k = t
    BY <2>1, <2>2 DEF Upsert, UpsertIndex, Unindexed, Sound, Table
  <2>3. CASE k # t
    BY <2>1, <2>3 DEF Upsert, UpsertIndex, Unindexed, Sound, Table
  <2> QED BY <2>2, <2>3
<1> QED BY <1>2, <1>3 DEF Sound, IndicesMatch

LEMMA RemoveSound ==
    ASSUME NEW rt, Sound(rt), NEW cs \in SUBSET Callsign
    PROVE  Sound(Remove(rt, cs))
<1>1. NoEntry \in RoutingEntry
  BY DEF NoEntry, RoutingEntry
<1>2. Remove(rt, cs) \in Table
  BY <1>1 DEF Sound, Table, Remove, Unindexed
<1>3. ASSUME NEW k \in Trunk
      PROVE  Remove(rt, cs).trunk_index[k] = {c \in Callsign : Remove(rt, cs).table[c].trunk = k}
  <2>1. rt.trunk_index[k] = {c \in Callsign : rt.table[c].trunk = k}
    BY DEF Sound, IndicesMatch
  <2>2. NoEntry.trunk # k
    BY TableAssumption DEF NoEntry
  <2> QED BY <2>1, <2>2 DEF Remove, Unindexed
<1> QED BY <1>2, <1>3 DEF Sound, IndicesMatch

(* A new expiry moves no entry to another trunk. *)
LEMMA RetimedSound ==
    ASSUME NEW rt, Sound(rt), NEW tab \in [Callsign -> RoutingEntry],
           \A c \in Callsign : tab[c].trunk = rt.table[c].trunk
    PROVE  Sound([rt EXCEPT !.table = tab])
<1>1. [rt EXCEPT !.table = tab] = [table |-> tab, trunk_index |-> rt.trunk_index]
  BY DEF Sound, Table
<1> QED BY <1>1 DEF Sound, Table, IndicesMatch

LEMMA RefreshSound ==
    ASSUME NEW rt, Sound(rt), NEW t \in Trunk, NEW ttl \in Nat
    PROVE  Sound(RefreshTtlByTrunk(rt, t, ttl))
<1> DEFINE tab == [c \in Callsign |->
        IF c \in rt.trunk_index[t] /\ rt.table[c].trunk # NoTrunk
        THEN [rt.table[c] EXCEPT !.ttl = ttl] ELSE rt.table[c]]
<1>1. \A c \in Callsign : rt.table[c] \in RoutingEntry
  BY DEF Sound, Table
<1>2. tab \in [Callsign -> RoutingEntry] /\ \A c \in Callsign : tab[c].trunk = rt.table[c].trunk
  BY <1>1 DEF RoutingEntry
<1> QED BY <1>2, RetimedSound DEF RefreshTtlByTrunk

LEMMA AgedSound ==
    ASSUME NEW rt, Sound(rt)
    PROVE  Sound(Aged(rt))
<1> DEFINE tab == [c \in Callsign |->
        IF rt.table[c].ttl > 0 THEN [rt.table[c] EXCEPT !.ttl = @ - 1] ELSE rt.table[c]]
<1>1. \A c \in Callsign : rt.table[c] \in RoutingEntry
  BY DEF Sound, Table
<1>2. tab \in [Callsign -> RoutingEntry] /\ \A c \in Callsign : tab[c].trunk = rt.table[c].trunk
  BY <1>1 DEF RoutingEntry, Immortal
<1> QED BY <1>2, RetimedSound DEF Aged

LEMMA ReplacedSound ==
    ASSUME NEW rt, Sound(rt), NEW t \in Trunk, NEW list \in SUBSET Callsign, NEW ttl \in Nat
    PROVE  Sound(Replaced(rt, t, list, ttl))
<1>1. {c \in rt.trunk_index[t] : rt.table[c].trunk # NoTrunk} \in SUBSET Callsign
  BY DEF Sound, Table
<1>2. Sound(RemoveByTrunk(rt, t))
  BY <1>1, RemoveSound DEF RemoveByTrunk
<1>3. Sound(Upsert(RemoveByTrunk(rt, t), list, t))
  BY <1>2, UpsertSound
<1> QED BY <1>3, RefreshSound DEF Replaced

-----------------------------------------------------------------------------
IInv ==
    /\ home \in [Callsign -> Trunk \cup {NoTrunk}]
    /\ wire \in [Udp \cup Tcp -> Seq(SUBSET Callsign)]
    /\ Sound(node_table)

LEMMA EmptySound == Sound(Empty)
BY TableAssumption DEF Sound, Table, Empty, NoEntry, RoutingEntry, IndicesMatch

LEMMA IInvInit == Init => IInv
BY EmptySound DEF Init, IInv

LEMMA IInvNext == IInv /\ [Next]_vars => IInv'
<1> SUFFICES ASSUME IInv, [Next]_vars PROVE IInv'
  OBVIOUS
<1>0. \A r : At(r) \in SUBSET Callsign
  BY DEF At
<1>1. ASSUME NEW c \in Callsign, NEW r \in Trunk, Login(c, r) PROVE IInv'
  BY <1>1 DEF Login, IInv
<1>2. ASSUME NEW c \in Callsign, NEW b \in BOOLEAN, Logout(c, b) PROVE IInv'
  <2>1. home' \in [Callsign -> Trunk \cup {NoTrunk}] /\ node_table' = node_table
    BY <1>2 DEF Logout, IInv
  <2>2. wire' \in [Udp \cup Tcp -> Seq(SUBSET Callsign)]
    <3>1. At(home[c]) \ {c} \in SUBSET Callsign
      BY <1>0
    <3>2. \/ wire' = wire
          \/ home[c] \in Tcp /\ wire' = [wire EXCEPT ![home[c]] = Append(@, At(home[c]) \ {c})]
      BY <1>2, Zenon DEF Logout
    <3>3. wire \in [Udp \cup Tcp -> Seq(SUBSET Callsign)]
      BY DEF IInv
    <3>4. ASSUME home[c] \in Tcp
          PROVE  Append(wire[home[c]], At(home[c]) \ {c}) \in Seq(SUBSET Callsign)
      BY <3>1, <3>3, <3>4
    <3> QED BY <3>2, <3>3, <3>4
  <2> QED BY <2>1, <2>2 DEF IInv
<1>3. ASSUME NEW r \in Udp \cup Tcp, Send(r), UNCHANGED <<home, node_table>> PROVE IInv'
  BY <1>0, <1>3 DEF Send, IInv
<1>4. ASSUME NEW r \in Udp \cup Tcp, wire[r] # << >>
      PROVE  /\ Head(wire[r]) \in SUBSET Callsign
             /\ [wire EXCEPT ![r] = Tail(@)] \in [Udp \cup Tcp -> Seq(SUBSET Callsign)]
  BY <1>4, HeadTailProperties DEF IInv
<1>5. ASSUME NEW r \in Udp, UdpList(r) PROVE IInv'
  <2>1. r \in Trunk /\ PeerTtl \in Nat
    BY ListAssumption
  <2>2. Sound(node_table')
    BY <1>4, <1>5, <2>1, ReplacedSound DEF UdpList, IInv
  <2> QED BY <1>4, <1>5, <2>2 DEF UdpList, IInv
<1>6. ASSUME NEW r \in Tcp, TcpList(r) PROVE IInv'
  <2>1. r \in Trunk
    BY ListAssumption
  <2>2. Sound(node_table')
    BY <1>4, <1>6, <2>1, UpsertSound DEF TcpList, IInv
  <2> QED BY <1>4, <1>6, <2>2 DEF TcpList, IInv
<1>7. CASE OwnTimer
  <2>1. Own \in Trunk /\ OwnTtl \in Nat
    BY ListAssumption
  <2>2. Sound(RemoveExpired(node_table))
    BY RemoveSound DEF RemoveExpired, IInv
  <2>3. Sound(node_table')
    BY <1>0, <1>7, <2>1, <2>2, ReplacedSound DEF OwnTimer
  <2> QED BY <1>7, <2>3 DEF OwnTimer, IInv
<1>8. CASE Period
  BY <1>8, AgedSound DEF Period, IInv
<1>9. ASSUME NEW r \in Udp, PeerGone(r) PROVE IInv'
  BY <1>9 DEF PeerGone, IInv
<1>10. ASSUME NEW r \in Udp, Lose(r) PROVE IInv'
  BY <1>4, <1>10 DEF Lose, IInv
<1>11. ASSUME NEW r \in Udp, Overtake(r) PROVE IInv'
  <2> DEFINE s == wire[r]
  <2>1. s \in Seq(SUBSET Callsign) /\ Len(s) > 1
    BY <1>11 DEF Overtake, IInv
  <2>2. s[1] \in SUBSET Callsign /\ s[2] \in SUBSET Callsign
    BY <2>1, ElementOfSeq
  <2>3. SubSeq(s, 3, Len(s)) \in Seq(SUBSET Callsign)
    BY <2>1
  <2>4. <<s[2], s[1]>> \o SubSeq(s, 3, Len(s)) \in Seq(SUBSET Callsign)
    BY <2>2, <2>3, ConcatProperties
  <2> QED BY <1>11, <2>4 DEF Overtake, IInv
<1>12. CASE UNCHANGED vars
  BY <1>12 DEF vars, IInv
<1>13. ASSUME NEW r \in Tcp, ClientConnected(r) PROVE IInv'
  BY <1>3, <1>13 DEF ClientConnected
<1>14. ASSUME NEW r \in Udp, PeerTimer(r) PROVE IInv'
  BY <1>3, <1>14 DEF PeerTimer
<1> QED BY <1>1, <1>2, <1>5, <1>6, <1>7, <1>8, <1>9, <1>10, <1>11, <1>12, <1>13, <1>14 DEF Next

(* Whatever lists arrive in whatever order, trunk_index_ lists under each  *)
(* trunk exactly the nodes that table_ has behind it.                      *)
THEOREM IndicesStayInStep == Safe => []IndexAgrees
<1>1. IInv => IndexAgrees
  BY DEF IInv, Sound, IndexAgrees
<1> QED BY <1>1, IInvInit, IInvNext, PTL DEF Safe
=============================================================================
