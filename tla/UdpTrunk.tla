------------------------------ MODULE UdpTrunk ------------------------------
(***************************************************************************)
(* Reflectors that are joined by UDP trunks (ReflectorTrunkManager.cpp and *)
(* Reflector::on_trunk_udp_data_recived).  A reflector sends its own       *)
(* traffic to every peer of its list, in the order of the list, and passes *)
(* on what a peer sends; nothing is acknowledged, numbered or remembered,  *)
(* so that only the configuration keeps a datagram from coming twice.      *)
(*                                                                         *)
(* One group is shared; each reflector may have a number of its own for    *)
(* it.  activeTalkgroups is empty in every reachable state of the program  *)
(* (a subscription names the host of its receiver), so isTalkgroupAllowed  *)
(* lets everything pass; ttl is not serialised and stays at its default.   *)
(* A reflector has one talker in the model: it is not told apart which of  *)
(* its clients that is from turn to turn.                                  *)
(***************************************************************************)
EXTENDS Naturals, Sequences, FiniteSets, FiniteSetsExt, Functions

CONSTANTS
    Node,       \* the reflectors
    Speaker,    \* those with a talker of their own
    TG,         \* talk group numbers
    Type,       \* the names that TrunkType and TrunkTypeSend may list
    Network,    \* the configurations, see NetworkAssumption
    MaxTurns,   \* bound on the turns of all talkers
    MaxSent,    \* bound on the frames and QSY requests of all talkers
    MaxFaults   \* bound on the datagrams that are lost or overtaken

(* A TrunkPeer section: its host, Retransmit, TGRule, the mapping file     *)
(* (no entries: none), TrunkType and TrunkTypeSend.                        *)
TrunkPeer == [host : Node, retransmit : BOOLEAN, tgRule : SUBSET TG,
              map : UNION {[D -> TG] : D \in SUBSET TG},
              type : SUBSET Type, typeSend : SUBSET Type]

(* number is the number of the shared group at each reflector, reach the   *)
(* pairs <<n, r>> such that what n says is meant to come to r.             *)
ASSUME NetworkAssumption ==
    \A nw \in Network :
        /\ nw.peers \in [Node -> Seq(TrunkPeer)]
        /\ \A n \in Node : \A i, j \in DOMAIN nw.peers[n] :
              /\ nw.peers[n][i].host # n
              /\ nw.peers[n][i].host = nw.peers[n][j].host => i = j
              /\ IsInjective(nw.peers[n][i].map)
        /\ nw.number \in [Node -> TG]
        /\ nw.reach \subseteq Speaker \X Node

ASSUME BoundAssumption ==
    Speaker \subseteq Node /\ MaxTurns \in Nat /\ MaxSent \in Nat /\ MaxFaults \in Nat

VARIABLES
    net,       \* the configuration
    talking,   \* the reflectors with a talker of their own on the group
    gone,      \* those whose last talker left for another group while it talked
    wire,      \* datagrams under way from one reflector to another
    shown,     \* talkers announced to the clients of a reflector and not withdrawn
    told,      \* frames, flushes and QSY requests passed to the clients
    again,     \* those of told that were passed a second time
    said,      \* what each talker has sent since its last turn began
    clean,     \* reflectors no datagram of whose last turn was hit by a fault
    turns, sent, faults    \* counters for the bounds

vars == <<net, talking, gone, wire, shown, told, again, said, clean, turns, sent, faults>>

Link == Node \X Node

(* The clients on the group, and those that only monitor it. *)
Audience == {"group", "monitor"}

(* talker_status 2, 1, 5 and 4 of MSG_Trunk_Change, and MsgUdpAudio_trunk. *)
Kind == {"start", "stop", "flush", "qsy", "audio"}

Datagram == [kind : Kind, tg : TG, talker : Speaker, nr : Nat]

Init ==
    /\ net \in Network
    /\ talking = {}
    /\ gone = {}
    /\ wire = [l \in Link |-> << >>]
    /\ shown = [n \in Node |-> {}]
    /\ told = [n \in Node |-> {}]
    /\ again = [n \in Node |-> {}]
    /\ said = [n \in Speaker |-> {}]
    /\ clean = Speaker
    /\ turns = 0 /\ sent = 0 /\ faults = 0

-----------------------------------------------------------------------------
(* find_remap_dest_from_tg, find_remap_src_from_tg *)
RemapDest(map, tg) == IF tg \in DOMAIN map THEN map[tg] ELSE tg
RemapSrc(map, tg) == IF tg \in Range(map) THEN CHOOSE s \in DOMAIN map : map[s] = tg ELSE tg

IndexOfHost(peers, h) == {i \in DOMAIN peers : peers[i].host = h}

IsIpAllowed(peers, h) == IndexOfHost(peers, h) # {}

(* get_tg_from_dest_table *)
TgFromDestTable(peers, h, tg) ==
    IF IsIpAllowed(peers, h)
    THEN RemapSrc(peers[CHOOSE i \in IndexOfHost(peers, h) : TRUE].map, tg)
    ELSE tg

(* A peer without a mapping file gets what the loop left in msg_trunk.tg:  *)
(* the number that the last mapped peer before it was sent.                *)
OutgoingTg(peers, i, tg) ==
    LET mapped == {j \in 1 .. i : peers[j].map # << >>}
    IN  IF mapped = {} THEN tg ELSE RemapDest(peers[Max(mapped)].map, tg)

(* handleOutgoingAudio_width_remap and handleOutgoingMessage_width_remap:  *)
(* the messages ms of n for the i-th peer.                                 *)
WidthRemap(n, ms) ==
    [i \in DOMAIN net.peers[n] |->
        [k \in DOMAIN ms |-> [ms[k] EXCEPT !.tg = OutgoingTg(net.peers[n], i, ms[k].tg)]]]

(* What an administrator has to see to for the numbers to be right: each   *)
(* trunk translates between the two numbers, a peer without a mapping file *)
(* comes before those with one, and a peer that is passed on to takes the  *)
(* group under the number of the reflector, since Resend does not remap.   *)
ASSUME NumberAssumption ==
    \A nw \in Network, n \in Node : \A i \in DOMAIN nw.peers[n] :
        LET p == nw.peers[n][i]
            arrives(tg) == IsIpAllowed(nw.peers[p.host], n) =>
                             TgFromDestTable(nw.peers[p.host], n, tg) = nw.number[p.host]
        IN  /\ p.map = << >> => \A j \in 1 .. i : nw.peers[n][j].map = << >>
            /\ arrives(RemapDest(p.map, nw.number[n]))
            /\ p.retransmit => arrives(nw.number[n])

(* What the TrunkTypeSend of the sender lets through to a peer: the audio  *)
(* and talker states, and the test of handleOutgoingAudio_resend.          *)
TypeSent(send, p) == send = {} \/ p.type \subseteq send

TypeSentQsy(send, p) ==
    \/ send = {} \/ send = p.type
    \/ (Cardinality(p.type) > 1 /\ send \subseteq p.type)

TypeAllowed(send, p, qsy) == IF qsy THEN TypeSentQsy(send, p) ELSE TypeSent(send, p)

HostTypeSend(peers, h) == UNION {peers[i].typeSend : i \in IndexOfHost(peers, h)}

(* The peer p is one that a QSY request, or anything else, from h may be   *)
(* passed on to: not the sender itself.                                    *)
Relays(p, h, send, qsy) == p.host # h /\ p.retransmit /\ TypeAllowed(send, p, qsy)

(* The bugs of a relay that answers the sender, and of one that takes only *)
(* lists of types.                                                         *)
AnswersBack(p, m, h, send) ==
    m.tg \in p.tgRule /\ p.retransmit /\ TypeAllowed(send, p, m.kind = "qsy")
TypeListed(p, m, h, send) ==
    /\ m.tg \in p.tgRule /\ p.host # h /\ p.retransmit
    /\ send = {} \/ (Cardinality(p.type) > 1 /\ send \subseteq p.type)

PassedOn(p, m, h, send) == m.tg \in p.tgRule /\ Relays(p, h, send, m.kind = "qsy")

(* handleOutgoingAudio_resend, _resend_newmsg and _resend_status_newmsg *)
Resend(n, m, h) ==
    [i \in DOMAIN net.peers[n] |->
        IF PassedOn(net.peers[n][i], m, h, HostTypeSend(net.peers[n], h)) THEN <<m>> ELSE << >>]

(* The ways of what s says, QSY requests or the rest: via[n] is the        *)
(* reflector that n takes it from, n itself when it comes to n from none.  *)
(* Whoever may have it sends it only to reflectors that take it from no    *)
(* other, and never to s.                                                  *)
Ways(nw, s, qsy) ==
    {via \in [Node -> Node] : \A n \in Node : \A i \in DOMAIN nw.peers[n] :
        LET p == nw.peers[n][i] IN
        (/\ IsIpAllowed(nw.peers[p.host], n)
         /\ n # s => via[n] # n /\ Relays(p, via[n], HostTypeSend(nw.peers[n], via[n]), qsy))
        => p.host # s /\ via[p.host] = n}

(* What an administrator has to see to for nothing to come twice. *)
ASSUME WayAssumption ==
    \A nw \in Network, s \in Speaker, qsy \in BOOLEAN : Ways(nw, s, qsy) # {}

Way(nw, s, qsy) == CHOOSE via \in Ways(nw, s, qsy) : TRUE

(* The talker states and audio of s are under the number of the reflector  *)
(* where they are passed on, the rest under one that s sent it with.       *)
NumbersAt(nw, s, kind, n) ==
    IF kind \in {"start", "stop", "audio"} THEN {nw.number[n]}
    ELSE {RemapDest(nw.peers[s][i].map, nw.number[s]) : i \in DOMAIN nw.peers[s]}

(* h sends what s says to r, if it has it, and r takes it. *)
Delivers(nw, s, kind, h, r) ==
    LET via == Way(nw, s, kind = "qsy")[h] IN
    /\ IsIpAllowed(nw.peers[r], h)
    /\ \E i \in IndexOfHost(nw.peers[h], r) :
          h # s => /\ via # h
                   /\ NumbersAt(nw, s, kind, h) \subseteq nw.peers[h][i].tgRule
                   /\ Relays(nw.peers[h][i], via, HostTypeSend(nw.peers[h], via), kind = "qsy")

(* The talkers are meant to come to reflectors that the ways lead to. *)
ASSUME ReachAssumption ==
    \A nw \in Network, s \in Speaker, kind \in Kind, S \in SUBSET Node :
        (s \in S /\ \A h \in S, r \in Node : Delivers(nw, s, kind, h, r) => r \in S)
        => \A r \in Node : <<s, r>> \in nw.reach => r \in S \ {s}

(* w with the datagrams out[i] for the i-th peer of n on their way. *)
Sent(w, n, out) ==
    [l \in Link |->
        LET i == IndexOfHost(net.peers[n], l[2]) IN
        IF l[1] = n /\ i # {} THEN w[l] \o out[CHOOSE j \in i : TRUE] ELSE w[l]]

-----------------------------------------------------------------------------
OwnMsg(n, kind) == [kind |-> kind, tg |-> net.number[n], talker |-> n, nr |-> sent + 1]

InFlight(n) == \E l \in Link : \E i \in DOMAIN wire[l] : wire[l][i].talker = n

(* A talker of n takes the group: onTalkerUpdated, onTrunkTalkerUpdated. *)
TalkerStart(n) ==
    /\ n \notin talking /\ turns < MaxTurns
    /\ talking' = talking \cup {n}
    /\ gone' = gone \ {n}
    /\ wire' = Sent(wire, n, WidthRemap(n, <<OwnMsg(n, "start")>>))
    /\ said' = [said EXCEPT ![n] = {}]
    /\ clean' = IF InFlight(n) THEN clean ELSE clean \cup {n}
    /\ turns' = turns + 1
    /\ UNCHANGED <<net, shown, told, again, sent, faults>>

(* It lets go of it: a timeout, a block or a disconnection. *)
TalkerStop(n) ==
    /\ n \in talking
    /\ talking' = talking \ {n}
    /\ wire' = Sent(wire, n, WidthRemap(n, <<OwnMsg(n, "stop")>>))
    /\ UNCHANGED <<net, gone, shown, told, again, said, clean, turns, sent, faults>>

(* It selects another group: removeClientP takes the talker off the group  *)
(* without talkerUpdated, so that nobody is told.                          *)
TalkerGoes(n) ==
    /\ n \in talking
    /\ talking' = talking \ {n}
    /\ gone' = gone \cup {n}
    /\ UNCHANGED <<net, wire, shown, told, again, said, clean, turns, sent, faults>>

(* MsgUdpFlushSamples of the talker: its turn ends, and all flush. *)
Flush(n) ==
    /\ n \in talking
    /\ sent < MaxSent
    /\ talking' = talking \ {n}
    /\ wire' = Sent(wire, n, WidthRemap(n, <<OwnMsg(n, "stop"), OwnMsg(n, "flush")>>))
    /\ said' = [said EXCEPT ![n] = @ \cup {<<"flush", sent + 1>>}]
    /\ sent' = sent + 1
    /\ UNCHANGED <<net, gone, shown, told, again, clean, turns, faults>>

(* An audio frame of the talker, a QSY request of a client, or the flush   *)
(* of one that does not talk, which ends no turn.                          *)
Say(n, kind) ==
    /\ kind = "audio" => n \in talking
    /\ sent < MaxSent
    /\ wire' = Sent(wire, n, WidthRemap(n, <<OwnMsg(n, kind)>>))
    /\ said' = [said EXCEPT ![n] = @ \cup {<<kind, sent + 1>>}]
    /\ sent' = sent + 1
    /\ UNCHANGED <<net, talking, gone, shown, told, again, clean, turns, faults>>

-----------------------------------------------------------------------------
(* The bugs of a handler that takes the number of its peer for its own. *)
Untranslated(n, m, h) == m
StopUntranslated(n, m, h) ==
    IF m.kind \in {"start", "audio"} THEN [m EXCEPT !.tg = TgFromDestTable(net.peers[n], h, @)] ELSE m

(* Talker states and audio are translated on arrival, the rest is not. *)
Translated(n, m, h) ==
    IF m.kind \in {"start", "stop", "audio"}
    THEN [m EXCEPT !.tg = TgFromDestTable(net.peers[n], h, @)] ELSE m

(* broadcastMsg of MsgTalkerStop: both filters are TgFilter, so that who   *)
(* monitors the group is shown the start of a turn but never its end.      *)
StopAudience == {"group"}

(* What the clients of n are sent. *)
Broadcast(n, m) ==
    LET note == [kind |-> m.kind, tg |-> m.tg, talker |-> m.talker, nr |-> m.nr] IN
    CASE m.kind = "start" ->
            /\ shown' = [shown EXCEPT ![n] = @ \cup (Audience \X {m.tg} \X {m.talker})]
            /\ UNCHANGED <<told, again>>
      [] m.kind = "stop" ->
            /\ shown' = [shown EXCEPT ![n] = @ \ (StopAudience \X {m.tg} \X {m.talker})]
            /\ UNCHANGED <<told, again>>
      [] OTHER ->
            /\ told' = [told EXCEPT ![n] = @ \cup {note}]
            /\ again' = [again EXCEPT ![n] = IF note \in told[n] THEN @ \cup {note} ELSE @]
            /\ UNCHANGED shown

(* on_trunk_udp_data_recived *)
Receive(h, n) ==
    /\ wire[<<h, n>>] # << >>
    /\ LET rest == [wire EXCEPT ![<<h, n>>] = Tail(@)]
           m == Translated(n, Head(wire[<<h, n>>]), h)
       IN  IF IsIpAllowed(net.peers[n], h)
           THEN wire' = Sent(rest, n, Resend(n, m, h)) /\ Broadcast(n, m)
           ELSE wire' = rest /\ UNCHANGED <<shown, told, again>>
    /\ UNCHANGED <<net, talking, gone, said, clean, turns, sent, faults>>

(* The network loses a datagram or delivers the next one before it. *)
Lose(l) ==
    /\ wire[l] # << >> /\ faults < MaxFaults
    /\ wire' = [wire EXCEPT ![l] = Tail(@)]
    /\ clean' = clean \ {Head(wire[l]).talker}
    /\ faults' = faults + 1
    /\ UNCHANGED <<net, talking, gone, shown, told, again, said, turns, sent>>

Overtake(l) ==
    /\ Len(wire[l]) > 1 /\ faults < MaxFaults
    /\ wire' = [wire EXCEPT ![l] = <<@[2], @[1]>> \o SubSeq(@, 3, Len(@))]
    /\ clean' = clean \ {wire[l][1].talker, wire[l][2].talker}
    /\ faults' = faults + 1
    /\ UNCHANGED <<net, talking, gone, shown, told, again, said, turns, sent>>

Next ==
    \/ \E n \in Speaker : TalkerStart(n) \/ TalkerStop(n) \/ TalkerGoes(n) \/ Flush(n)
    \/ \E n \in Speaker, kind \in {"audio", "qsy", "flush"} : Say(n, kind)
    \/ \E h, n \in Node : Receive(h, n)
    \/ \E l \in Link : Lose(l) \/ Overtake(l)

Spec == Init /\ [][Next]_vars

-----------------------------------------------------------------------------
(* The trunks form loops and nothing is numbered: the rule that nothing is *)
(* sent back, and the trunk types, keep a frame, a flush or a QSY request  *)
(* from reaching the same clients twice, or those of its own reflector.    *)
ToldOnce == \A n \in Node : again[n] = {} /\ \A m \in told[n] : m.talker # n

(* Whatever way it took, audio and talkers are on the group under the      *)
(* number that it has where they arrive.                                   *)
NumbersCorrespond ==
    \A n \in Node :
        /\ \A m \in told[n] : m.kind = "audio" => m.tg = net.number[n]
        /\ \A s \in shown[n] : s[2] = net.number[n]

Settled(n) == n \in clean /\ ~InFlight(n)

(* Nobody keeps track of the talkers of a UDP trunk, the start and the     *)
(* stop of a turn only pass through: the clients on the group see who      *)
(* talks, as soon as a turn that no fault hit has settled, whatever befell *)
(* the turns before it; those that monitor it see at least who talks (its  *)
(* end they are never told of).  A talker that has gone to another group   *)
(* is still shown to all, until it talks again and is heard to stop.       *)
DisplayAgrees ==
    \A n \in Speaker : Settled(n) =>
        \A r \in Node : <<n, r>> \in net.reach =>
            /\ <<"group", net.number[r], n>> \in shown[r] <=> n \in talking \cup gone
            /\ n \in talking \cup gone => <<"monitor", net.number[r], n>> \in shown[r]

(* What the trunk types and Retransmit hold back is only what comes on     *)
(* another way: a settled turn has been heard wherever it was meant to be. *)
AllAreReached ==
    \A n \in Speaker : Settled(n) =>
        \A r \in Node, s \in said[n] : <<n, r>> \in net.reach =>
            \E m \in told[r] : m.talker = n /\ <<m.kind, m.nr>> = s
=============================================================================
