# A TLA+ model of the SvxLink reflector

The program is `src/src/svxlink/reflector`, the SvxLink reflector with the
SA2BLV and GEU extensions: a conference server for radio nodes. Nodes connect by
TCP and UDP, select talk groups and talk in turn; reflectors are joined by two
kinds of trunks and by satellites. Paths below are relative to that directory,
unless they start with `docs/`.

This directory holds one TLA+ module per part that is modelled, the
instances that TLC checks, and proofs that TLAPS checks for all instances.

1. [The system](#1-the-system)
2. [The modules](#2-the-modules)
3. [What TLC checks](#3-what-tlc-checks)
4. [What is proved](#4-what-is-proved)
5. [Where the code and its documents part](#5-where-the-code-and-its-documents-part)
6. [What is not modelled, and the plan](#6-what-is-not-modelled-and-the-plan)

Run `tlc -config X.cfg MCModule` for a run of section 3 (PROJECT.json pairs
them) and `tlapm ModuleProofs.tla` for the proofs.

## 1. The system

The reflector is a single thread around an event loop (`Async`): sockets and
timers call handlers, one at a time, to the end. So an action of a model is one
handler with everything it calls, and concurrency is in the order of the events:
which message, timer or loss comes next. Three helpers run on threads of their
own: the fetcher of the external configuration, the MQTT client, and the worker
that publishes status.

| Part | State | Operations and events | Talks to | What is hard |
| --- | --- | --- | --- | --- |
| Talk group handler, `TGHandler.cpp` | client set and talker of each group, group of each client, time stamps, trunk talkers | switch group, set talker, remove client, timer tick, automatic QSY | clients, the UDP path, trunks | three indices of one membership; timers that compare stamps of different turns |
| Client session, `ReflectorClient.cpp` | login state, callsign, heartbeat counters, block, group | login messages, heartbeats, timeouts, renewal of the certificate | `Reflector`, talk group handler | many ways to leave; a client that leaves lives on for a while |
| Reflector core, `Reflector.cpp` | maps of clients, trunks and satellites | accept, lose, broadcast, UDP audio in and out | all | who is told what, and in which order |
| Trunk server, `Reflector.cpp:834-1122` | pool of connections before their hello, inbound map | accept, hello, hello timer, loss | trunk links | limits, and pointers to connections that others own |
| Trunk link, `GeuTrunkLink.cpp` | an outbound and an inbound connection, counters, active and yielded groups, nonce | hello, heartbeat, talker start and stop, audio, loss | its peer, satellites, talk group handler | two connections per trunk that fail separately; claims that cross |
| Satellite server, `SatelliteLink.cpp` | hello, counters, active groups | hello, turns, audio, loss | trunks, clients | a loss in the middle of a turn; a clean-up after a timeout that never runs |
| UDP path, `Reflector.cpp:1944-2860` | source of each client, expected number, heartbeat counters | registration, audio, flush | clients, talk group handler | a source that changes hands; numbers that wrap |
| UDP trunk manager, `ReflectorTrunkManager.cpp` | peers, filters, mapping of group numbers | relay audio, talker changes, QSY | UDP peers, GEU trunks | loops in the topology; nothing is numbered or acknowledged; one group with several numbers |
| Node lists, routing table, `routing_table.hpp` | callsign to trunk, with a time to live | insert, refresh, expire | trunks, status | two indices; nodes that move while lists are late |
| Random QSY | cursor in a range of groups | next free group | talk group handler | a full range |
| External configuration, `ExternaConfigFetcher.cpp` | last configuration | poll, compare, apply | configuration | a thread that shares state with the loop |
| MQTT status, `MQTT_message.cpp` | buffered and published tree | publish the difference, or all of it | broker | a worker and detached threads; a lost connection |
| Certificates, control interfaces, messages | files, text, bytes | | | input and output |

What makes each modelled part correct:

* **Talk groups.** A node is in at most one group, a group has at most one
  talker, who is in it; a turn is never taken over, and ends; a block is served.
* **Sessions.** Callsigns are unique; every node knows who is there; every
  session that should end does.
* **Trunk server.** The pool keeps its limits and is emptied; a link never holds
  a dead connection, and a live one is not replaced.
* **Trunk link.** Live connections do not time out, dead ones do; afterwards
  the trunk works again. At most one side gives way, and gets its voice back;
  a talker of the peer is forgotten when its turn ends, or a later one.
* **UDP path.** A client in session is known by one source; frames are taken in
  the order in which they were sent; a client nobody hears is thrown out.
* **UDP trunks.** Nothing is heard twice; a group keeps its identity under its
  different numbers; who talks is seen everywhere, and so is the end of a turn
  that the code announces.
* **Node lists.** The two indices of the table agree; a node that stays is shown
  where it is, one that has left is forgotten.
* **MQTT.** No status is missed by the worker; the broker comes to show what
  there is (that it forgets what there is no more does not hold, section 5).

`hazards` in PROJECT.json lists, line by line, what can go wrong in this code
and which property would show it, or why none does yet.

## 2. The modules

| Module | Models | Proofs |
| --- | --- | --- |
| `TalkGroups` | what the talk group handler promises | |
| `TGHandler` | talk group handler, audio path, block | `TGHandlerProofs` |
| `ClientSession` | login and life of a client | `ClientSessionProofs` |
| `TrunkServer` | listening side of the TCP trunks | `TrunkProofs` |
| `TrunkLink` | the two connections of a trunk | `TrunkProofs` |
| `TrunkTalk` | turns and audio of one group on a trunk | `TrunkTalkProofs` |
| `UdpTrunk` | turns, audio and QSY requests over UDP trunks | `UdpTrunkProofs` |
| `RoutingTable` | the routing table, as operators | |
| `NodeLists` | who fills it, and when; uses `RoutingTable` | `NodeListsProofs` |
| `UdpSource` | sources, numbers and heartbeats of datagrams | `UdpSourceProofs` |
| `StatusPublisher` | the status of the nodes on the MQTT broker | `StatusPublisherProofs` |

`MC...` modules hold the constants of an instance.

### TGHandler, TalkGroups

`info[g]` is the `TGInfo` of a group, `clientMap` is `m_client_map`, `currentTg`
is `m_current_tg` of every client: the three copies of one membership.
`announced` is what the listeners were last told. Time stamps are kept as ages
that stop growing past the last value a comparison can tell apart.
`gap`, `silent`, `sinceQsy` and `qsyReq` are history: they record what the
properties need and no action reads them for a decision.

An action is one event: a client connects, selects a group (`SelectTG`, with
`switchTo`, `removeClientP` and the check of `ALLOW`), sends audio (`Audio`: the
block, the guard of `Reflector.cpp:2706`, `setTalkerForTG`) or a flush, leaves,
is blocked by the operator; a heartbeat counts a block down; `CheckTimers` is
one expiry of the one second timer, with the audio timeout, then the squelch
timeout, over all groups, and the automatic QSY requests that follow. `time()`
counts whole seconds, so the tick may see a gap as one longer or shorter:
`MayTimeOut` and `MustTimeOut` are the two ends.

`TalkGroups` is the abstract specification: `Move`, `Take`, `Release`.
`TGHandler` implements it with `tgOf <- clientMap` and the talkers of `info`.

### ClientSession

A connection is used once; `session[c]` is its `ReflectorClient`. Its
`state` is `m_con_state` (`leaving` is `STATE_EXPECT_DISCONNECT`), with `none`
and `gone` before and after the life of the object.
Every TCP message is an action, with the refusals, the messages out of place
and the ones that change nothing (`Heartbeat`). Certificates and keys are
choices. `known[c]` is what the node has been told by `MsgServerInfo`,
`MsgNodeJoined` and `MsgNodeLeft`. A node may vanish (`dead`): nothing
comes from it any more and nobody is told. A TCP connection that the host
reports lost is `Closed`. The failure of the random generator in
`sendAuthChallenge` is left out.

### TrunkServer

A connection is `new`, `open` or `closed`; `pending` is the pool, `timer` the
hello timers, `inboundMap` and `inbound` the two directions of the hand-over to
a link. Which link a hello is for is a choice: matching of sections, secrets and
prefixes is abstracted. `disconnect()` of a connection reports nothing
(`AsyncTcpConnection.h:234`), a close by the peer does; the difference is what
the `trunk_pool` run is about.

### TrunkLink

Connection `p` was opened by reflector `p`: it is `ob[p]` at one end and
`ib[Other(p)]` at the other. `up` and `down` are the frames under way. An
inbound connection whose peer is gone is `closing` if the news is under way and
`stale` if it never will be. The two ends tick separately; `NextSecond` waits
for every timer and for the network, so delivery takes less than a second, and
the timers of the two ends may run in any order within it. The faults are a
`cut` (silence in both directions), a `reset` (the opener learns of it at once)
and a `crash` (a host returns with nothing). The wait of `TcpPrioClient` is at least a
second, without an upper end. `off` is the state in which nobody calls
`connect()` again.

### TrunkTalk

One shared group. On each side: a local client, a satellite, the talker shown
(`trunkTalker`), `peerActive` and `yielded` of the link, the two readiness flags
of TrunkLink and the messages under way on both connections. The message goes
out on the outbound connection, or twice on the inbound one
(`sendMsgOnInbound` writes it twice). A broken connection may be noticed by
one end first, or by a timeout that tells nobody. An outbound connection that
times out (`OutboundTimesOut`) is disconnected by the link itself, and its
`TcpPrioClient` does not try again: the reflector is `stopped`, and only the
connection its peer opens is left to it. What the code announces to the
peer is the turns of satellites (`SatStarts`, `SatStops`) and those that come in
over a UDP trunk (`Reflector.cpp:2303`, `:2369`), which call the same functions of
the link; turns of the reflector's own clients travel as audio only. `frames` and
`heard` number the audio and record what was played; the audio is there for what
it does to the muting, and no property speaks of these two.

### UdpTrunk

`net` is the configuration, one of a set: for each reflector its list of peers
in order (`TrunkPeer`), its number for the one shared group, and who is meant to
hear whom. A turn of a reflector's own talker is `TalkerStart`, `Say` (audio),
and one of three ends: `Flush` by the talker (a stop and a flush), `TalkerStop` (a
timeout, a block, a disconnection) or `TalkerGoes`, the talker who selects another
group, for whom `removeClientP` sends nothing; `gone` remembers it. A request for a
QSY and the flush of a client that does not talk (`Say`) end no turn. Which client
of a reflector talks is not told apart. Each message goes to every peer through
`WidthRemap`, the loop that translates the number and leaves it translated for
the peers that follow. `Receive` is the handler of a datagram: the allowed host,
the translation back for audio and talker changes (`Translated`), the broadcast
to the clients, and the relaying with the rules of `Retransmit`, `TrunkType` and
`TrunkTypeSend`. `shown` is what the clients have been told and not been
untold, apart for those on the group and those that monitor it. `told`, `again`,
`said` and `clean` are history. `Ways` and `Delivers` say of a configuration, by
the rules of the handlers, by which links what a talker says travels and where
it comes to; they are the terms of `WayAssumption` and `ReachAssumption`.
Left out: the heartbeat between peers,
which only sets a status flag; the subscription filter, which is in
`activeTalkgroups` and stays empty, because a subscription names the host of its
receiver; forwarding between UDP and TCP trunks.

### RoutingTable, NodeLists

`RoutingTable` has the methods of `routing_table.hpp` as operators on a record of
`table_` and `trunk_index_`; each holds the lock throughout and is one step. A
time to live is counted in periods of the timer. `NodeLists` is one reflector
among its peers: `home` says where every node really is, `wire` holds the lists
under way. The timer of the reflector (`OwnTimer`) and those of its UDP peers
(`PeerTimer`) expire once in a period; a TCP peer sends when a client connects,
before it has a callsign, and when one leaves. `PeerGone` is a UDP peer that stops
for good.

### UdpSource

`client_src_map`, `client_src` and `remote_udp_port` are the three copies of the
source of a client. A node connects, moves to another source, registers and
sends; the network loses, repeats and delays (`Receive` leaves the datagram on
its way, `Lost` takes it off). `Sender` is the lookup: by the source for an
encrypted frame, by the client id for a version 2 frame; an encrypted frame from
an unknown source is taken for a version 2 header, whose client id is then taken
to be unknown. `age` counts the frames a node sent after a datagram; no action
decides by it, it is what `TakenInOrder` speaks of.

### StatusPublisher

`status` is `m_status["nodes"]`: for each node its leaves, each of which is a topic;
`Absent` is a leaf that does not exist, or a topic of which nothing is retained.
The main loop changes it and hands it over (`Changes`), publishes all of it from a
detached thread when a node leaves (`Leaves`) and by a timer (`Synced`). The worker
takes the buffer under its lock (`Takes`), publishes the difference without it,
one topic at a time, and takes what it took as published (`WorkerDone`). How the
leaves are nested is not modelled; what depends on it is left open by
`LeafDifference`: a leaf that is gone is cleared, or not if the object around it
went with it, and an element that has not changed may be published again with its
array. A node that goes as a whole is never cleared. A detached thread publishes
the leaves of its snapshot and clears none. `broker` is what the broker retains.

## 3. What TLC checks

| Run | Configuration | Result |
| --- | --- | --- |
| `tg` | `TGHandler` | the indices agree; the timers end turns when, and only when, they should; blocks are served; every turn ends; `TalkGroups` is implemented |
| `session` | `ClientSession` | callsigns, node lists, and the end of every session |
| `trunk_server` | `TrunkServer` | limits, no dead connection, no usurper, silent peers are cut off |
| `link` | `TrunkLink` | with any two faults and data: ready means accepted, only dead connections time out, stale ones go; after resets and crashes both sides can send again |
| `talk_losses` | `TrunkTalk` | talker shown and tie-break are right under any two losses; a later turn heals a stale lock as long as one side still tries to connect |
| `talk_stable` | `TrunkTalkStable` | without loss every turn frees the group and ends the muting |
| `udp_trunk` | `UdpTrunk` | in four configurations, with any one fault: nothing is heard twice, numbers correspond, an undisturbed turn is seen and heard everywhere, its end too unless the talker selects another group |
| `nodes` | `NodeLists` | the indices of the table agree; who leaves is forgotten and who stays is shown, whatever list is lost or late |
| `node_udp` | `UdpSource` | one source per client; frames in order; a client nobody hears leaves |
| `mqtt` | `StatusPublisher` | no status is missed; the broker catches up on every leaf that exists |
| `trunk_pool`, `link_outage` | see section 5 | a statement of the documents is violated |

Every property of a passing run has a mutant in PROJECT.json: a plausible bug in
one definition that makes TLC find that property violated.

### Bounds

* **Talk groups.** Two clients and two groups: a talker, a listener or
  competitor, and a group to move to, one of them closed to one client by
  `ALLOW`; one client is of version 1 with its default group. The timeouts are
  short (an audio timeout of one, a squelch timeout of four, blocks of one and
  two), but such that both timeouts can fall in one tick; longer ones only make
  the same race longer.
* **Sessions.** Two nodes and two callsigns, so that they may claim the same.
  The counters are 2 and 3 instead of 15 and 120: the order (TCP runs out
  first) is that of the source. One object is never used twice; that a node
  comes back is the second connection with the first one's callsign.
* **Trunk server.** Four connections from three addresses for a pool of two,
  one per address, and two links: both limits are hit separately and together.
* **Trunk link.** Two reflectors; counters 2 and 4 instead of 10 and 15, which
  keeps what the properties need (`TxReset + 1 < RxReset`, an assumption). Two
  faults reach a fault during the recovery from the first. One of the two
  reflectors sends data, over either connection; they are alike otherwise.
* **Trunk talk.** Two reflectors, two nonces, which may be equal; two losses, so
  both connections (with every way for each end to notice, so that both clients
  may end up stopped), or a connection and a satellite; two messages under way,
  so that a stop and the next start can be. Audio only in `talk_stable`, a frame
  per side.
* **UDP trunks.** Four reflectors in a typed mesh with a leaf, as in the sample
  configuration, and with a number that differs at one of them; three, the least
  with a relay between two others, in a tree and in a mesh without relays. Two talkers, two turns
  (the fault of one and the recovery in the next), one loss or overtaking.
* **Node lists.** Two nodes, one UDP peer, one TCP trunk and the reflector itself,
  so that a node can move between any two. The times to live are 2 and 3 periods
  instead of the source's; that of a peer must be longer than a list
  can take to arrive (two periods here), or a node that stays would be forgotten.
* **UDP sources.** Two clients on one host and two ports, so that each can take
  the port of the other; numbers that wrap after four, a delay of one frame
  (the proof has every even width and every delay below half of it); a
  heartbeat counter of 2 instead of 120. With the frames of the run only
  the version 2 node has frames that overtake each other; that version 3 frames are
  taken in order is the theorem `FramesInOrder`, not this run.
* **MQTT.** One node with the leaf `connected` and one more, which may be missing:
  the topics of different leaves and nodes touch each other only in being
  published by one thread. Two detached threads, of which one may be late while the
  other publishes what is.

`CHECK_DEADLOCK FALSE` is given where everything may legitimately stop, because
a model uses each connection once (`session`, `trunk_server`, `trunk_pool`,
`node_udp`) or all turns are spent (`udp_trunk`).

### Fairness

Weak fairness is given only to what the event loop brings about by itself:
timers that run (`CheckTimers`, `Heartbeat`, `HandleHeartbeat`, `DiscTimeout`,
`PendingTimeout`, `HeartbeatTick`, `NextSecond`), sockets that are readable (the
frame actions and `onDisconnected` of a close that has arrived), and the
reconnection of a `TcpPrioClient` that is trying. No node, peer, operator or
satellite is obliged to do anything: nobody has to talk, to stop or to answer.
`HeartbeatTimeout` of TrunkServer stands for counters that run out on a silent
connection. In NodeLists the timers of the reflectors run and a list that is not
lost arrives; in UdpSource only the heartbeat timer is fair, no datagram has to
arrive. In StatusPublisher the threads run, and the timer of `mqtt_sync` is
strongly fair, because the bound on the threads may disable it for a while; the
program has no such bound. In TrunkTalk an end of a broken connection notices, by
the news or because its heartbeat counter runs out (TrunkLink has the counters);
which of the two is left open, so that it may be the timeout every time. A
client reconnects only while it is not `stopped`, as in TrunkLink, where `off` has
no way out.

The liveness properties are stated with what the code does not control in the
premise: `NextTurnHeals` needs a satellite that keeps starting and stopping and a
trunk of which one side at least has not been stopped by its own timeout,
`BlockedForEverOnlyIfSending` names the node that keeps sending;
`LeaverIsForgotten`, `StayerIsShown` and `BrokerCatchesUp` speak of a node (a leaf
of one, and a connection) that at last stays as it is.

## 4. What is proved

For every set of clients, groups, connections, callsigns, links and every value
of the counters, timeouts and nonces that the named assumptions of the modules
admit:

| Theorem | Says |
| --- | --- |
| `TGHandlerProofs!Membership` | the three indices agree, the talker is a connected member of the group |
| `TGHandlerProofs!NoNullTalker` | the squelch timeout never uses a null talker |
| `TGHandlerProofs!BlockedIsSilent` | a blocked client does not get a turn |
| `TGHandlerProofs!Refinement` | the handler implements `TalkGroups` |
| `TGHandlerProofs!QuietTalker` | a quiet talker is off the air one tick after the gap at the latest |
| `TGHandlerProofs!QsyIsSpaced` | automatic QSY requests to a group are `AUTO_QSY_AFTER` apart |
| `TGHandlerProofs!BlockTimeIsServed` | a block is served in silence or lifted by the operator |
| `TGHandlerProofs!SilentStop` | only a talker who selects another group ends its turn unannounced |
| `ClientSessionProofs!CallsignsAreUnique` | callsign map and callsigns are each other's inverse |
| `ClientSessionProofs!NodesKnowEachOther` | a connected node knows exactly the node list |
| `ClientSessionProofs!NoWayBack` | the assertion of `onDiscTimeout` holds |
| `TrunkProofs!InboundIsLive` | a link holds an open connection, mapped to it, out of the pool |
| `TrunkProofs!Unusurped` | a newer connection never replaces an established one |
| `TrunkProofs!PoolIsBounded` | the pool keeps both limits |
| `TrunkProofs!ReadyAgrees` | a ready opener is accepted, or will hear that it is not |
| `TrunkProofs!LiveNeverTimesOut` | no live connection is given up for silence |
| `TrunkTalkProofs!TalkIsCoherent` | the talker shown is known to talk; only those who hear the peer are muted |
| `TrunkTalkProofs!TieBreakIsOneSided` | two reflectors never both give way |
| `UdpTrunkProofs!NumbersHold` | audio and talkers are on the group's own number everywhere |
| `UdpTrunkProofs!NothingTwice` | nothing is heard twice, nor by those of the talker's own reflector |
| `UdpTrunkProofs!SettledIsHeard` | a settled turn has been heard wherever it is meant to come |
| `UdpTrunkProofs!DisplaysSettle` | ... and its talker is shown there exactly if it talks, or has left for another group while it talked |
| `NodeListsProofs!IndicesStayInStep` | the index of the trunks lists what the table has behind each |
| `UdpSourceProofs!FramesInOrder` | frames are taken in the order they were sent |
| `UdpSourceProofs!SourcesAreKnown` | one source a client; who registered while leaving has left a stale one |
| `StatusPublisherProofs!LastStatusIsTaken` | a waiting worker has compared with the last status |

Each proof has an inductive invariant `IInv`, a lemma for the initial states, a
lemma per action or per group of actions, and a temporal step that joins them.

* **TGHandler.** `IInv` is types, the agreement of the indices, and the talker
  being a member. Agreement alone is not inductive: a client that moves is
  removed from the group its index names, so the talker of another group has to
  be known not to be that client. `NoNullTalker` holds
  because the audio timeout that clears a talker also zeroes the squelch count
  which the second timeout of the tick looks at. `Refinement` shows that a disconnect is a `Move` to no group (the
  removal as talker happens in the same step), that audio is a `Take` or a
  stutter, and that timers are a `Release`.
  The timing theorems share a second invariant, `TimeInv`: the time stamp of a group
  is never younger than the last frame of its talker; what is left until the
  deadline of a QSY and what has passed since the last request make up
  `AUTO_QSY_AFTER`, and a group with a talker has its deadline set, so that one lost
  with the `TGInfo` is set again before it counts; what a block still has to
  serve and the silence kept make up its time. `SilentStop` is about steps and
  needs only that a talker is a member of its group.
* **ClientSession.** `LookupFinds` needs that a client without a callsign is
  exactly one that has not finished its login (`LoginIsNameless`), and
  that the counters of a beating client are positive (`BeatingCounts`), else the
  counting would leave its type. The steps that change only one session without
  its callsign are treated once, in `QuietStep`; `Removed` and `Authenticated`
  have a lemma each.
* **TrunkServer.** The link's pointer and the reflector's map must agree, or a
  lost connection could leave the pointer behind. The limits are shown by
  the cardinality of the pool before and after one connection joins or leaves.
* **TrunkLink.** `LinkInv` has the life of a connection as it looks from both ends
  at once: its hello is under way (`Asking`), it is accepted (`Accepted`), the
  acceptor has refused or dropped it and the end is under way (`Refused`), or the
  opener has lost it (`Left`). Each case bounds the receive counter of an
  end by the transmit counter of the other and by whether they have ticked in the
  second under way, which is what makes a timeout of a live connection
  impossible. `CounterAssumption` asks that the receiver counts at least two ticks
  more than the sender.
* **TrunkTalk.** That both sides give way contradicts an order: a side gives way
  only to a smaller nonce (`YieldsToLower`), which is inductive by itself;
  `NeverBothYield` is not, since it says nothing of the nonces.
* **UdpTrunk.** Every datagram under way carries the number that its receiver
  will translate to its own. That rests on `NumberAssumption`, which is what an
  administrator has to see to: each trunk translates between the two numbers,
  peers without a mapping file come first in the list, and a peer that is passed
  on to takes the group under the number of the reflector that passes it on,
  since `Resend` does not remap.
  That nothing comes twice cannot hold for every configuration, because nothing is
  numbered: `WayAssumption` asks that each reflector takes what a talker says
  from one other at most. How the trunks are wired beyond that, in loops
  too, is free. `OnceInv` follows every message along its way: what is under way
  on a link that is listened to has been heard at its start, not at its end, and
  is there once. `SaidInv` is the other half: what a talker whose turn no fault
  hit has said is, along each link that delivers it, heard at the far end or
  under way to it. By `ReachAssumption` the links that deliver lead to
  everyone who is meant to hear the talker; so an empty network means that all
  have heard. `DisplayInv` does the same for starts and stops, which are not
  distinguished by number: for each link the last one under way says what
  the near end shows. It says the same of a talker that talks and of one that has
  gone to another group, for which nothing is sent. A turn that begins takes a talker out of the faults of earlier
  turns, hence the set of reflectors that the turn has not come to yet.
  TLC checks that the configurations of the run meet the three assumptions.
* **NodeLists.** `IndicesMatch` is kept by each method of the table, one lemma
  each, by removal of a set of entries from both indices; the handlers then
  follow from the methods they call.
* **UdpSource.** The invariant ties the next expected number to the age of the
  newest frame taken: modulo the width they differ by the number of the next
  frame of the node. A late frame then has a difference of more than half the
  width, which needs the delay to be less than that. `SourcesAreKnown` needs that
  a client in session that has an entry has a port too, so that its next
  registration does not enter it again.
* **StatusPublisher.** While the worker publishes, a flag that is down says that
  what it has taken is still in the buffer.

Only model-checked: liveness, which is out of the prover's reach (`EveryTurnEnds`,
`BlockedForEverOnlyIfSending`, `LeaverGoes`, `StrangerGoes`, `VanishedGoes`,
`SilentPeerIsDropped`, `StaleIsDropped`, `LinkHealsUncut`, `YieldEnds`, `StopReleases`,
`NextTurnHeals`, `LeaverIsForgotten`, `StayerIsShown`, `UnheardLeaves`,
`BrokerCatchesUp`). Every invariant that a run checks, and every property of steps,
is a theorem.

## 5. Where the code and its documents part

Runs that TLC is expected to find violated, each against a quoted line
(PROJECT.json, `findings`):

* `trunk_pool`: `trunkPendingTimeout` relies on a callback that `disconnect()`
  never makes. A connection that is silent until the hello timer expires occupies
  its place in the pool for ever; after two an address, after five everybody, is
  refused.
* `link_outage`: after an outage that both directions notice by timeout nobody
  reconnects, because the timeout handler stops the `TcpPrioClient`.

Met while modelling and visible in the model, without a run:

* The loss of both connections of a trunk does not release the lock of the peer's
  talker, contrary to `docs/TRUNK_PROTOCOL.md:309`: only `onInboundDisconnected`
  clears it, which a heartbeat timeout never reaches (`GeuTrunkLink.cpp:1092`).
  If both outbound connections have timed out, no later turn clears it either,
  since neither `TcpPrioClient` tries again (`GeuTrunkLink.cpp:1062`).
* A turn of one frame so far can be ended by the next tick, however recent the
  frame, because the stamp is that of an earlier turn (`TGHandler.cpp:216`;
  `TGHandler.h:196` says "Max three seconds gap").
* The clients that monitor a group see the start of a turn that arrives over a UDP
  trunk and never its end: `Reflector.cpp:2322` names `TgFilter` twice where the
  start has `TgMonitorFilter`. `DisplayAgrees` is stated accordingly.
* The loop over the UDP peers leaves the number it has translated for one peer in
  the message for the next (`ReflectorTrunkManager.cpp:617`); relays do not
  translate; QSY requests and flushes are not translated back on receipt. The time
  to live is not serialised, so that a ring of peers with `Retransmit` goes on for
  ever. A QSY request is relayed by `TrunkType`, audio by `TrunkTypeSend`
  (`ReflectorTrunkManager.cpp:816`, `:875`). The documented separator of a mapping
  file is `;`, the parsed one is `,`.
* The nodes of a TCP trunk never expire from the routing table
  (`Reflector.cpp:4573`), and the list is sent when a client connects, before it
  has a callsign, and when one leaves, but not at a login or a change of group
  (`Reflector.cpp:1899`; `GeuTrunkLink.h:109` has all of them).
* A client that registers from a second source while it is leaving
  (`ReflectorClient.cpp:265`) leaves an entry of `client_src_map` behind that points
  at a deleted object; a version 2 node at that source is then not heard. A
  registration sets the expected number back even if it is refused for its port.
* When a node is taken out of the status, the difference publishes an empty value
  for `nodes/<callsign>`, which is no topic of its own: the values below it stay
  retained (`MQTT_message.cpp:251` says "removed"). A snapshot that says it left
  and is dropped without a connection leaves it shown as connected for ever.
  `MQTT_message::m_reflector` is never initialised, though `message_arrived`
  uses it; `clientStatus` tests `m_status` for a node where the nodes are in
  `m_status["nodes"]` (`Reflector.cpp:1868`).
* A leaf that has been removed, an element of `monitoredTGs` for example
  (`ReflectorClient.cpp:1435`), is cleared by the worker's difference only
  (`MQTT_message.cpp:251`, `:271`). It stays retained for ever if that difference is
  dropped without a connection, since it counts as published all the same
  (`MQTT_message.cpp:348`, `:356`); if a detached thread with an older snapshot comes
  after it; or if the node left and came back without it. The full tree of
  `mqtt_sync` publishes what exists and clears nothing (`MQTT_message.cpp:417`).
  `BrokerCatchesUp` therefore speaks of leaves that exist.
* A talker that selects another group sends its listeners no `MsgTalkerStop`
  (`TGHandler.cpp:390`, `ReflectorMsg.h:852`). `SilentStopIsQsy` says it is the
  only such case. Nor is a stop sent over the UDP trunks, so that the clients of
  other reflectors are shown the talker until it talks on the group again and is
  heard to stop; `DisplayAgrees` has it so (`gone`).
* A local client may take a group on which a trunk talker is on the air:
  `Reflector.cpp:2706` looks at the local talker only, `docs/TRUNK_PROTOCOL.md:289`
  shows a guard for both.
* Talkers of the reflector's own clients are not announced to TCP trunk peers,
  only those of satellites and those that come in over a UDP trunk
  (`Reflector.cpp:2303`, `:2369`, with their audio at `:2216`); of its own clients only
  audio and flushes are forwarded (`Reflector.cpp:2731`, `:2791`).
  `ReflectorMsg.h:1833` speaks of local clients.
* `onLocalTalkerStop` also sends a stop for a group it has yielded
  (`GeuTrunkLink.cpp:460`).
* Every message on an inbound connection is written twice
  (`GeuTrunkLink.cpp:1009` and `:1031`); listeners hear audio twice.
* A start on one connection may be overtaken by its stop on the other, when the
  outbound connection becomes ready or is lost in between
  (`GeuTrunkLink.cpp:915`).
* A satellite that is lost in the middle of a turn clears its own
  reflector but sends the trunk peers no stop (`SatelliteLink.cpp:34`).
* The nonce is drawn when the link is made, not per connection, and the smaller
  one wins (`GeuTrunkLink.cpp:744`; `ReflectorMsg.h:1736` words it otherwise).

* Nothing is connected to `m_sat_cleanup_timer`: `processSatelliteCleanup` never
  runs, and a satellite whose heartbeat has timed out (`Reflector.cpp:1265`) keeps
  its link and its groups until its TCP connection is reported lost.
* `ReflectorClient::disconnect` emits the signal on which the reflector deletes the
  client (`ReflectorClient.cpp:1246`, `Reflector.cpp:1938`), and a failed write in
  `sendMsg` calls it (`ReflectorClient.cpp:305`). The handlers that call
  `disconnect` return at once, but those that call `sendMsg` go on with the
  deleted object: `sendError` (`ReflectorClient.cpp:1225`) starts its
  disconnect timer and sets its state. ClientSession has no failing write; a
  connection that is lost is `Closed`, between two handlers.

## 6. What is not modelled, and the plan

PROJECT.json lists every component with what is left out. Not modelled at all,
and not going to be: packing of messages, the certificate authority and its
files, text output, the satellite client (never instantiated), the audio pipe,
the `Async` framework beyond what trunks and sessions use of it.

Partly modelled, with what is left out: satellites (their turns and their loss are in
TrunkTalk, their hello, heartbeat and the end of their links are not), random QSY (when,
not the search for a free group), the control interfaces (the block only). The
external configuration is written by one thread and read by another without a
lock; what comes of that is up to the containers of the library, not to this source.

Next, in this order:

1. `SatelliteServer`: hello, refusal, heartbeat and loss. Properties: a link is
   deleted once, and its groups are freed when the loss is reported; a run for the
   clean-up that never comes.
2. A composition of `TGHandler` and `TrunkTalk` for a chain of three reflectors:
   who holds the group when turns start everywhere, and forwarding between the two
   kinds of trunks.
3. Peer interest and its pruning on a TCP trunk; `RandomQsy`.

Proofs to come: the safety half of what is only model-checked now, that is bounds on
the ticks a liveness property may take (that a dead connection is dropped within
the receive counter, that a node that is not heard leaves within its count), stated as
invariants with a clock as history; and the theorems of the modules above.
