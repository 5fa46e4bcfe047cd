----------------------------- MODULE MCUdpTrunk -----------------------------
(* Four reflectors, and the trunks between them for TLC. *)
EXTENDS UdpTrunk

CONSTANTS a, b, c, d, g1, g2

Peer(host) == [host |-> host, retransmit |-> TRUE, tgRule |-> TG, map |-> << >>,
               type |-> {}, typeSend |-> {}]
Core(host) == [Peer(host) EXCEPT !.type = {"A"}, !.typeSend = {"B"}]
Leaf(host) == [Peer(host) EXCEPT !.type = {"B"}, !.typeSend = {"A"}]
Direct(host) == [Peer(host) EXCEPT !.retransmit = FALSE]
Mapped(host) == [Direct(host) EXCEPT !.map = [g \in {g1} |-> g2]]

Peers(pa, pb, pc, pd) ==
    [n \in Node |-> CASE n = a -> pa [] n = b -> pb [] n = c -> pc [] OTHER -> pd]

OneNumber == [n \in Node |-> g1]
TwoNumbers == [OneNumber EXCEPT ![a] = g2]
All == {l \in Speaker \X Node : l[1] # l[2]}

(* A tree without types: b in the middle; d is not joined to it. *)
Tree == [peers |-> Peers(<<Peer(b)>>, <<Peer(a), Peer(c)>>, <<Peer(b)>>, << >>),
         number |-> OneNumber, reach |-> {l \in All : d \notin Range(l)}]

(* The sample configuration: core peers of type A that get what comes from *)
(* type B, in a full mesh, and a local reflector a behind b.               *)
CoreAndLeaf ==
    [peers |-> Peers(<<Peer(b)>>, <<Core(c), Core(d), Leaf(a)>>,
                     <<Core(b), Core(d)>>, <<Core(b), Core(c)>>),
     number |-> OneNumber, reach |-> All]

(* A mesh that passes nothing on. *)
Mesh == [peers |-> Peers(<<Direct(b), Direct(c)>>, <<Direct(a), Direct(c)>>,
                         <<Direct(a), Direct(b)>>, << >>),
         number |-> OneNumber, reach |-> {l \in All : d \notin Range(l)}]

(* a has a number of its own for the group: b translates for it, last in   *)
(* its list, and passes on what a sends but nothing to a.                  *)
Translating ==
    [peers |-> Peers(<<Peer(b)>>, <<Peer(c), Peer(d), Mapped(a)>>, <<Peer(b)>>, <<Peer(b)>>),
     number |-> TwoNumbers, reach |-> All \ {<<c, a>>, <<d, a>>}]

MCNetwork == {Tree, CoreAndLeaf, Mesh, Translating}
=============================================================================
