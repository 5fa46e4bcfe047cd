--------------------------- MODULE MCTrunkServer ---------------------------
(* Small instances of TrunkServer for TLC. *)
EXTENDS TrunkServer

CONSTANTS c1, c2, c3, c4, ip1, ip2, ip3

(* Two connections from one address, two more from an address each. *)
MCIpOf == [c \in Con |-> IF c = c3 THEN ip2 ELSE IF c = c4 THEN ip3 ELSE ip1]

=============================================================================
