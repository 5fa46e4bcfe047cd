---------------------------- MODULE MCNodeLists -----------------------------
(* One reflector with a UDP peer and a TCP trunk, for TLC. *)
EXTENDS NodeLists

MCMaxWire == [r \in Udp \cup Tcp |-> IF r \in Udp THEN 2 ELSE 1]
=============================================================================
