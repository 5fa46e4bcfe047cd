---------------------------- MODULE MCUdpSource -----------------------------
(* Two clients of one host, for TLC. *)
EXTENDS UdpSource

MCRemoteHost == [c \in Client |-> CHOOSE h \in Host : TRUE]

MCMaxWire == [c \in Client |-> IF c \in MayBeV2 THEN 2 ELSE 1]
=============================================================================
