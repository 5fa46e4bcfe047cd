---------------------------- MODULE MCTGHandler ----------------------------
(* Small instances of TGHandler for TLC. *)
EXTENDS TGHandler, TLC

CONSTANTS a, b, g1, g2

(* Client b may not use group g2. *)
MCAllowed == {<<a, g1>>, <<a, g2>>, <<b, g1>>}
OpenAllowed == Client \X TG
MCAutoQsyAfter == [g \in TG |-> IF g = g1 THEN 1 ELSE 0]
NoAutoQsy == [g \in TG |-> 0]

=============================================================================
