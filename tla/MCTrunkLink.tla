---------------------------- MODULE MCTrunkLink ----------------------------
(* Small instances of TrunkLink for TLC. *)
EXTENDS TrunkLink

=============================================================================
