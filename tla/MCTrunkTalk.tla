---------------------------- MODULE MCTrunkTalk ----------------------------
(* Small instances of TrunkTalk for TLC. *)
EXTENDS TrunkTalk

=============================================================================
