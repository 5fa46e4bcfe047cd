------------------------- MODULE MCStatusPublisher --------------------------
(* One node with a leaf that comes and goes besides "connected", published *)
(* by the worker and two threads that may be late, for TLC.                *)
EXTENDS StatusPublisher
=============================================================================
