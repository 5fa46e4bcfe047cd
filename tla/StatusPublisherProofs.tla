----------------------- MODULE StatusPublisherProofs ------------------------
(***************************************************************************)
(* No status handed over to the worker of MQTT_message is missed.  While   *)
(* the worker publishes, a flag that is down says that what it has taken   *)
(* is still what the buffer holds.                                         *)
(***************************************************************************)
EXTENDS StatusPublisher, TLAPS

TakenIsCurrent == working /\ ~dirty => taken = buffer

IInv == NoStatusIsMissed /\ TakenIsCurrent

(* Nothing is taken, and nothing has been handed over.                     *)
LEMMA IInvInit == Init => IInv
BY DEF Init, IInv, NoStatusIsMissed, TakenIsCurrent, Nothing

(* The main loop: what it hands over raises the flag.                      *)
LEMMA MainKeeps ==
    ASSUME IInv,
           \/ \E n \in Node : Leaves(n) \/ \E s \in NodeStatus, b \in BOOLEAN : Changes(n, s, b)
           \/ Synced
    PROVE  IInv'
<1>1. ASSUME NEW n \in Node, Leaves(n) PROVE IInv'
  BY <1>1 DEF Leaves, IInv, NoStatusIsMissed, TakenIsCurrent, worker
<1>2. ASSUME NEW n \in Node, NEW s \in NodeStatus, NEW b \in BOOLEAN, Changes(n, s, b)
      PROVE  IInv'
  <2>1. UNCHANGED <<working, taken, prev_status>>
    BY <1>2 DEF Changes, worker
  <2>2. CASE b
    <3>1. dirty'
      BY <1>2, <2>2 DEF Changes
    <3>2. QED
      BY <3>1 DEF IInv, NoStatusIsMissed, TakenIsCurrent
  <2>3. CASE ~b
    <3>1. buffer' = buffer
      BY <1>2, <2>3 DEF Changes
    <3>2. dirty' <=> dirty
      BY <1>2, <2>3, Zenon DEF Changes
    <3>3. QED
      BY <2>1, <3>1, <3>2 DEF IInv, NoStatusIsMissed, TakenIsCurrent
  <2>4. QED
    BY <2>2, <2>3
<1>3. CASE Synced
  BY <1>3 DEF Synced, IInv, NoStatusIsMissed, TakenIsCurrent, worker
<1>4. QED
  BY <1>1, <1>2, <1>3

(* The worker: it takes under the lock, and is done with what it took.     *)
LEMMA WorkerKeeps ==
    ASSUME IInv, Takes \/ WorkerDone \/ \E n \in Node, l \in Leaf : WorkerPublishes(n, l)
    PROVE  IInv'
<1>1. CASE Takes
  BY <1>1 DEF Takes, IInv, NoStatusIsMissed, TakenIsCurrent
<1>2. CASE WorkerDone
  BY <1>2 DEF WorkerDone, IInv, NoStatusIsMissed, TakenIsCurrent
<1>3. ASSUME NEW n \in Node, NEW l \in Leaf, WorkerPublishes(n, l) PROVE IInv'
  BY <1>3 DEF WorkerPublishes, IInv, NoStatusIsMissed, TakenIsCurrent
<1>4. QED
  BY <1>1, <1>2, <1>3

LEMMA IInvNext == IInv /\ [Next]_vars => IInv'
<1> SUFFICES ASSUME IInv, [Next]_vars PROVE IInv'
  OBVIOUS
<1>1. CASE \/ \E n \in Node : Leaves(n) \/ \E s \in NodeStatus, b \in BOOLEAN : Changes(n, s, b)
           \/ Synced
  BY <1>1, MainKeeps
<1>2. CASE Takes \/ WorkerDone \/ \E n \in Node, l \in Leaf : WorkerPublishes(n, l)
  BY <1>2, WorkerKeeps
<1>3. ASSUME NEW t \in Thread, NEW n \in Node, NEW l \in Leaf, ThreadPublishes(t, n, l) PROVE IInv'
  BY <1>3 DEF ThreadPublishes, IInv, NoStatusIsMissed, TakenIsCurrent, worker
<1>4. CASE ConnectionChanges \/ UNCHANGED vars
  BY <1>4 DEF ConnectionChanges, vars, IInv, NoStatusIsMissed, TakenIsCurrent, worker
<1>5. QED
  BY <1>1, <1>2, <1>3, <1>4 DEF Next

(* For any nodes, statuses and detached threads, and however the main loop *)
(* and the worker interleave: a worker that waits with the flag down has   *)
(* compared with the last status handed over.                              *)
THEOREM LastStatusIsTaken == Safe => []NoStatusIsMissed
<1>1. IInv => NoStatusIsMissed
  BY DEF IInv
<1>2. QED
  BY <1>1, IInvInit, IInvNext, PTL DEF Safe
=============================================================================
