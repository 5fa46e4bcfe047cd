-------------------------- MODULE StatusPublisher ---------------------------
(***************************************************************************)
(* The status of the nodes on the MQTT broker (MQTT_message and the three  *)
(* functions of Reflector that call it).  The main loop hands the whole    *)
(* status to a worker thread, which publishes the difference to what it    *)
(* had before; a node that leaves and a timer start detached threads that  *)
(* publish everything.  All of them publish topic by topic, one topic for  *)
(* each leaf of the tree, and what is published without a connection is    *)
(* dropped.                                                                *)
(***************************************************************************)
EXTENDS Naturals, FiniteSets

CONSTANTS
    Node,
    Leaf,       \* the leaves of a node: members of its objects and arrays
    Connected,  \* the one that mqtt_remove sets
    Value,      \* what the other leaves may hold
    On, Off,    \* true and false, as the leaf Connected has them
    Absent,     \* no such leaf, no such topic, or nothing to publish
    Empty,      \* the payload that clears a retained topic
    Thread      \* bound on the detached threads at one time

ASSUME StatusAssumption ==
    /\ Connected \in Leaf /\ On # Off
    /\ Absent \notin Value \cup {On, Off, Empty} /\ Empty \notin Value \cup {On, Off}

VARIABLES
    status,      \* m_status["nodes"]
    buffer,      \* buffer_
    dirty,       \* bufferDirty_
    working,     \* the worker is publishing and does not wait for the buffer
    taken,       \* toPublish
    prev_status, \* prev_status_
    todo,        \* what the worker has still to publish
    snapshot,    \* what each detached thread has still to publish
    connected,   \* connected_
    broker       \* what the broker has retained of each topic

worker == <<working, taken, prev_status, todo>>
vars == <<status, buffer, dirty, worker, snapshot, connected, broker>>

NoLeaf == [l \in Leaf |-> Absent]
Nothing == [n \in Node |-> NoLeaf]
Idle == {t \in Thread : snapshot[t] = Nothing}

Init ==
    /\ status = Nothing
    /\ buffer = Nothing /\ dirty = FALSE
    /\ working = FALSE /\ taken = Nothing /\ prev_status = Nothing /\ todo = Nothing
    /\ snapshot = [t \in Thread |-> Nothing]
    /\ connected = FALSE
    /\ broker = Nothing

-----------------------------------------------------------------------------
(* The main loop *)

(* What handleNodeInfo and the handlers after it may make of a node. *)
NodeStatus ==
    {s \in [Leaf -> Value \cup {On, Absent}] :
        /\ s[Connected] = On
        /\ \A l \in Leaf \ {Connected} : s[l] # On}

(* The message handlers end in mqtt_send_data, publishBuffered, whether    *)
(* anything is new or not; a change that does not come with a message, say *)
(* of the talker, is not sent.  A node comes with a message.               *)
Changes(n, s, sent) ==
    /\ status[n] = NoLeaf => sent
    /\ status' = [status EXCEPT ![n] = s]
    /\ buffer' = IF sent THEN status' ELSE buffer
    /\ dirty' = (sent \/ dirty)
    /\ UNCHANGED <<worker, snapshot, connected, broker>>

(* publishJsonTreeFullAsync *)
Spawned(tree) == \E t \in Idle : snapshot' = [snapshot EXCEPT ![t] = tree]

(* clientDisconnected: mqtt_remove, and the node is taken out; it may have *)
(* had no status yet.                                                      *)
Leaves(n) ==
    /\ Spawned([status EXCEPT ![n][Connected] = Off])
    /\ status' = [status EXCEPT ![n] = NoLeaf]
    /\ UNCHANGED <<buffer, dirty, worker, connected, broker>>

(* The bug of a timer that publishes the difference only. *)
DifferenceSynced ==
    /\ buffer' = status /\ dirty' = TRUE
    /\ UNCHANGED <<status, worker, snapshot, connected, broker>>

(* mqtt_sync *)
Synced ==
    /\ Spawned(status)
    /\ UNCHANGED <<status, buffer, dirty, worker, connected, broker>>

-----------------------------------------------------------------------------
(* The worker, bufferWorker *)

(* computeDiffWithRemovals: what it may find to publish.  A leaf that is   *)
(* gone is cleared if it was lost from an object or array that is still    *)
(* there; what goes as a whole, a node or a part of one, has its own name  *)
(* cleared, which is no topic.  The elements of an array that has changed  *)
(* are published again, those that have not changed with them.             *)
LeafDifference(old, new, l) ==
    IF new[l] # Absent
    THEN IF new[l] # old[l] THEN {new[l]} ELSE {new[l], Absent}
    ELSE IF old[l] # Absent THEN {Empty, Absent} ELSE {Absent}

NodeDifference(old, new) ==
    IF new = old \/ new = NoLeaf THEN {NoLeaf}
    ELSE {d \in [Leaf -> Value \cup {On, Empty, Absent}] :
             \A l \in Leaf : d[l] \in LeafDifference(old, new, l)}

Difference(old, new) ==
    {d \in [Node -> UNION {NodeDifference(old[n], new[n]) : n \in Node}] :
        \A n \in Node : d[n] \in NodeDifference(old[n], new[n])}

(* The buffer is copied and the flag cleared under one lock. *)
Takes ==
    /\ ~working /\ dirty
    /\ working' = TRUE
    /\ taken' = buffer
    /\ dirty' = FALSE
    /\ todo' \in IF connected THEN Difference(prev_status, buffer) ELSE {Nothing}
    /\ UNCHANGED <<status, buffer, prev_status, snapshot, connected, broker>>

(* publish *)
Published(n, l, v) ==
    broker' = IF connected
              THEN [broker EXCEPT ![n][l] = IF v = Empty THEN Absent ELSE v]
              ELSE broker

WorkerPublishes(n, l) ==
    /\ todo[n][l] # Absent
    /\ Published(n, l, todo[n][l])
    /\ todo' = [todo EXCEPT ![n][l] = Absent]
    /\ UNCHANGED <<status, buffer, dirty, working, taken, prev_status, snapshot, connected>>

(* The bug of a flag that is cleared when all is published. *)
WorkerDoneClearing ==
    /\ working /\ todo = Nothing
    /\ working' = FALSE /\ dirty' = FALSE
    /\ prev_status' = taken
    /\ UNCHANGED <<status, buffer, taken, todo, snapshot, connected, broker>>

(* What has been taken counts as published, whatever came of it. *)
WorkerDone ==
    /\ working /\ todo = Nothing
    /\ working' = FALSE
    /\ prev_status' = taken
    /\ UNCHANGED <<status, buffer, dirty, taken, todo, snapshot, connected, broker>>

(* A detached thread, publishJsonTreeFull: the leaves that there are. *)
ThreadPublishes(t, n, l) ==
    /\ snapshot[t][n][l] # Absent
    /\ Published(n, l, snapshot[t][n][l])
    /\ snapshot' = [snapshot EXCEPT ![t][n][l] = Absent]
    /\ UNCHANGED <<status, buffer, dirty, worker, connected>>

(* connected and connection_lost, from the thread of the MQTT client *)
ConnectionChanges ==
    /\ connected' = ~connected
    /\ UNCHANGED <<status, buffer, dirty, worker, snapshot, broker>>

-----------------------------------------------------------------------------
Next ==
    \/ \E n \in Node : Leaves(n) \/ \E s \in NodeStatus, b \in BOOLEAN : Changes(n, s, b)
    \/ Synced
    \/ Takes \/ WorkerDone
    \/ \E n \in Node, l \in Leaf :
          WorkerPublishes(n, l) \/ \E t \in Thread : ThreadPublishes(t, n, l)
    \/ ConnectionChanges

(* Every thread runs, and the timer goes on expiring: strongly fair, since *)
(* the bound on the threads disables it now and then.                      *)
Fairness ==
    /\ SF_vars(Synced)
    /\ WF_vars(Takes) /\ WF_vars(WorkerDone)
    /\ \A n \in Node, l \in Leaf :
          /\ WF_vars(WorkerPublishes(n, l))
          /\ \A t \in Thread : WF_vars(ThreadPublishes(t, n, l))

Safe == Init /\ [][Next]_vars
Spec == Safe /\ Fairness

-----------------------------------------------------------------------------
(* A status that is handed over while the worker publishes the one before  *)
(* is not lost: when the worker waits and the flag is down, the last       *)
(* status handed over is the one it compared with last (publishBuffered    *)
(* and bufferWorker).                                                      *)
NoStatusIsMissed == ~working /\ ~dirty => prev_status = buffer

(* While a leaf of a node stays as it is and the connection holds, the     *)
(* broker comes to show that and goes on showing it, whatever differences  *)
(* were dropped without a connection and whichever thread comes late.  Of  *)
(* a leaf that is gone nothing can be said: publishJsonTreeFull publishes  *)
(* none, so that its topic stays retained if the difference was dropped,   *)
(* if a late thread published it again, or if a node left and came back.   *)
BrokerCatchesUp ==
    \A n \in Node, l \in Leaf, v \in Value \cup {On} :
        <>[](status[n][l] = v /\ connected) => <>[](broker[n][l] = v)
=============================================================================
