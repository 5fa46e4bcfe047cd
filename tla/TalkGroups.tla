----------------------------- MODULE TalkGroups -----------------------------
(***************************************************************************)
(* What the talk group handler promises, without timers, blocks or         *)
(* messages: a node is in at most one group, a group has at most one       *)
(* talker, the talker is a node of the group, and a turn is never taken    *)
(* over from another node: it ends before the next one starts.             *)
(***************************************************************************)
CONSTANTS Client, TG, NoTG, NoTalker

VARIABLES
    tgOf,    \* the group each node is in, or NoTG
    talker   \* the node talking on each group, or NoTalker

vars == <<tgOf, talker>>

Init ==
    /\ tgOf = [c \in Client |-> NoTG]
    /\ talker = [g \in TG |-> NoTalker]

(* A node moves to another group, or leaves; a talker gives up its turn. *)
Move(c, g) ==
    /\ tgOf' = [tgOf EXCEPT ![c] = g]
    /\ talker' = [h \in TG |-> IF talker[h] = c THEN NoTalker ELSE talker[h]]

(* A member of a group nobody talks on starts to talk. *)
Take(c) ==
    \E g \in TG :
        /\ tgOf[c] = g
        /\ talker[g] = NoTalker
        /\ talker' = [talker EXCEPT ![g] = c]
        /\ UNCHANGED tgOf

(* The turns on the groups in G end together. *)
Release(G) ==
    /\ talker' = [g \in TG |-> IF g \in G THEN NoTalker ELSE talker[g]]
    /\ UNCHANGED tgOf

Next ==
    \/ \E c \in Client, g \in TG \cup {NoTG} : Move(c, g)
    \/ \E c \in Client : Take(c)
    \/ \E G \in SUBSET TG : Release(G)

Spec == Init /\ [][Next]_vars

=============================================================================
