---------------------------- MODULE RoutingTable ----------------------------
(***************************************************************************)
(* The table of the nodes and the trunks behind which they are             *)
(* (routing_table.hpp), as operators on a record of its two indices.  A    *)
(* method holds the lock from its first line to its last, so that each is  *)
(* one step.  Talk groups are left out: no method looks at them.           *)
(***************************************************************************)
EXTENDS Integers

CONSTANTS
    Callsign,   \* calsing
    Trunk,      \* trunk addresses: hosts, sections, and the reflector itself
    NoTrunk     \* the trunk of a callsign that is not in table_

ASSUME TableAssumption == NoTrunk \notin Trunk

(* expires_at, in periods of the timer from now; nullopt is immortal. *)
Immortal == -1

RoutingEntry == [trunk : Trunk \cup {NoTrunk}, ttl : Nat \cup {Immortal}]

NoEntry == [trunk |-> NoTrunk, ttl |-> Immortal]

Table == [table : [Callsign -> RoutingEntry], trunk_index : [Trunk -> SUBSET Callsign]]

Empty == [table |-> [c \in Callsign |-> NoEntry], trunk_index |-> [t \in Trunk |-> {}]]

IsExpired(e) == e.ttl = 0

(* remove_from_trunk_index, of the entries cs: each from its own trunk. *)
Unindexed(rt, cs) ==
    [t \in Trunk |-> rt.trunk_index[t] \ {c \in cs : rt.table[c].trunk = t}]

(* The bug of an upsert that leaves the index of the former trunk alone. *)
IndexKept(rt, cs, trunk) == [rt.trunk_index EXCEPT ![trunk] = @ \cup cs]

UpsertIndex(rt, cs, trunk) == [Unindexed(rt, cs) EXCEPT ![trunk] = @ \cup cs]

(* The bug of an insert that does not overwrite. *)
Inserted(rt, cs, trunk) ==
    LET new == {c \in cs : rt.table[c].trunk = NoTrunk} IN
    [table |-> [c \in Callsign |-> IF c \in new THEN [trunk |-> trunk, ttl |-> Immortal]
                                                ELSE rt.table[c]],
     trunk_index |-> UpsertIndex(rt, new, trunk)]

(* upsert, of every node of a list: the entry is new, without an expiry. *)
Upsert(rt, cs, trunk) ==
    [table |-> [c \in Callsign |-> IF c \in cs THEN [trunk |-> trunk, ttl |-> Immortal]
                                               ELSE rt.table[c]],
     trunk_index |-> UpsertIndex(rt, cs, trunk)]

(* Both removals take the entries cs from both indices. *)
Remove(rt, cs) ==
    [table |-> [c \in Callsign |-> IF c \in cs THEN NoEntry ELSE rt.table[c]],
     trunk_index |-> Unindexed(rt, cs)]

RemoveByTrunk(rt, trunk) ==
    Remove(rt, {c \in rt.trunk_index[trunk] : rt.table[c].trunk # NoTrunk})

RemoveExpired(rt) == Remove(rt, {c \in Callsign : IsExpired(rt.table[c])})

(* The bug of a handler without it: its entries are immortal. *)
NotRefreshed(rt, trunk, ttl) == rt

(* refresh_ttl_by_trunk *)
RefreshTtlByTrunk(rt, trunk, ttl) ==
    [rt EXCEPT !.table = [c \in Callsign |->
        IF c \in rt.trunk_index[trunk] /\ rt.table[c].trunk # NoTrunk
        THEN [rt.table[c] EXCEPT !.ttl = ttl] ELSE rt.table[c]]]

(* One period passes. *)
Aged(rt) ==
    [rt EXCEPT !.table = [c \in Callsign |->
        IF rt.table[c].ttl > 0 THEN [rt.table[c] EXCEPT !.ttl = @ - 1] ELSE rt.table[c]]]

(* What for_each shows: the nodes behind a trunk that have not expired. *)
FindByTrunk(rt, trunk) ==
    {c \in Callsign : rt.table[c].trunk = trunk /\ ~IsExpired(rt.table[c])}

(* The two indices say the same. *)
IndicesMatch(rt) ==
    \A t \in Trunk : rt.trunk_index[t] = {c \in Callsign : rt.table[c].trunk = t}
=============================================================================
