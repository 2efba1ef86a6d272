-------------------------------- MODULE Peers --------------------------------
(***************************************************************************)
(* Names shared by every module of the peering side: relays, the ids of    *)
(* their peer sessions, and maps.  A std::map is a function whose domain   *)
(* is the set of its keys.                                                 *)
(***************************************************************************)
EXTENDS Integers, Sequences, Functions

CONSTANTS
    Node,         \* node ids, never 0 (0 is "unknown" in PeerManager)
    MaxSession    \* largest peer session id

ASSUME MaxSessionAssumption == MaxSession \in Nat

\* Session ids are transport connection ids: positive and totally ordered,
\* which is the order the maps are traversed in.  0 stands for "no session".
Session == 1..MaxSession

NoSession == 0

Put(map, key, value) ==
    [k \in DOMAIN map \cup {key} |-> IF k = key THEN value ELSE map[k]]

Erase(map, keys) == Restrict(map, DOMAIN map \ keys)

EmptyMap == [k \in {} |-> NoSession]
=============================================================================
