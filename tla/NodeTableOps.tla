---------------------------- MODULE NodeTableOps ----------------------------
(***************************************************************************)
(* The node part of the information base of one relay (class InfoBase in   *)
(* src/peering/info_base.cc): which nodes are known through which peer     *)
(* session, and through which session each node is best reached.  The      *)
(* module holds the operations as pure functions of the table, so that     *)
(* NodeTable (one relay on its own) and NodeNetwork (relays exchanging     *)
(* node information) use the same definitions.                             *)
(*                                                                         *)
(* A table is a record of the three maps of InfoBase:                      *)
(*   nodes      nodes_                  <<node id, session id>> -> NodeInfo*)
(*   best       nodes_best_             node id -> session id              *)
(*   bySession  nodes_by_peer_session_  session id -> set of node ids      *)
(*                                                                         *)
(* Of a NodeInfo the table uses the length of the path and the sum of the  *)
(* sRTTs along it: an info is a record [path |-> node ids, srtt |-> sum].  *)
(***************************************************************************)
EXTENDS Peers

-----------------------------------------------------------------------------
Hops(info) == Len(info.path)

EmptyTable == [nodes |-> EmptyMap, best |-> EmptyMap, bySession |-> EmptyMap]

\* The node ids that nodes_by_peer_session_ lists for session s.
IdsOf(t, s) == IF s \in DOMAIN t.bySession THEN t.bySession[s] ELSE {}

GetBestPeerSession(t, n) ==
    IF n \in DOMAIN t.best THEN t.best[n] ELSE NoSession

-----------------------------------------------------------------------------
(***************************************************************************)
(* SelectBestNode.  The loop runs over the sessions of node n in ascending *)
(* order, holding in best_peer_session the preferred session so far.       *)
(***************************************************************************)

\* Bug for the mutation runs: the comparison of the loop inverted.
BeatsInverted(info, held) ==
    Hops(held) < Hops(info) \/ held.srtt < info.srtt

\* The condition under which an entry replaces the one held.
Beats(info, held) ==
    Hops(held) > Hops(info) \/ held.srtt > info.srtt

\* The loop body at session i while session b is held switches to i.
SwitchesTo(nodes, n, b, i) ==
    /\ <<n, i>> \in DOMAIN nodes
    /\ b = NoSession \/ Beats(nodes[<<n, i>>], nodes[<<n, b>>])

\* Scan(...)[i] is the session held once sessions 1..i have been visited,
\* starting from the session b0 that is best now (NoSession if none).
Scan(nodes, n, b0) ==
    LET held[i \in 0..MaxSession] ==
          IF i = 0 THEN b0
          ELSE IF SwitchesTo(nodes, n, held[i - 1], i) THEN i
          ELSE held[i - 1]
    IN  held

\* Bug for the mutation runs: what the loop ends with is stored even if it
\* found no session.
SelectBestNodeAlways(t, n) ==
    LET held == Scan(t.nodes, n, GetBestPeerSession(t, n))
    IN  [table   |-> [t EXCEPT !.best = Put(@, n, held[MaxSession])],
         updated |-> \E i \in Session : SwitchesTo(t.nodes, n, held[i - 1], i)]

\* The table after the selection, and is_updated, the value returned.
SelectBestNode(t, n) ==
    LET held    == Scan(t.nodes, n, GetBestPeerSession(t, n))
        updated == \E i \in Session : SwitchesTo(t.nodes, n, held[i - 1], i)
    IN  [table   |-> IF updated
                     THEN [t EXCEPT !.best = Put(@, n, held[MaxSession])]
                     ELSE t,
         updated |-> updated]

-----------------------------------------------------------------------------
\* Bug for the mutation runs: the session index is not maintained.
AddNodeWithoutIndex(t, s, n, info) ==
    SelectBestNode([t EXCEPT !.nodes = Put(@, <<n, s>>, info)], n)

\* AddNode: insert or replace the entry, index it, select the best session.
AddNode(t, s, n, info) ==
    SelectBestNode([nodes     |-> Put(t.nodes, <<n, s>>, info),
                    best      |-> t.best,
                    bySession |-> Put(t.bySession, s, IdsOf(t, s) \cup {n})],
                   n)

\* Bug for the mutation runs: the best session is kept when its entry goes.
RemoveNodeKeepsBest(t, s, n) ==
    LET ids == IdsOf(t, s) \ {n}
    IN  [nodes     |-> Erase(t.nodes, {<<n, s>>}),
         best      |-> t.best,
         bySession |-> IF ids = {} THEN Erase(t.bySession, {s})
                       ELSE Put(t.bySession, s, ids)]

\* RemoveNode: the node is no longer reachable through session s.  The best
\* session is selected afresh, whether or not it was s.
RemoveNode(t, s, n) ==
    LET ids == IdsOf(t, s) \ {n}
        removed == [nodes     |-> Erase(t.nodes, {<<n, s>>}),
                    best      |-> Erase(t.best, {n}),
                    bySession |-> IF ids = {} THEN Erase(t.bySession, {s})
                                  ELSE Put(t.bySession, s, ids)]
    IN  IF n \in DOMAIN t.best THEN SelectBestNode(removed, n).table
        ELSE removed

\* Bug for the mutation runs: only the nodes whose best session is s go.
PurgeOnlyBest(t, s) ==
    LET ids == {n \in IdsOf(t, s) : GetBestPeerSession(t, n) = s}
    IN  [nodes     |-> Erase(t.nodes, ids \X {s}),
         best      |-> Erase(t.best, ids),
         bySession |-> Erase(t.bySession, {s})]

\* PurgePeerSessionInfo, node part: forget every node learned through s.
\* The selections of the loop are independent, each reading one node's keys.
PurgePeerSessionInfo(t, s) ==
    LET ids      == IdsOf(t, s)
        nodes    == Erase(t.nodes, ids \X {s})
        redo     == ids \cap DOMAIN t.best
        Again(n) == Scan(nodes, n, NoSession)[MaxSession]
        lost     == {n \in redo : Again(n) = NoSession}
    IN  [nodes     |-> nodes,
         best      |-> [n \in DOMAIN t.best \ lost |->
                          IF n \in redo THEN Again(n) ELSE t.best[n]],
         bySession |-> Erase(t.bySession, {s})]

-----------------------------------------------------------------------------
(***************************************************************************)
(* What makes a table well formed, stated once for one relay and for many. *)
(***************************************************************************)
TableType(t, Infos) ==
    /\ t = [nodes |-> t.nodes, best |-> t.best, bySession |-> t.bySession]
    /\ t.nodes \in [DOMAIN t.nodes -> Infos]
    /\ DOMAIN t.nodes \subseteq Node \X Session
    /\ t.best \in [DOMAIN t.best -> Session]
    /\ DOMAIN t.best \subseteq Node
    /\ t.bySession \in [DOMAIN t.bySession -> SUBSET Node]
    /\ DOMAIN t.bySession \subseteq Session

\* nodes_by_peer_session_ lists exactly the keys of nodes_.
IndexMatches(t) ==
    /\ \A n \in Node, s \in Session :
          <<n, s>> \in DOMAIN t.nodes <=> n \in IdsOf(t, s)
    /\ \A s \in DOMAIN t.bySession : t.bySession[s] # {}

\* nodes_best_ has an entry, and one with a key of nodes_, for exactly the
\* nodes that have a key in nodes_.
BestMatches(t) ==
    /\ \A n \in DOMAIN t.best : <<n, t.best[n]>> \in DOMAIN t.nodes
    /\ \A n \in Node, s \in Session :
          <<n, s>> \in DOMAIN t.nodes => n \in DOMAIN t.best
=============================================================================
