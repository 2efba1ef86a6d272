------------------------------ MODULE NodeTable ------------------------------
(***************************************************************************)
(* The node table of one relay, driven by arbitrary node advertisements,   *)
(* withdrawals and session closures.  InfoBase takes its mutex in every    *)
(* one of these operations, so each of them is one atomic action.          *)
(***************************************************************************)
EXTENDS NodeTableOps, FiniteSets

CONSTANT NodeInfo    \* the node informations a peer may advertise

ASSUME NodeInfoAssumption ==
    \A info \in NodeInfo : info.path \in Seq(Node) /\ info.srtt \in Nat

VARIABLE infoBase    \* the maps of InfoBase, see NodeTableOps

tableVars == <<infoBase>>

TableInit == infoBase = EmptyTable

-----------------------------------------------------------------------------
DoAddNode(s, n, info) == infoBase' = AddNode(infoBase, s, n, info).table

DoRemoveNode(s, n) == infoBase' = RemoveNode(infoBase, s, n)

DoPurge(s) == infoBase' = PurgePeerSessionInfo(infoBase, s)

TableNext ==
    \E s \in Session :
        \/ \E n \in Node, info \in NodeInfo : DoAddNode(s, n, info)
        \/ \E n \in Node : DoRemoveNode(s, n)
        \/ DoPurge(s)

TableSpec == TableInit /\ [][TableNext]_tableVars

-----------------------------------------------------------------------------
(***************************************************************************)
(* Properties                                                              *)
(***************************************************************************)

\* The three maps of InfoBase hold node ids, session ids and node infos.
TableTypeOK == TableType(infoBase, NodeInfo)

\* nodes_by_peer_session_ lists exactly the keys of nodes_, session by
\* session, and holds no empty set: PurgePeerSessionInfo walks that index, so
\* an entry missing from it would survive its session.
IndexMatchesNodes == IndexMatches(infoBase)

\* A node has a best session exactly when some session reaches it, and the
\* best session is one of those that do.  SelectBestNode and the lookup loops
\* of its debug dump use nodes_.at on that pair and throw otherwise.
BestIsAnEntry == BestMatches(infoBase)

\* Once PurgePeerSessionInfo(s) has run, nothing in the table mentions s: the
\* session object is destroyed right after it (PeerManager::OnConnectionStatus)
\* and the table only holds weak pointers.
PurgeLeavesNoTrace ==
    [][\A s \in Session : DoPurge(s) =>
          /\ \A k \in DOMAIN infoBase'.nodes : k[2] # s
          /\ \A n \in DOMAIN infoBase'.best : infoBase'.best[n] # s
          /\ s \notin DOMAIN infoBase'.bySession]_tableVars

\* Where at most two sessions reach a node, the best one is not worse than the
\* other in hops and sRTT both, whatever was advertised, replaced and purged
\* before.  With three sessions SelectBestNode does not give even this: see
\* README.md.
BestNotDominated ==
    \A n \in DOMAIN infoBase.best :
        LET reached == {s \in Session : <<n, s>> \in DOMAIN infoBase.nodes}
            held    == infoBase.nodes[<<n, infoBase.best[n]>>]
        IN  Cardinality(reached) <= 2 =>
              \A s \in reached :
                LET other == infoBase.nodes[<<n, s>>]
                IN  ~ /\ Hops(other) <= Hops(held)
                      /\ other.srtt <= held.srtt
                      /\ <<Hops(other), other.srtt>> # <<Hops(held), held.srtt>>

-----------------------------------------------------------------------------
(***************************************************************************)
(* What the repository's documents say and the code does not do            *)
(***************************************************************************)

\* The comment in SelectBestNode: "Choose the node that first matches the
\* below in the order defined: 1. Prefer lower size path 2. Prefer lower
\* total sRTT".
BestInDocumentedOrder ==
    \A n \in DOMAIN infoBase.best : \A s \in Session :
        LET held == infoBase.nodes[<<n, infoBase.best[n]>>]
            other == infoBase.nodes[<<n, s>>]
        IN  <<n, s>> \in DOMAIN infoBase.nodes =>
              \/ Hops(held) < Hops(other)
              \/ Hops(held) = Hops(other) /\ held.srtt <= other.srtt

=============================================================================
