----------------------------- MODULE NodeNetwork -----------------------------
(***************************************************************************)
(* Relays that exchange node information over the sessions of              *)
(* PeerSessions.  Every relay runs PeerManager with the node table of      *)
(* NodeTableOps.  NodeReceived is taken as atomic here.                    *)
(***************************************************************************)
EXTENDS NodeTableOps, PeerSessions

CONSTANT Srtt    \* [Session -> Nat]: smoothed round trip time of a session

ASSUME SrttAssumption == Srtt \in [Session -> Nat]

VARIABLE table   \* table[r]: the node table of relay r

vars == <<table, sessionVars>>

-----------------------------------------------------------------------------
\* A relay's own node information, as Connect and ConnectResponse carry it.
SelfInfo == [path |-> <<>>, srtt |-> 0]

NodeMsg(withdraw, n, info) ==
    [kind |-> IF withdraw THEN "withdraw" ELSE "node", id |-> n, info |-> info]

\* info with node n, reached over session s, appended to its path.
Via(info, n, s) ==
    [path |-> Append(info.path, n), srtt |-> info.srtt + Srtt[s]]

-----------------------------------------------------------------------------
(***************************************************************************)
(* PeerManager                                                             *)
(***************************************************************************)

\* Bug for the mutation runs: a relay tells a peer about that peer.
PropagateToEveryone(rem, n, info, withdraw) ==
    [s \in Session |->
        IF rem[s] # NoNode THEN <<NodeMsg(withdraw, n, info)>> ELSE <<>>]

\* PropagateNodeInfo: to every session but the node's own, those without a
\* handshake yet, and those whose remote is in the path.  rem is remote[r].
PropagateNodeInfo(rem, n, info, withdraw) ==
    [s \in Session |->
        IF rem[s] \in {n, NoNode} \cup ToSet(info.path) THEN <<>>
        ELSE <<NodeMsg(withdraw, n, info)>>]

\* Bug for the mutation runs: a withdrawal is passed on as it came.
NodeReceivedSamePath(r, s, rem, n, info, withdraw) ==
    LET added == AddNode(table[r], s, n, info)
    IN  IF withdraw
        THEN [table |-> RemoveNode(table[r], s, n),
              out   |-> PropagateNodeInfo(rem, n, info, TRUE)]
        ELSE [table |-> added.table,
              out   |-> IF added.updated
                        THEN PropagateNodeInfo(rem, n, Via(info, n, s), FALSE)
                        ELSE NoOutput]

\* NodeReceived: the table of r and what r sends, after node information
\* arrived over s.  An advertisement is passed on if AddNode says so, with the
\* node's own id added to the path; a withdrawal always, with r's id added.
NodeReceived(r, s, rem, n, info, withdraw) ==
    IF withdraw
    THEN [table |-> RemoveNode(table[r], s, n),
          out   |-> PropagateNodeInfo(rem, n, Via(info, r, s), TRUE)]
    ELSE LET added == AddNode(table[r], s, n, info)
         IN  [table |-> added.table,
              out   |-> IF added.updated
                        THEN PropagateNodeInfo(rem, n, Via(info, n, s), FALSE)
                        ELSE NoOutput]

\* Bug for the mutation runs: a new peer is not told what is known already.
NoSync(r, s, t, n) == <<>>

\* InfoBaseSyncPeer, node part: every entry of the table t, in the order of
\* its keys, except r itself, the peer n itself, what was learned from this
\* session, and what has the peer in its path.
InfoBaseSyncPeer(r, s, t, n) ==
    LET keys == {k \in DOMAIN t.nodes :
                    /\ k[1] \notin {r, n} /\ k[2] # s
                    /\ n \notin ToSet(t.nodes[k].path)}
        Before(a, b) == a[1] < b[1] \/ (a[1] = b[1] /\ a[2] < b[2])
        Key(i) == CHOOSE k \in keys :
                     Cardinality({j \in keys : Before(j, k)}) = i - 1
    IN  [i \in 1..Cardinality(keys) |->
            NodeMsg(FALSE, Key(i)[1], Via(t.nodes[Key(i)], r, s))]

\* Bug for the mutation runs: the table is not purged.
SessionLostNoPurge(r, s) ==
    [table |-> table[r],
     out   |-> PropagateNodeInfo(remote[r], remote[r][s],
                                 SelfInfo, TRUE)]

\* SessionChanged for a session that is no longer connected: withdraw the
\* remote node (and no other) from every peer, then purge the table.
SessionLost(r, s) ==
    [table |-> PurgePeerSessionInfo(table[r], s),
     out   |-> IF remote[r][s] = NoNode THEN NoOutput
               ELSE PropagateNodeInfo(remote[r], remote[r][s],
                                      SelfInfo, TRUE)]

-----------------------------------------------------------------------------
Init ==
    /\ SessionsInit
    /\ table = [r \in Node |-> EmptyTable]

\* ProcessControlMessage: r takes the next message of session s.
Deliver(r, s) ==
    /\ chan[r][s] # <<>>
    /\ LET m    == Head(chan[r][s])
           info == IF IsHello(m) THEN SelfInfo ELSE m.info
       IN  \E result \in {NodeReceived(r, s, RemoteAfter(r, s, m), m.id, info,
                                      m.kind = "withdraw")} :
              /\ table' = [table EXCEPT ![r] = result.table]
              /\ Take(r, s, m,
                      IF IsHello(m)
                      THEN [result.out EXCEPT ![s] =
                               InfoBaseSyncPeer(r, s, result.table, m.id)]
                      ELSE result.out)

\* Either end learns that the session is gone.
Disconnected(r, s) ==
    /\ \/ r = Client[s] /\ ClientDisconnected(s, SessionLost(r, s).out)
       \/ r = Server[s] /\ ServerDisconnected(s, SessionLost(r, s).out)
    /\ table' = [table EXCEPT ![r] = SessionLost(r, s).table]

\* Nothing is left to do: the network idles.
Idle == Settled /\ UNCHANGED vars

Progress ==
    \E s \in Session :
        \/ (Connect(s) \/ OnNewConnection(s) \/ OnReady(s)) /\ UNCHANGED table
        \/ \E r \in Node : Deliver(r, s) \/ Disconnected(r, s)

Next ==
    \/ Progress
    \/ \E s \in Session : Break(s) /\ UNCHANGED table
    \/ Idle

\* The threads of the relays keep running: while the check thread has a session
\* to open, a transport a notification to make or a message to deliver, one of
\* them does, in any order.  Breaking never has to happen.
Fairness == WF_vars(Progress)

Spec == Init /\ [][Next]_vars /\ Fairness

-----------------------------------------------------------------------------
(***************************************************************************)
(* Properties                                                              *)
(***************************************************************************)
Infos == [path : Seq(Node), srtt : Nat]

\* Tables, session states and messages have their types.
TypeOK ==
    /\ \A r \in Node : TableType(table[r], Infos)
    /\ SessionsType([kind : {"node", "withdraw"}, id : Node, info : Infos])

\* A relay never holds an entry for itself: PropagateNodeInfo and
\* InfoBaseSyncPeer never tell a peer about that peer.
NoSelfEntry ==
    \A r \in Node, s \in Session : <<r, s>> \notin DOMAIN table[r].nodes

\* Every route of a relay, not only the best, uses a session that its
\* PeerManager still holds as connected.  nodes_best_ keeps weak pointers that
\* SelectBestNode and the data path dereference.
RoutesUseLiveSessions ==
    \A r \in Node : \A k \in DOMAIN table[r].nodes : status[r][k[2]] = "connected"

\* While a relay has a session with a neighbour, its best route to that
\* neighbour is a direct one, whatever longer routes it has been told of.
DirectIsBest ==
    \A r \in Node, s \in Session :
        remote[r][s] # NoNode /\ status[r][s] = "connected" =>
            LET n == remote[r][s]
            IN  /\ n \in DOMAIN table[r].best
                /\ remote[r][table[r].best[n]] = n

\* Following best sessions from r for at most as many hops as there are
\* relays leads to n.
Reaches(r, n) ==
    LET at[i \in 0..Cardinality(Node)] ==
          IF i = 0 THEN r
          ELSE LET p == at[i - 1]
               IN  IF p = n \/ n \notin DOMAIN table[p].best THEN p
                   ELSE Peer(p, table[p].best[n])
    IN  at[Cardinality(Node)] = n

\* The network settles: advertisements and withdrawals of nodes die out, after
\* failures and reconnections too; and, where no transport has failed, the best
\* sessions of the relays then lead from every relay to every other.
Converges ==
    <>[](Settled /\ (drops = 0 => \A r, n \in Node : r # n => Reaches(r, n)))

-----------------------------------------------------------------------------
(***************************************************************************)
(* What the repository's documents say and the code does not do            *)
(***************************************************************************)

\* docs/relay-protocol.md: "The Node Path is used to prevent loops".  When all
\* is quiet, following best sessions never returns to the same relay.
NoForwardingLoop ==
    Settled => \A r, n \in Node : r # n /\ n \in DOMAIN table[r].best => Reaches(r, n)

\* docs/relay-protocol.md, of a node withdrawn: "The best path selection will
\* take place to find another path".  When all is quiet, a relay has a route
\* to every relay it is connected to, by any path.
AnotherPathFound ==
    Settled =>
        \A r, n \in Node : r # n /\ (\E q \in Neighbours(r) : n \in Neighbours(q))
            => n \in DOMAIN table[r].best
=============================================================================
