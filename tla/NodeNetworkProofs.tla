-------------------------- MODULE NodeNetworkProofs --------------------------
(***************************************************************************)
(* Proofs about NodeTable, one relay's table under any operations, and     *)
(* about NodeNetwork: for every network of relays, every order in          *)
(* which messages, failures and reconnections happen, and any number of    *)
(* failures, no relay has an entry for itself, every route uses a          *)
(* connected session, and the best route to a neighbour is a direct one.   *)
(***************************************************************************)
EXTENDS NodeTable, NodeNetwork, PeeringProofs

-----------------------------------------------------------------------------
(***************************************************************************)
(* NodeTable: the three maps of InfoBase stay consistent for every number of*)
(* nodes, sessions and informations.                                       *)
(***************************************************************************)

\* The inductive invariant of NodeTable.  BestNotDominated is not inductive: a
\* removal may bring a node from three sessions down to two.  That the best
\* session is the winner, whatever the number of sessions, is.
TableIInv == TableTypeOK /\ IndexMatchesNodes /\ BestIsAnEntry /\ WinnerBest(infoBase)

\* The empty table of a new InfoBase satisfies the invariant.
LEMMA InitIInv == TableInit => TableIInv
<1> SUFFICES ASSUME TableInit PROVE TableIInv
  OBVIOUS
<1>1. /\ infoBase.nodes = EmptyMap /\ infoBase.best = EmptyMap
      /\ infoBase.bySession = EmptyMap /\ DOMAIN EmptyMap = {}
      /\ infoBase = [nodes |-> infoBase.nodes, best |-> infoBase.best,
                  bySession |-> infoBase.bySession]
  BY DEF TableInit, EmptyTable, EmptyMap
<1>2. \A S : EmptyMap \in [{} -> S]
  BY DEF EmptyMap
<1>3. TableType(infoBase, NodeInfo)
  BY <1>1, <1>2 DEF TableType
<1> QED
  BY <1>1, <1>3
     DEF TableIInv, TableTypeOK, IndexMatchesNodes, BestIsAnEntry, IndexMatches,
         BestMatches, IdsOf, WinnerBest, Winner

\* Every operation of InfoBase on the node table preserves the invariant.
LEMMA NextIInv == TableIInv /\ [TableNext]_tableVars => TableIInv'
<1> SUFFICES ASSUME TableIInv, [TableNext]_tableVars PROVE TableIInv'
  OBVIOUS
<1>1. WellFormed(infoBase, NodeInfo) /\ WinnerBest(infoBase)
  BY DEF TableIInv, TableTypeOK, IndexMatchesNodes, BestIsAnEntry, WellFormed
<1>2. SUFFICES WellFormed(infoBase', NodeInfo) /\ WinnerBest(infoBase')
  BY DEF TableIInv, TableTypeOK, IndexMatchesNodes, BestIsAnEntry, WellFormed,
         TableType, IndexMatches, BestMatches, IdsOf, WinnerBest, Winner
<1>3. ASSUME NEW s \in Session, NEW n \in Node, NEW info \in NodeInfo,
             DoAddNode(s, n, info)
      PROVE  WellFormed(infoBase', NodeInfo) /\ WinnerBest(infoBase')
  BY <1>1, <1>3, AddNodeWellFormed DEF DoAddNode
<1>4. ASSUME NEW s \in Session, NEW n \in Node, DoRemoveNode(s, n)
      PROVE  WellFormed(infoBase', NodeInfo) /\ WinnerBest(infoBase')
  BY <1>1, <1>4, RemoveNodeWellFormed DEF DoRemoveNode
<1>5. ASSUME NEW s \in Session, DoPurge(s)
      PROVE  WellFormed(infoBase', NodeInfo) /\ WinnerBest(infoBase')
  BY <1>1, <1>5, PurgeWellFormed DEF DoPurge
<1>6. CASE UNCHANGED tableVars
  BY <1>1, <1>6 DEF tableVars
<1> QED BY <1>3, <1>4, <1>5, <1>6 DEF TableNext

\* Every reachable node table has its type, an index that matches its entries
\* and best sessions that are entries, for any number of nodes and sessions:
\* InfoBase never throws out of nodes_.at.
THEOREM NodeTableInvariant == TableSpec => []TableIInv
<1>1. TableInit => TableIInv
  BY InitIInv
<1>2. TableIInv /\ [TableNext]_tableVars => TableIInv'
  BY NextIInv
<1> QED BY <1>1, <1>2, PTL DEF TableSpec

\* Type correctness of the node table.
THEOREM NodeTableTypeOK == TableSpec => []TableTypeOK
<1>1. TableIInv => TableTypeOK
  BY DEF TableIInv
<1> QED BY <1>1, NodeTableInvariant, PTL

\* The index by session lists exactly the entries of the table.
THEOREM NodeTableIndex == TableSpec => []IndexMatchesNodes
<1>1. TableIInv => IndexMatchesNodes
  BY DEF TableIInv
<1> QED BY <1>1, NodeTableInvariant, PTL

\* A node has a best session exactly when it has an entry, and that session
\* is one of its entries.
THEOREM NodeTableBest == TableSpec => []BestIsAnEntry
<1>1. TableIInv => BestIsAnEntry
  BY DEF TableIInv
<1> QED BY <1>1, NodeTableInvariant, PTL

\* Three different sessions are three.
LEMMA ThreeSessions ==
  ASSUME NEW a, NEW b, NEW c, a # b, a # c, b # c
  PROVE  Cardinality({a, b, c}) = 3
<1>1. IsFiniteSet({a}) /\ Cardinality({a}) = 1
  BY FS_Singleton
<1>2. IsFiniteSet({a} \cup {b}) /\ Cardinality({a} \cup {b}) = Cardinality({a}) + 1
  <2>1. b \notin {a}
    OBVIOUS
  <2> QED BY <1>1, <2>1, FS_AddElement, Zenon
<1>3. Cardinality(({a} \cup {b}) \cup {c}) = Cardinality({a} \cup {b}) + 1
  <2>1. c \notin {a} \cup {b}
    OBVIOUS
  <2> QED BY <1>2, <2>1, FS_AddElement, Zenon
<1>4. {a, b, c} = ({a} \cup {b}) \cup {c}
  OBVIOUS
<1> QED BY <1>1, <1>2, <1>3, <1>4

\* With at most two sessions to a node, SelectBestNode never leaves the node on
\* a session that is worse in hops and sRTT both, whatever was advertised,
\* replaced and purged before: the better of two comparable entries beats the
\* other and is not beaten, and a loop that meets such an entry ends on it.
THEOREM NodeTableBestNotDominated == TableSpec => []BestNotDominated
<1>1. TableIInv => BestNotDominated
  <2> SUFFICES ASSUME TableIInv, NEW n \in DOMAIN infoBase.best,
                      NEW c \in Session, <<n, c>> \in DOMAIN infoBase.nodes,
                      Cardinality({s \in Session : <<n, s>> \in DOMAIN infoBase.nodes}) <= 2,
                      Hops(infoBase.nodes[<<n, c>>]) <= Hops(infoBase.nodes[<<n, infoBase.best[n]>>]),
                      infoBase.nodes[<<n, c>>].srtt <= infoBase.nodes[<<n, infoBase.best[n]>>].srtt,
                      <<Hops(infoBase.nodes[<<n, c>>]), infoBase.nodes[<<n, c>>].srtt>> #
                         <<Hops(infoBase.nodes[<<n, infoBase.best[n]>>]),
                           infoBase.nodes[<<n, infoBase.best[n]>>].srtt>>
               PROVE  FALSE
    BY DEF BestNotDominated
  <2> DEFINE reached == {s \in Session : <<n, s>> \in DOMAIN infoBase.nodes}
             b == infoBase.best[n]
             new == infoBase.nodes[<<n, c>>]
             held == infoBase.nodes[<<n, b>>]
  <2>1. /\ n \in Node /\ b \in Session /\ <<n, b>> \in DOMAIN infoBase.nodes
        /\ infoBase.nodes \in [DOMAIN infoBase.nodes -> NodeInfo]
    BY DEF TableIInv, TableTypeOK, TableType, BestIsAnEntry, BestMatches
  <2>2. /\ new \in NodeInfo /\ held \in NodeInfo
    BY <2>1
  <2>3. /\ Hops(new) \in Nat /\ Hops(held) \in Nat
        /\ new.srtt \in Nat /\ held.srtt \in Nat
    BY <2>2, NodeInfoAssumption DEF Hops
  <2> HIDE DEF new, held
  <2>4. Beats(new, held) /\ ~ Beats(held, new) /\ new # held
    BY <2>3 DEF Beats, new, held, b
  <2>5. c # b
    BY <2>4 DEF new, held
  <2>6. ASSUME NEW x \in Session, <<n, x>> \in DOMAIN infoBase.nodes, x # c
        PROVE  x = b
    <3> SUFFICES ASSUME x # b PROVE FALSE
      OBVIOUS
    <3>1. IsFiniteSet(reached)
      <4>1. IsFiniteSet(Session)
        BY MaxSessionAssumption, FS_Interval DEF Session
      <4> QED BY <4>1, FS_Subset
    <3>2. {b, c, x} \subseteq reached
      BY <2>1, <2>6
    <3>3. Cardinality({b, c, x}) <= Cardinality(reached)
      BY <3>1, <3>2, FS_Subset
    <3>4. Cardinality({b, c, x}) = 3
      BY <2>5, <2>6, ThreeSessions
    <3>5. Cardinality(reached) \in Nat
      BY <3>1, FS_CardinalityType
    <3> QED BY <3>3, <3>4, <3>5
  <2>7. Winner(infoBase.nodes, n, c)
    BY <2>4, <2>6 DEF Winner, new, held
  <2>8. b = c
    BY <2>1, <2>7 DEF TableIInv, WinnerBest
  <2> QED BY <2>5, <2>8
<1> QED BY <1>1, NodeTableInvariant, PTL

\* PurgePeerSessionInfo leaves nothing of the session behind.
THEOREM NodeTablePurge == TableSpec => PurgeLeavesNoTrace
<1>1. TableIInv /\ [TableNext]_tableVars =>
        [\A s \in Session : DoPurge(s) =>
          /\ \A k \in DOMAIN infoBase'.nodes : k[2] # s
          /\ \A n \in DOMAIN infoBase'.best : infoBase'.best[n] # s
          /\ s \notin DOMAIN infoBase'.bySession]_tableVars
  <2> SUFFICES ASSUME TableIInv, NEW s \in Session, DoPurge(s)
               PROVE  /\ \A k \in DOMAIN infoBase'.nodes : k[2] # s
                      /\ \A n \in DOMAIN infoBase'.best : infoBase'.best[n] # s
                      /\ s \notin DOMAIN infoBase'.bySession
    OBVIOUS
  <2>1. WellFormed(infoBase, NodeInfo)
    BY DEF TableIInv, TableTypeOK, IndexMatchesNodes, BestIsAnEntry, WellFormed
  <2> QED BY <2>1, PurgeWellFormed DEF DoPurge
<1> QED BY <1>1, NodeTableInvariant, PTL DEF TableSpec, PurgeLeavesNoTrace


-----------------------------------------------------------------------------
(***************************************************************************)
(* The inductive invariant                                                 *)
(***************************************************************************)

\* What a relay r may find in the channel of session s: the greeting of the
\* other end, or news of a third relay, which, if it is an advertisement, has
\* passed at least one relay.
Greeting(r, s) ==
    Hello(IF r = Server[s] THEN "connect" ELSE "connectResponse", Peer(r, s))

News(r, s) ==
    {m \in [kind : {"node", "withdraw"}, id : Node, info : Infos] :
        /\ m.id # r /\ m.id # Peer(r, s)
        /\ m.kind = "node" => Hops(m.info) # 0}

Message(r, s) == {Greeting(r, s)} \cup News(r, s)

Types ==
    /\ status \in [Node -> [Session ->
                     {"none", "connecting", "connected", "disconnected"}]]
    /\ remote \in [Node -> [Session -> Node \cup {NoNode}]]
    /\ transport \in [Session -> {"idle", "open", "accepted", "up", "down"}]
    /\ drops \in 0..MaxDrops
    /\ table = [r \in Node |-> table[r]]

\* The channels ch hold messages of their types, and only on their way to the
\* ends of a session that is up.
Channels(ch) ==
    /\ ch = [q \in Node |-> [x \in Session |-> ch[q][x]]]
    /\ \A q \in Node, x \in Session :
          /\ ch[q][x] \in Seq(Message(q, x))
          /\ ch[q][x] # <<>> => transport[x] = "up" /\ q \in Ends(x)

Tables == \A r \in Node : WellFormed(table[r], Infos) /\ DirectBest(table[r])

\* Nothing is known of a session before its handshake.
Fresh ==
    \A r \in Node, s \in Session :
        /\ transport[s] = "idle" => status[r][s] = "none"
        /\ transport[s] \in {"idle", "open", "accepted"} => remote[r][s] = NoNode

\* As long as the transport works, each end holds the session, and only the
\* client keeps one that does not.
LiveEnds ==
    \A s \in Session :
        /\ transport[s] \in {"accepted", "up"} => status[Server[s]][s] = "connected"
        /\ transport[s] \in {"open", "accepted", "up"} =>
              status[Client[s]][s] \in {"connecting", "connected"}
        /\ \A r \in Node : status[r][s] = "disconnected" => r = Client[s]

\* The first message a client takes is the server's greeting: the server sends
\* nothing before it has the client's.
GreetingFirst ==
    \A s \in Session :
        status[Client[s]][s] = "connecting" /\ transport[s] = "up" =>
            IF chan[Client[s]][s] = <<>> THEN remote[Server[s]][s] = NoNode
            ELSE IsHello(Head(chan[Client[s]][s]))

\* A handshake tells an end who is at the other.
RemoteIsPeer ==
    \A r \in Node, s \in Session :
        remote[r][s] # NoNode => r \in Ends(s) /\ remote[r][s] = Peer(r, s)

\* A connected session that had its handshake has the direct entry of the
\* other end, and it has no other entry without hops.
HasDirectEntry ==
    \A r \in Node, s \in Session :
        remote[r][s] # NoNode /\ status[r][s] = "connected" =>
            /\ <<remote[r][s], s>> \in DOMAIN table[r].nodes
            /\ Direct(table[r].nodes[<<remote[r][s], s>>])

OnlyDirectEntry ==
    \A r \in Node, n \in Node, s \in Session :
        <<n, s>> \in DOMAIN table[r].nodes /\ Hops(table[r].nodes[<<n, s>>]) = 0 =>
            remote[r][s] = n

SessionInv ==
    /\ Types /\ Channels(chan) /\ Fresh /\ LiveEnds
    /\ GreetingFirst /\ RemoteIsPeer

TableInv ==
    /\ Tables /\ HasDirectEntry /\ OnlyDirectEntry
    /\ NoSelfEntry /\ RoutesUseLiveSessions

IInv == SessionInv /\ TableInv

-----------------------------------------------------------------------------
(***************************************************************************)
(* Sessions and informations                                               *)
(***************************************************************************)

\* The two ends of a session are each other's peers.
LEMMA PeerFacts ==
  ASSUME NEW s \in Session
  PROVE  /\ Client[s] \in Node /\ Server[s] \in Node /\ Client[s] # Server[s]
         /\ \A r : Peer(r, s) \in Ends(s) /\ Peer(r, s) \in Node
         /\ \A r \in Ends(s) : Peer(r, s) # r /\ Peer(Peer(r, s), s) = r
         /\ Peer(Client[s], s) = Server[s] /\ Peer(Server[s], s) = Client[s]
  BY TopologyAssumption DEF Peer, Ends

\* No relay has the id that stands for an unknown one.
LEMMA NodeIsKnown == NoNode \notin Node
  BY TopologyAssumption DEF NoNode

\* Node informations are closed under what the relays do to them, and one that
\* has passed a relay has a hop.
LEMMA InfoFacts ==
  /\ Measured(Infos)
  /\ SelfInfo \in Infos /\ Direct(SelfInfo)
  /\ \A info \in Infos, n \in Node, s \in Session :
        Via(info, n, s) \in Infos /\ Hops(Via(info, n, s)) # 0
<1>1. Measured(Infos)
  <2> SUFFICES ASSUME NEW info \in Infos
               PROVE  Hops(info) \in Nat /\ info.srtt \in Nat
    BY DEF Measured
  <2>1. info.path \in Seq(Node) /\ info.srtt \in Nat
    BY DEF Infos
  <2> QED BY <2>1, LenProperties DEF Hops
<1>2. SelfInfo \in Infos /\ Direct(SelfInfo)
  <2>1. <<>> \in Seq(Node) /\ Len(<<>>) = 0
    BY EmptySeq
  <2> QED BY <2>1 DEF SelfInfo, Infos, Direct, Hops
<1>3. ASSUME NEW info \in Infos, NEW n \in Node, NEW s \in Session
      PROVE  Via(info, n, s) \in Infos /\ Hops(Via(info, n, s)) # 0
  <2>1. info.path \in Seq(Node) /\ info.srtt \in Nat /\ Srtt[s] \in Nat
    BY SrttAssumption DEF Infos
  <2>2. /\ Append(info.path, n) \in Seq(Node)
        /\ Len(Append(info.path, n)) = Len(info.path) + 1 /\ Len(info.path) \in Nat
    BY <2>1, AppendProperties, LenProperties
  <2>3. info.srtt + Srtt[s] \in Nat
    BY <2>1
  <2> QED BY <2>2, <2>3 DEF Via, Infos, Hops
<1> QED BY <1>1, <1>2, <1>3

-----------------------------------------------------------------------------
(***************************************************************************)
(* What a relay sends                                                      *)
(***************************************************************************)

\* What r may put on session s, and on all its sessions.
Sendable(r, s) == Seq(News(Peer(r, s), s))

CanSend(r, out) ==
    /\ out = [s \in Session |-> out[s]]
    /\ \A s \in Session : out[s] \in Sendable(r, s)

\* A message about a relay that is neither end of the session.
LEMMA NodeMsgIsNews ==
  ASSUME NEW r \in Node, NEW s \in Session, NEW n \in Node \ {r, Peer(r, s)},
         r \in Ends(s), NEW info \in Infos, NEW withdraw \in BOOLEAN,
         withdraw \/ Hops(info) # 0
  PROVE  NodeMsg(withdraw, n, info) \in News(Peer(r, s), s)
<1> DEFINE m == NodeMsg(withdraw, n, info)
<1>1. /\ m \in [kind : {"node", "withdraw"}, id : Node, info : Infos]
      /\ m.id = n /\ m.info = info /\ (m.kind = "node" => ~ withdraw)
  BY DEF NodeMsg
<1>2. n # Peer(r, s) /\ n # Peer(Peer(r, s), s)
  BY PeerFacts
<1> QED BY <1>1, <1>2 DEF News

\* The remotes that r knows are the other ends of its sessions.
Remotes(r, rem) ==
    /\ rem \in [Session -> Node \cup {NoNode}]
    /\ \A s \in Session : rem[s] # NoNode => r \in Ends(s) /\ rem[s] = Peer(r, s)

\* PropagateNodeInfo tells no relay about itself.
LEMMA PropagateOutput ==
  ASSUME NEW r \in Node, NEW rem, Remotes(r, rem), NEW n \in Node \ {r},
         NEW info \in Infos, NEW withdraw \in BOOLEAN, withdraw \/ Hops(info) # 0
  PROVE  CanSend(r, PropagateNodeInfo(rem, n, info, withdraw))
<1> DEFINE out == PropagateNodeInfo(rem, n, info, withdraw)
<1>1. out = [s \in Session |-> out[s]]
  BY DEF PropagateNodeInfo
<1>2. ASSUME NEW s \in Session
      PROVE  out[s] \in Sendable(r, s)
  <2>1. CASE rem[s] \in {n, NoNode} \cup ToSet(info.path)
    <3>1. out[s] = <<>>
      BY <2>1 DEF PropagateNodeInfo
    <3> QED BY <3>1, EmptySeq DEF Sendable
  <2>2. CASE rem[s] \notin {n, NoNode} \cup ToSet(info.path)
    <3>1. out[s] = <<NodeMsg(withdraw, n, info)>>
      BY <2>2 DEF PropagateNodeInfo
    <3>2. r \in Ends(s) /\ n # Peer(r, s)
      BY <2>2 DEF Remotes
    <3>3. NodeMsg(withdraw, n, info) \in News(Peer(r, s), s)
      BY <3>2, NodeMsgIsNews
    <3> HIDE DEF out
    <3> QED BY <3>1, <3>3 DEF Sendable
  <2> QED BY <2>1, <2>2
<1> HIDE DEF out
<1> QED BY <1>1, <1>2 DEF out, CanSend

\* No output is fine on any session.
LEMMA NoOutputFacts == \A r \in Node : CanSend(r, NoOutput)
  BY EmptySeq DEF NoOutput, Sendable, CanSend

\* NodeReceived sends news of the node only, and not to that node.
LEMMA ReceivedOutput ==
  ASSUME NEW r \in Node, NEW s \in Session, NEW rem, Remotes(r, rem),
         NEW n \in Node \ {r}, NEW info \in Infos, NEW withdraw \in BOOLEAN
  PROVE  CanSend(r, NodeReceived(r, s, rem, n, info, withdraw).out)
<1>1. /\ Via(info, r, s) \in Infos /\ Via(info, n, s) \in Infos
      /\ Hops(Via(info, n, s)) # 0
  BY InfoFacts
<1>2. CASE withdraw
  <2>1. NodeReceived(r, s, rem, n, info, withdraw).out
          = PropagateNodeInfo(rem, n, Via(info, r, s), TRUE)
    BY <1>2 DEF NodeReceived
  <2> QED BY <1>1, <2>1, PropagateOutput
<1>3. CASE ~ withdraw
  <2> DEFINE added == AddNode(table[r], s, n, info)
  <2>1. NodeReceived(r, s, rem, n, info, withdraw).out
          = IF added.updated THEN PropagateNodeInfo(rem, n, Via(info, n, s), FALSE)
            ELSE NoOutput
    BY <1>3 DEF NodeReceived
  <2> HIDE DEF added
  <2>2. CASE added.updated
    BY <1>1, <2>1, <2>2, PropagateOutput
  <2>3. CASE ~ added.updated
    BY <2>1, <2>3, NoOutputFacts
  <2> QED BY <2>2, <2>3
<1> QED BY <1>2, <1>3

-----------------------------------------------------------------------------
(***************************************************************************)
(* InfoBaseSyncPeer.  It walks the keys of a map in their order, the one   *)
(* with i - 1 keys before it as the i-th.  There is one for every i: the   *)
(* number of keys before a key is an injection into 0..Cardinality - 1,    *)
(* so it is onto.                                                          *)
(***************************************************************************)
Before(a, b) == a[1] < b[1] \/ (a[1] = b[1] /\ a[2] < b[2])

LEMMA RankExists ==
  ASSUME NEW K, IsFiniteSet(K), K \subseteq Nat \X Nat, NEW i \in 1..Cardinality(K)
  PROVE  \E k \in K : Cardinality({j \in K : Before(j, k)}) = i - 1
<1> DEFINE rel == {x \in K \X K : Before(x[1], x[2])}
<1>1. \A k \in K : k = <<k[1], k[2]>> /\ k[1] \in Nat /\ k[2] \in Nat
  OBVIOUS
<1>2. \A a, b \in K : <<a, b>> \in rel <=> Before(a, b)
  BY Zenon
<1>3. /\ \A a \in K : ~ Before(a, a)
      /\ \A a, b \in K : a # b => Before(a, b) \/ Before(b, a)
      /\ \A a, b, c \in K : Before(a, b) /\ Before(b, c) => Before(a, c)
  BY <1>1 DEF Before
<1> HIDE DEF rel
<1>4. Orders(rel, K)
  BY <1>2, <1>3 DEF Orders
<1>5. PICK k \in K : Cardinality(Below(K, rel, k)) = i - 1
  BY <1>4, Ranks
<1>6. Below(K, rel, k) = {j \in K : Before(j, k)}
  BY <1>2 DEF Below
<1> QED BY <1>5, <1>6

\* The keys of a table are finitely many.
LEMMA FiniteKeys ==
  ASSUME NEW K, K \subseteq Node \X Session
  PROVE  IsFiniteSet(K) /\ K \subseteq Nat \X Nat
<1>1. IsFiniteSet(Node) /\ Node \subseteq Nat /\ Session \subseteq Nat
  BY TopologyAssumption DEF Session
<1>2. IsFiniteSet(Session)
  BY MaxSessionAssumption, FS_Interval DEF Session
<1>3. IsFiniteSet(Node \X Session)
  BY <1>1, <1>2, FS_Product
<1> QED BY <1>1, <1>3, FS_Subset

\* InfoBaseSyncPeer tells the new peer about third relays, by informations that
\* have passed r.
LEMMA SyncOutput ==
  ASSUME NEW r \in Node, NEW s \in Session, r \in Ends(s),
         NEW t, TableType(t, Infos)
  PROVE  InfoBaseSyncPeer(r, s, t, Peer(r, s)) \in Sendable(r, s)
<1> DEFINE n == Peer(r, s)
           keys == {k \in DOMAIN t.nodes :
                       /\ k[1] \notin {r, n} /\ k[2] # s
                       /\ n \notin ToSet(t.nodes[k].path)}
           Key(i) == CHOOSE k \in keys :
                        Cardinality({j \in keys : Before(j, k)}) = i - 1
           Msg(i) == NodeMsg(FALSE, Key(i)[1], Via(t.nodes[Key(i)], r, s))
           c == Cardinality(keys)
<1>1. InfoBaseSyncPeer(r, s, t, n) = [i \in 1..c |-> Msg(i)]
  BY DEF InfoBaseSyncPeer, Before
<1>2. keys \subseteq Node \X Session /\ keys \subseteq DOMAIN t.nodes
  BY DEF TableType
<1>3. \A k \in keys : k[1] \in Node \ {r, n}
  BY <1>2
<1>4. \A k \in keys : t.nodes[k] \in Infos
  BY <1>2 DEF TableType
<1> HIDE DEF keys
<1>5. IsFiniteSet(keys) /\ keys \subseteq Nat \X Nat /\ c \in Nat
  BY <1>2, FiniteKeys, FS_CardinalityType
<1>6. ASSUME NEW i \in 1..c
      PROVE  Msg(i) \in News(n, s)
  <2>1. \E k \in keys : Cardinality({j \in keys : Before(j, k)}) = i - 1
    BY <1>5, RankExists
  <2>2. Key(i) \in keys
    BY <2>1
  <2> HIDE DEF Key
  <2>3. Via(t.nodes[Key(i)], r, s) \in Infos /\ Hops(Via(t.nodes[Key(i)], r, s)) # 0
    BY <1>4, <2>2, InfoFacts
  <2> QED BY <1>3, <2>2, <2>3, NodeMsgIsNews
<1>7. [i \in 1..c |-> Msg(i)] \in Seq(News(n, s))
  <2> HIDE DEF Msg, c, n
  <2> QED BY <1>5, <1>6
<1> QED BY <1>1, <1>7 DEF Sendable

-----------------------------------------------------------------------------
(***************************************************************************)
(* Sending                                                                 *)
(***************************************************************************)

\* r sends on x only if its end is connected, the transport is up, and r has
\* what it needs to send.
Sends(r, st, rem, x) ==
    /\ r \in Ends(x) /\ st[x] = "connected" /\ transport[x] = "up"
    /\ r = Client[x] \/ rem[x] # NoNode

\* What Sent does to the channels: it adds behind what is on its way.
LEMMA SentResult ==
  ASSUME NEW ch, Channels(ch), NEW r \in Node, NEW st, NEW rem, NEW out,
         \A x \in Session : out[x] \in Seq(Message(Peer(r, x), x))
  PROVE  LET c == Sent(ch, r, st, rem, out)
         IN  /\ Channels(c)
             /\ \A q \in Node, x \in Session :
                   /\ c[q][x] = IF q = Peer(r, x) /\ Sends(r, st, rem, x)
                                THEN ch[q][x] \o out[x] ELSE ch[q][x]
                   /\ ch[q][x] # <<>> =>
                         c[q][x] # <<>> /\ Head(c[q][x]) = Head(ch[q][x])
<1> DEFINE c == Sent(ch, r, st, rem, out)
<1>1. /\ c = [q \in Node |-> [x \in Session |-> c[q][x]]]
      /\ \A q \in Node, x \in Session :
            c[q][x] = IF q = Peer(r, x) /\ Sends(r, st, rem, x)
                      THEN ch[q][x] \o out[x] ELSE ch[q][x]
  BY DEF Sent, Sends, Ends
<1> HIDE DEF c
<1>2. ASSUME NEW q \in Node, NEW x \in Session
      PROVE  /\ c[q][x] \in Seq(Message(q, x))
             /\ c[q][x] # <<>> => transport[x] = "up" /\ q \in Ends(x)
             /\ ch[q][x] # <<>> =>
                   c[q][x] # <<>> /\ Head(c[q][x]) = Head(ch[q][x])
  <2>1. ch[q][x] \in Seq(Message(q, x))
        /\ (ch[q][x] # <<>> => transport[x] = "up" /\ q \in Ends(x))
    BY DEF Channels
  <2>2. CASE q = Peer(r, x) /\ Sends(r, st, rem, x)
    <3>1. out[x] \in Seq(Message(q, x)) /\ c[q][x] = ch[q][x] \o out[x]
      BY <1>1, <2>2
    <3>2. transport[x] = "up" /\ q \in Ends(x)
      BY <2>2, PeerFacts DEF Sends
    <3> DEFINE M == Message(q, x)
               a == ch[q][x]
               b == out[x]
    <3>3. a \in Seq(M) /\ b \in Seq(M)
      BY <2>1, <3>1
    <3> HIDE DEF M, a, b
    <3>4. a \o b \in Seq(M) /\ (a # <<>> => a \o b # <<>> /\ Head(a \o b) = Head(a))
      BY <3>3
    <3> QED BY <3>1, <3>2, <3>4 DEF M, a, b
  <2>3. CASE ~ (q = Peer(r, x) /\ Sends(r, st, rem, x))
    BY <1>1, <2>1, <2>3
  <2> QED BY <2>2, <2>3
<1>3. Channels(c)
  BY <1>1, <1>2 DEF Channels
<1> QED BY <1>1, <1>2, <1>3 DEF c

-----------------------------------------------------------------------------
(***************************************************************************)
(* Steps that leave the tables alone                                       *)
(***************************************************************************)

\* A step that changes no table and neither connects nor disconnects an end
\* that had its handshake keeps what the tables say true.
LEMMA TableStays ==
  ASSUME IInv, table' = table,
         \A r \in Node, s \in Session :
            /\ status[r][s] = "connected" =>
                  status'[r][s] = "connected" /\ remote'[r][s] = remote[r][s]
            /\ remote'[r][s] # NoNode /\ status'[r][s] = "connected" =>
                  status[r][s] = "connected"
  PROVE  TableInv'
<1> USE DEF IInv, TableInv
<1>1. ASSUME NEW r \in Node, NEW k \in DOMAIN table[r].nodes
      PROVE  k[2] \in Session /\ status[r][k[2]] = "connected"
  BY DEF Tables, WellFormed, TableType, RoutesUseLiveSessions
<1>2. Tables' /\ NoSelfEntry'
  BY DEF Tables, NoSelfEntry
<1>3. RoutesUseLiveSessions'
  BY <1>1 DEF RoutesUseLiveSessions
<1>4. HasDirectEntry'
  BY DEF HasDirectEntry
<1>5. OnlyDirectEntry'
  <2> SUFFICES ASSUME NEW r \in Node, NEW n \in Node, NEW s \in Session,
                      <<n, s>> \in DOMAIN table[r].nodes,
                      Hops(table[r].nodes[<<n, s>>]) = 0
               PROVE  remote'[r][s] = n
    BY DEF OnlyDirectEntry
  <2>1. status[r][s] = "connected"
    BY <1>1
  <2>2. remote[r][s] = n
    BY DEF OnlyDirectEntry
  <2> QED BY <2>1, <2>2
<1> QED BY <1>2, <1>3, <1>4, <1>5

\* CheckThread opens a session: the one it replaces was disconnected, so that
\* nothing depended on it.
LEMMA ConnectKeepsInvariant ==
  ASSUME IInv, NEW s \in Session, Connect(s), table' = table
  PROVE  IInv'
<1> DEFINE c == Client[s]
           p == Prev[s]
<1> USE DEF IInv, SessionInv
<1>1. /\ transport[s] = "idle" /\ transport' = [transport EXCEPT ![s] = "open"]
      /\ p # NoSession => status[c][p] = "disconnected"
      /\ chan' = chan /\ drops' = drops
  BY DEF Connect
<1>2. c \in Node /\ p \in Session \cup {NoSession}
  BY TopologyAssumption
<1>3. \A x \in Session : transport'[x] = IF x = s THEN "open" ELSE transport[x]
  BY <1>1 DEF Types
<1>4. NoSession \notin Session
  BY DEF Session, NoSession
<1>5. p \in Session => /\ status[c][p] = "disconnected" /\ p # s
                       /\ c = Client[p] /\ transport[p] = "down"
  <2> SUFFICES ASSUME p \in Session
               PROVE  /\ status[c][p] = "disconnected" /\ p # s
                      /\ c = Client[p] /\ transport[p] = "down"
    OBVIOUS
  <2>1. status[c][p] = "disconnected"
    BY <1>1, <1>4
  <2>2. c = Client[p]
    BY <1>2, <2>1 DEF LiveEnds
  <2>3. transport[p] \in {"idle", "open", "accepted", "up", "down"}
    BY DEF Types
  <2>4. transport[p] # "idle"
    BY <1>2, <2>1 DEF Fresh
  <2>5. transport[p] \notin {"open", "accepted", "up"}
    BY <2>1, <2>2 DEF LiveEnds
  <2> QED BY <1>1, <2>1, <2>2, <2>3, <2>4, <2>5
<1>6. /\ status' \in [Node -> [Session ->
                     {"none", "connecting", "connected", "disconnected"}]]
      /\ remote' \in [Node -> [Session -> Node \cup {NoNode}]]
      /\ \A q \in Node, x \in Session :
            /\ status'[q][x] = IF q = c /\ x = s THEN "connecting"
                               ELSE IF q = c /\ x = p THEN "none" ELSE status[q][x]
            /\ remote'[q][x] = IF q = c /\ x = p THEN NoNode ELSE remote[q][x]
  <2> DEFINE Status == {"none", "connecting", "connected", "disconnected"}
             st == [x \in Session |-> CASE x = s -> "connecting"
                                       [] x = p -> "none"
                                       [] OTHER -> status[c][x]]
             re == [x \in Session |-> IF x = p THEN NoNode ELSE remote[c][x]]
  <2>1. /\ status \in [Node -> [Session -> Status]]
        /\ remote \in [Node -> [Session -> Node \cup {NoNode}]]
    BY DEF Types
  <2>2. status' = [status EXCEPT ![c] = st] /\ remote' = [remote EXCEPT ![c] = re]
    BY DEF Connect
  <2>3. \A x \in Session : st[x] = IF x = s THEN "connecting"
                                   ELSE IF x = p THEN "none" ELSE status[c][x]
    <3>1. s # p
      BY <1>5
    <3> HIDE DEF p, c
    <3> QED BY <3>1
  <2>4. st \in [Session -> Status]
    <3>1. st = [x \in Session |-> st[x]]
      OBVIOUS
    <3> HIDE DEF st
    <3> QED BY <1>2, <2>1, <2>3, <3>1
  <2>5. re \in [Session -> Node \cup {NoNode}]
    BY <1>2, <2>1
  <2>6. \A q \in Node, x \in Session :
           /\ status'[q][x] = IF q = c THEN st[x] ELSE status[q][x]
           /\ remote'[q][x] = IF q = c THEN re[x] ELSE remote[q][x]
    <3> HIDE DEF st, re
    <3> QED BY <1>2, <2>1, <2>2
  <2>7. /\ status' \in [Node -> [Session -> Status]]
        /\ remote' \in [Node -> [Session -> Node \cup {NoNode}]]
    <3> HIDE DEF st, re, Status
    <3> QED BY <1>2, <2>1, <2>2, <2>4, <2>5
  <2> HIDE DEF st
  <2> QED BY <2>3, <2>6, <2>7
<1>7. status[c][s] = "none" /\ \A q \in Node : status[q][s] = "none" /\ remote[q][s] = NoNode
  BY <1>1, <1>2 DEF Fresh
<1> HIDE DEF p, c
<1>8. Types'
  BY <1>1, <1>6 DEF Types, IInv, SessionInv
<1>9. Channels(chan)'
  BY <1>1, <1>3 DEF Channels, IInv, SessionInv
<1>10. Fresh'
  BY <1>6, <1>3, <1>5, <1>7 DEF Fresh, IInv, SessionInv
<1>11. LiveEnds'
  <2> SUFFICES ASSUME NEW x \in Session
               PROVE  /\ transport'[x] \in {"accepted", "up"} =>
                            status'[Server[x]][x] = "connected"
                      /\ transport'[x] \in {"open", "accepted", "up"} =>
                            status'[Client[x]][x] \in {"connecting", "connected"}
                      /\ \A r \in Node : status'[r][x] = "disconnected" => r = Client[x]
    BY DEF LiveEnds
  <2>1. Client[x] \in Node /\ Server[x] \in Node
    BY PeerFacts
  <2>2. CASE x = s
    BY <1>6, <1>3, <1>7, <2>1, <2>2 DEF c
  <2>3. CASE x = p
    BY <1>6, <1>3, <1>5, <2>1, <2>3 DEF LiveEnds
  <2>4. CASE x # s /\ x # p
    BY <1>6, <1>3, <2>1, <2>4 DEF LiveEnds
  <2> QED BY <2>2, <2>3, <2>4
<1>12. GreetingFirst'
  <2> SUFFICES ASSUME NEW x \in Session,
                      status'[Client[x]][x] = "connecting", transport'[x] = "up"
               PROVE  IF chan[Client[x]][x] = <<>> THEN remote'[Server[x]][x] = NoNode
                      ELSE IsHello(Head(chan[Client[x]][x]))
    BY <1>1 DEF GreetingFirst
  <2>1. Client[x] \in Node /\ Server[x] \in Node
    BY PeerFacts
  <2>2. x # s /\ x # p /\ transport[x] = "up"
    BY <1>3, <1>5
  <2>3. status[Client[x]][x] = "connecting" /\ remote'[Server[x]][x] = remote[Server[x]][x]
    BY <1>6, <2>1, <2>2
  <2> QED BY <2>2, <2>3 DEF GreetingFirst
<1>13. RemoteIsPeer'
  BY <1>6 DEF RemoteIsPeer
<1>14. TableInv'
  <2>1. ASSUME NEW q \in Node, NEW x \in Session
        PROVE  /\ status[q][x] = "connected" =>
                     status'[q][x] = "connected" /\ remote'[q][x] = remote[q][x]
               /\ remote'[q][x] # NoNode /\ status'[q][x] = "connected" =>
                     status[q][x] = "connected"
    BY <1>6, <1>5, <1>7
  <2> HIDE DEF IInv, SessionInv
  <2> QED BY <2>1, TableStays
<1> QED BY <1>8, <1>9, <1>10, <1>11, <1>12, <1>13, <1>14 DEF IInv, SessionInv

\* The server's end is connected at once; nothing is known of the client yet.
LEMMA OnNewConnectionKeepsInvariant ==
  ASSUME IInv, NEW s \in Session, OnNewConnection(s), table' = table
  PROVE  IInv'
<1> USE DEF IInv, SessionInv
<1>1. /\ transport[s] = "open" /\ transport' = [transport EXCEPT ![s] = "accepted"]
      /\ status' = [status EXCEPT ![Server[s]][s] = "connected"]
      /\ remote' = remote /\ chan' = chan /\ drops' = drops
  BY DEF OnNewConnection
<1>2. Client[s] \in Node /\ Server[s] \in Node /\ Client[s] # Server[s]
  BY PeerFacts
<1>3. /\ \A x \in Session : transport'[x] = IF x = s THEN "accepted" ELSE transport[x]
      /\ \A q \in Node, x \in Session :
            status'[q][x] = IF q = Server[s] /\ x = s THEN "connected" ELSE status[q][x]
  BY <1>1, <1>2 DEF Types
<1>4. \A q \in Node : remote[q][s] = NoNode
  BY <1>1 DEF Fresh
<1>5. Types'
  BY <1>1, <1>2 DEF Types
<1>6. Channels(chan)'
  BY <1>1, <1>3 DEF Channels
<1>7. Fresh'
  BY <1>1, <1>3, <1>4 DEF Fresh
<1>8. LiveEnds'
  <2> SUFFICES ASSUME NEW x \in Session
               PROVE  /\ transport'[x] \in {"accepted", "up"} =>
                            status'[Server[x]][x] = "connected"
                      /\ transport'[x] \in {"open", "accepted", "up"} =>
                            status'[Client[x]][x] \in {"connecting", "connected"}
                      /\ \A r \in Node : status'[r][x] = "disconnected" => r = Client[x]
    BY DEF LiveEnds
  <2>1. Client[x] \in Node /\ Server[x] \in Node
    BY PeerFacts
  <2> QED BY <1>1, <1>2, <1>3, <2>1 DEF LiveEnds
<1>9. GreetingFirst'
  <2> SUFFICES ASSUME NEW x \in Session,
                      status'[Client[x]][x] = "connecting", transport'[x] = "up"
               PROVE  IF chan[Client[x]][x] = <<>> THEN remote[Server[x]][x] = NoNode
                      ELSE IsHello(Head(chan[Client[x]][x]))
    BY <1>1 DEF GreetingFirst
  <2>1. x # s /\ transport[x] = "up" /\ status[Client[x]][x] = "connecting"
    BY <1>3, PeerFacts
  <2> QED BY <2>1 DEF GreetingFirst
<1>10. RemoteIsPeer'
  BY <1>1 DEF RemoteIsPeer
<1>11. TableInv'
  <2>1. ASSUME NEW q \in Node, NEW x \in Session
        PROVE  /\ status[q][x] = "connected" =>
                     status'[q][x] = "connected" /\ remote'[q][x] = remote[q][x]
               /\ remote'[q][x] # NoNode /\ status'[q][x] = "connected" =>
                     status[q][x] = "connected"
    BY <1>1, <1>3, <1>4
  <2> HIDE DEF IInv, SessionInv
  <2> QED BY <2>1, TableStays
<1> QED BY <1>5, <1>6, <1>7, <1>8, <1>9, <1>10, <1>11

\* The client greets first.
LEMMA OnReadyKeepsInvariant ==
  ASSUME IInv, NEW s \in Session, OnReady(s), table' = table
  PROVE  IInv'
<1> DEFINE v == Server[s]
           hello == Hello("connect", Client[s])
<1> USE DEF IInv, SessionInv
<1>1. /\ transport[s] = "accepted" /\ transport' = [transport EXCEPT ![s] = "up"]
      /\ chan' = [chan EXCEPT ![v][s] = Append(@, hello)]
      /\ status' = status /\ remote' = remote /\ drops' = drops
  BY DEF OnReady
<1>2. Client[s] \in Node /\ v \in Node /\ Client[s] # v /\ v \in Ends(s)
  BY PeerFacts DEF Ends
<1>3. \A x \in Session : transport'[x] = IF x = s THEN "up" ELSE transport[x]
  BY <1>1 DEF Types
<1>4. /\ chan = [q \in Node |-> [x \in Session |-> chan[q][x]]]
      /\ \A q \in Node, x \in Session : chan[q][x] \in Seq(Message(q, x))
  BY DEF Channels
<1>5. /\ chan' = [q \in Node |-> [x \in Session |-> chan'[q][x]]]
      /\ \A q \in Node, x \in Session :
            chan'[q][x] = IF q = v /\ x = s THEN Append(chan[v][s], hello)
                          ELSE chan[q][x]
  <2> HIDE DEF hello, v
  <2> DEFINE a == Append(chan[v][s], hello)
             row == [chan[v] EXCEPT ![s] = a]
  <2>1. row = [x \in Session |-> IF x = s THEN a ELSE chan[v][x]]
    BY <1>2, <1>4
  <2>2. chan' = [chan EXCEPT ![v] = row]
    BY <1>1
  <2> HIDE DEF a, row
  <2>3. chan' = [q \in Node |-> IF q = v THEN row ELSE chan[q]]
    BY <1>4, <2>2
  <2>4. ASSUME NEW q \in Node
        PROVE  chan'[q] = [x \in Session |-> IF q = v /\ x = s THEN a ELSE chan[q][x]]
    BY <1>4, <2>1, <2>3
  <2>5. chan' = [q \in Node |-> chan'[q]]
    BY <2>3
  <2> QED BY <2>4, <2>5 DEF a
<1>6. hello \in Message(v, s)
  BY PeerFacts DEF Message, Greeting
<1>7. Append(chan[v][s], hello) \in Seq(Message(v, s))
  BY <1>2, <1>4, <1>6, AppendProperties
<1> HIDE DEF hello, v
<1>8. Types'
  BY <1>1 DEF Types
<1>9. Channels(chan)'
  <2>1. ASSUME NEW q \in Node, NEW x \in Session
        PROVE  /\ chan'[q][x] \in Seq(Message(q, x))
               /\ chan'[q][x] # <<>> => transport'[x] = "up" /\ q \in Ends(x)
    <3>1. CASE q = v /\ x = s
      BY <1>2, <1>3, <1>5, <1>7, <3>1
    <3>2. CASE ~ (q = v /\ x = s)
      BY <1>3, <1>5, <3>2 DEF Channels
    <3> QED BY <3>1, <3>2
  <2> QED BY <1>5, <2>1 DEF Channels
<1>10. Fresh'
  BY <1>1, <1>3 DEF Fresh
<1>11. LiveEnds'
  BY <1>1, <1>3 DEF LiveEnds
<1>12. GreetingFirst'
  <2> SUFFICES ASSUME NEW x \in Session,
                      status[Client[x]][x] = "connecting", transport'[x] = "up"
               PROVE  IF chan'[Client[x]][x] = <<>> THEN remote[Server[x]][x] = NoNode
                      ELSE IsHello(Head(chan'[Client[x]][x]))
    BY <1>1 DEF GreetingFirst
  <2>1. Client[x] \in Node /\ Server[x] \in Node
    BY PeerFacts
  <2>2. chan'[Client[x]][x] = chan[Client[x]][x]
    BY <1>2, <1>5, <2>1
  <2>3. CASE x = s
    <3>1. chan[Client[s]][s] = <<>>
      BY <1>1, <1>2 DEF Channels
    <3>2. remote[Server[s]][s] = NoNode
      BY <1>1, <2>1, <2>3 DEF Fresh
    <3> QED BY <2>2, <2>3, <3>1, <3>2
  <2>4. CASE x # s
    BY <1>3, <2>2, <2>4 DEF GreetingFirst
  <2> QED BY <2>3, <2>4
<1>13. RemoteIsPeer'
  BY <1>1 DEF RemoteIsPeer
<1>14. TableInv'
  <2> HIDE DEF IInv, SessionInv
  <2> QED BY <1>1, TableStays
<1> QED BY <1>8, <1>9, <1>10, <1>11, <1>12, <1>13, <1>14

\* A transport that breaks loses what is in flight, and nothing else yet.
LEMMA BreakKeepsInvariant ==
  ASSUME IInv, NEW s \in Session, Break(s), table' = table
  PROVE  IInv'
<1> USE DEF IInv, SessionInv
<1>1. /\ transport[s] \in {"open", "accepted", "up"}
      /\ transport' = [transport EXCEPT ![s] = "down"]
      /\ chan' = [r \in Node |-> [chan[r] EXCEPT ![s] = <<>>]]
      /\ status' = status /\ remote' = remote
      /\ drops < MaxDrops /\ drops' = drops + 1
  BY DEF Break
<1>2. \A x \in Session : transport'[x] = IF x = s THEN "down" ELSE transport[x]
  BY <1>1 DEF Types
<1>3. /\ chan' = [q \in Node |-> [x \in Session |-> chan'[q][x]]]
      /\ \A q \in Node, x \in Session :
            chan'[q][x] = IF x = s THEN <<>> ELSE chan[q][x]
  <2>1. \A q \in Node : chan[q] = [x \in Session |-> chan[q][x]]
    BY DEF Channels
  <2>2. \A q \in Node : chan'[q] = [x \in Session |-> IF x = s THEN <<>> ELSE chan[q][x]]
    BY <1>1, <2>1
  <2>3. chan' = [q \in Node |-> chan'[q]]
    BY <1>1
  <2> QED BY <2>2, <2>3
<1>4. Types'
  <2>1. drops' \in 0..MaxDrops
    BY <1>1, TopologyAssumption DEF Types
  <2> QED BY <1>1, <2>1 DEF Types
<1>5. Channels(chan)'
  <2>1. ASSUME NEW q \in Node, NEW x \in Session
        PROVE  /\ chan'[q][x] \in Seq(Message(q, x))
               /\ chan'[q][x] # <<>> => transport'[x] = "up" /\ q \in Ends(x)
    <3>1. CASE x = s
      BY <1>3, <3>1, EmptySeq
    <3>2. CASE x # s
      BY <1>2, <1>3, <3>2 DEF Channels
    <3> QED BY <3>1, <3>2
  <2> QED BY <1>3, <2>1 DEF Channels
<1>6. Fresh' /\ LiveEnds' /\ RemoteIsPeer'
  BY <1>1, <1>2 DEF Fresh, LiveEnds, RemoteIsPeer
<1>7. GreetingFirst'
  BY <1>1, <1>2, <1>3, PeerFacts DEF GreetingFirst
<1>8. TableInv'
  <2> HIDE DEF IInv, SessionInv
  <2> QED BY <1>1, TableStays
<1> QED BY <1>4, <1>5, <1>6, <1>7, <1>8

-----------------------------------------------------------------------------
(***************************************************************************)
(* ProcessControlMessage                                                   *)
(***************************************************************************)

\* The node information that message m carries.
InfoOf(m) == IF IsHello(m) THEN SelfInfo ELSE m.info

\* What r may find as the next message m of session s.
Expected(r, s, m) ==
    /\ transport[s] = "up" /\ r \in Ends(s) /\ m.id \in Node \ {r}
    /\ InfoOf(m) \in Infos
    /\ IsHello(m) => /\ m.id = Peer(r, s) /\ m.kind # "withdraw"
                     /\ r = Server[s] => m.kind = "connect"
                     /\ m.kind = "connect" => r = Server[s]
    /\ ~ IsHello(m) => /\ m.id # Peer(r, s)
                       /\ m.kind \in {"node", "withdraw"}
                       /\ m.kind = "node" => Hops(InfoOf(m)) # 0
                       /\ status[r][s] = "connected"
    /\ Remotes(r, RemoteAfter(r, s, m))

\* An end that is not connected yet takes a greeting next, and no relay is told
\* about itself or about the relay that tells it.
LEMMA NextMessage ==
  ASSUME IInv, NEW r \in Node, NEW s \in Session, chan[r][s] # <<>>
  PROVE  Expected(r, s, Head(chan[r][s]))
<1> DEFINE m == Head(chan[r][s])
<1> USE DEF IInv, SessionInv
<1>1. transport[s] = "up" /\ r \in Ends(s) /\ chan[r][s] \in Seq(Message(r, s))
  BY DEF Channels
<1>2. m \in Message(r, s)
  BY <1>1, HeadTailProperties
<1>3. Peer(r, s) \in Node /\ Peer(r, s) # r /\ Client[s] # Server[s]
  BY <1>1, PeerFacts
<1>4. CASE m = Greeting(r, s)
  <2>1. /\ m.id = Peer(r, s)
        /\ m.kind = IF r = Server[s] THEN "connect" ELSE "connectResponse"
    BY <1>4 DEF Greeting, Hello
  <2> HIDE DEF m
  <2>2. IsHello(m) /\ m.kind # "withdraw"
        /\ (r = Server[s] => m.kind = "connect") /\ (m.kind = "connect" => r = Server[s])
    BY <2>1 DEF IsHello
  <2>3. InfoOf(m) \in Infos
    BY <2>2, InfoFacts DEF InfoOf
  <2>4. Remotes(r, RemoteAfter(r, s, m))
    <3>1. RemoteAfter(r, s, m) = [remote[r] EXCEPT ![s] = Peer(r, s)]
      BY <2>1, <2>2 DEF RemoteAfter
    <3>2. /\ remote[r] \in [Session -> Node \cup {NoNode}]
          /\ \A x \in Session : remote[r][x] # NoNode =>
                                 r \in Ends(x) /\ remote[r][x] = Peer(r, x)
      BY DEF Types, RemoteIsPeer
    <3> QED BY <1>1, <1>3, <3>1, <3>2 DEF Remotes
  <2> QED BY <1>1, <1>3, <2>1, <2>2, <2>3, <2>4 DEF m, Expected
<1>5. CASE m \in News(r, s)
  <2>1. /\ m.id \in Node /\ m.id # r /\ m.id # Peer(r, s) /\ m.info \in Infos
        /\ m.kind \in {"node", "withdraw"} /\ (m.kind = "node" => Hops(m.info) # 0)
    BY <1>5 DEF News
  <2> HIDE DEF m
  <2>2. ~ IsHello(m)
    BY <2>1 DEF IsHello
  <2>3. InfoOf(m) = m.info
    BY <2>2 DEF InfoOf
  <2>4. status[r][s] = "connected"
    <3>1. CASE r = Server[s]
      BY <1>1, <3>1 DEF LiveEnds
    <3>2. CASE r = Client[s]
      <4>1. status[r][s] \in {"connecting", "connected"}
        BY <1>1, <3>2 DEF LiveEnds
      <4>2. status[r][s] # "connecting"
        BY <1>1, <2>2, <3>2 DEF GreetingFirst, m
      <4> QED BY <4>1, <4>2
    <3> QED BY <1>1, <3>1, <3>2 DEF Ends
  <2>5. Remotes(r, RemoteAfter(r, s, m))
    BY <2>2 DEF RemoteAfter, Remotes, Types, RemoteIsPeer
  <2> QED BY <1>1, <2>1, <2>2, <2>3, <2>4, <2>5 DEF m, Expected
<1> QED BY <1>2, <1>4, <1>5 DEF Message

\* What ProcessControlMessage makes of the table, and what it sends.
LEMMA DeliverEffect ==
  ASSUME IInv, NEW r \in Node, NEW s \in Session, Deliver(r, s)
  PROVE  LET m == Head(chan[r][s])
         IN  /\ chan[r][s] # <<>>
             /\ table' = [table EXCEPT ![r] =
                   NodeReceived(r, s, RemoteAfter(r, s, m), m.id, InfoOf(m),
                                m.kind = "withdraw").table]
             /\ \E out : CanSend(r, out) /\ Take(r, s, m, out)
<1> DEFINE m == Head(chan[r][s])
           res == NodeReceived(r, s, RemoteAfter(r, s, m), m.id, InfoOf(m),
                               m.kind = "withdraw")
           out == IF IsHello(m)
                  THEN [res.out EXCEPT ![s] = InfoBaseSyncPeer(r, s, res.table, m.id)]
                  ELSE res.out
<1>1. /\ chan[r][s] # <<>> /\ table' = [table EXCEPT ![r] = res.table]
      /\ Take(r, s, m, out)
  BY DEF Deliver, InfoOf
<1>2. /\ m.id \in Node \ {r} /\ InfoOf(m) \in Infos /\ r \in Ends(s)
      /\ IsHello(m) => m.id = Peer(r, s) /\ m.kind # "withdraw"
      /\ Remotes(r, RemoteAfter(r, s, m))
  <2>1. Expected(r, s, m)
    BY <1>1, NextMessage
  <2> HIDE DEF m
  <2> QED BY <2>1 DEF Expected
<1>3. CanSend(r, res.out)
  <2>1. (m.kind = "withdraw") \in BOOLEAN
    OBVIOUS
  <2> HIDE DEF m
  <2> QED BY <1>2, <2>1, ReceivedOutput
<1>4. CanSend(r, out)
  <2>1. CASE ~ IsHello(m)
    BY <1>3, <2>1
  <2>2. CASE IsHello(m)
    <3>1. res.table = AddNode(table[r], s, m.id, InfoOf(m)).table
      BY <1>2, <2>2 DEF NodeReceived
    <3>2. WellFormed(table[r], Infos)
      BY DEF IInv, TableInv, Tables
    <3>3. TableType(res.table, Infos)
      <4> HIDE DEF res, m
      <4> QED BY <1>2, <3>1, <3>2, AddNodeWellFormed DEF WellFormed
    <3> DEFINE sync == InfoBaseSyncPeer(r, s, res.table, m.id)
    <3> HIDE DEF res, m
    <3>4. sync \in Sendable(r, s)
      BY <1>2, <2>2, <3>3, SyncOutput
    <3>5. out = [res.out EXCEPT ![s] = sync]
      BY <2>2
    <3> HIDE DEF sync, out
    <3> QED BY <1>3, <3>4, <3>5 DEF CanSend
  <2> QED BY <2>1, <2>2
<1> HIDE DEF out, res
<1>5. \E o : CanSend(r, o) /\ Take(r, s, m, o)
  BY <1>1, <1>4
<1> QED BY <1>1, <1>5 DEF res

\* What a message does to the state of the sessions of r.
LEMMA TakeEffect ==
  ASSUME Types, NEW r \in Node, NEW s \in Session, NEW m, NEW out,
         Take(r, s, m, out), m.id \in Node
  PROVE  /\ Types' <=> (drops' \in 0..MaxDrops /\ table' = [q \in Node |-> table'[q]])
         /\ transport' = transport /\ drops' = drops
         /\ \A q \in Node, x \in Session :
               /\ status'[q][x] = IF q = r /\ x = s /\ IsHello(m)
                                  THEN "connected" ELSE status[q][x]
               /\ remote'[q][x] = IF q = r /\ x = s /\ IsHello(m)
                                  THEN m.id ELSE remote[q][x]
         /\ \A x \in Session :
               /\ StatusAfter(r, s, m)[x] = status'[r][x]
               /\ RemoteAfter(r, s, m)[x] = remote'[r][x]
<1>1. /\ status' = [status EXCEPT ![r] = StatusAfter(r, s, m)]
      /\ remote' = [remote EXCEPT ![r] = RemoteAfter(r, s, m)]
      /\ transport' = transport /\ drops' = drops
  BY DEF Take
<1>2. /\ StatusAfter(r, s, m) \in [Session ->
             {"none", "connecting", "connected", "disconnected"}]
      /\ \A x \in Session : StatusAfter(r, s, m)[x] =
             IF x = s /\ IsHello(m) THEN "connected" ELSE status[r][x]
  BY DEF StatusAfter, Types
<1>3. /\ RemoteAfter(r, s, m) \in [Session -> Node \cup {NoNode}]
      /\ \A x \in Session : RemoteAfter(r, s, m)[x] =
             IF x = s /\ IsHello(m) THEN m.id ELSE remote[r][x]
  BY DEF RemoteAfter, Types
<1>4. /\ status' \in [Node -> [Session ->
             {"none", "connecting", "connected", "disconnected"}]]
      /\ \A q \in Node, x \in Session :
            status'[q][x] = IF q = r THEN StatusAfter(r, s, m)[x] ELSE status[q][x]
  BY <1>1, <1>2 DEF Types
<1>5. /\ remote' \in [Node -> [Session -> Node \cup {NoNode}]]
      /\ \A q \in Node, x \in Session :
            remote'[q][x] = IF q = r THEN RemoteAfter(r, s, m)[x] ELSE remote[q][x]
  BY <1>1, <1>3 DEF Types
<1>6. Types' <=> (drops' \in 0..MaxDrops /\ table' = [q \in Node |-> table'[q]])
  BY <1>1, <1>4, <1>5 DEF Types
<1> QED BY <1>1, <1>2, <1>3, <1>4, <1>5, <1>6

\* The channels once r has taken a message and sent what it has to.
LEMMA TakeChannels ==
  ASSUME IInv, NEW r \in Node, NEW s \in Session, chan[r][s] # <<>>, NEW out,
         CanSend(r, out), Take(r, s, Head(chan[r][s]), out)
  PROVE  LET m == Head(chan[r][s])
             answer == IF m.kind = "connect" THEN <<Hello("connectResponse", r)>>
                       ELSE <<>>
         IN  /\ Channels(chan')
             /\ \A q \in Node, x \in Session :
                   LET old == IF q = r /\ x = s THEN Tail(chan[r][s]) ELSE chan[q][x]
                   IN  /\ chan'[q][x] =
                            IF q = Peer(r, x) /\ Sends(r, StatusAfter(r, s, m),
                                                       RemoteAfter(r, s, m), x)
                            THEN old \o (IF x = s THEN answer \o out[s] ELSE out[x])
                            ELSE old
                       /\ old # <<>> =>
                             chan'[q][x] # <<>> /\ Head(chan'[q][x]) = Head(old)
<1> DEFINE m == Head(chan[r][s])
           answer == IF m.kind = "connect" THEN <<Hello("connectResponse", r)>> ELSE <<>>
           tail == Tail(chan[r][s])
           Old(q, x) == IF q = r /\ x = s THEN tail ELSE chan[q][x]
           ch == [chan EXCEPT ![r][s] = tail]
           all == [out EXCEPT ![s] = answer \o @]
           st == StatusAfter(r, s, m)
           rem == RemoteAfter(r, s, m)
<1>1. chan' = Sent(ch, r, st, rem, all)
  BY DEF Take
<1>2. Channels(chan)
  BY DEF IInv, SessionInv
<1>3. tail \in Seq(Message(r, s))
  BY <1>2, HeadTailProperties DEF Channels
<1>4. Expected(r, s, m)
  BY NextMessage
<1>5. answer \in Seq(Message(Peer(r, s), s))
  <2>1. CASE m.kind = "connect"
    <3>1. r = Server[s]
      BY <1>4, <2>1 DEF Expected, IsHello
    <3>2. Hello("connectResponse", r) \in Message(Peer(r, s), s)
      BY <3>1, PeerFacts DEF Message, Greeting
    <3>3. answer = <<Hello("connectResponse", r)>>
      BY <2>1
    <3> HIDE DEF answer
    <3> QED BY <3>2, <3>3
  <2>2. CASE m.kind # "connect"
    BY <2>2, EmptySeq
  <2> QED BY <2>1, <2>2
<1> HIDE DEF m, answer, tail, st, rem
<1>6. \A x \in Session : out[x] \in Seq(Message(Peer(r, x), x))
  <2> SUFFICES ASSUME NEW x \in Session PROVE out[x] \in Seq(Message(Peer(r, x), x))
    OBVIOUS
  <2>1. out[x] \in Seq(News(Peer(r, x), x))
    BY DEF CanSend, Sendable
  <2>2. News(Peer(r, x), x) \subseteq Message(Peer(r, x), x)
    BY DEF Message
  <2> QED BY <2>1, <2>2, SeqMonotonic
<1>7. all = [x \in Session |-> IF x = s THEN answer \o out[s] ELSE out[x]]
  BY DEF CanSend
<1>8. answer \o out[s] \in Seq(Message(Peer(r, s), s))
  BY <1>5, <1>6, ConcatProperties
<1>9. \A x \in Session : all[x] \in Seq(Message(Peer(r, x), x))
  BY <1>6, <1>7, <1>8
<1>10. /\ ch = [q \in Node |-> [x \in Session |-> ch[q][x]]]
       /\ \A q \in Node, x \in Session : ch[q][x] = Old(q, x)
  <2> DEFINE row == [chan[r] EXCEPT ![s] = tail]
  <2>1. row = [x \in Session |-> IF x = s THEN tail ELSE chan[r][x]]
    BY <1>2 DEF Channels
  <2>2. ch = [chan EXCEPT ![r] = row]
    OBVIOUS
  <2> HIDE DEF row
  <2>3. ch = [q \in Node |-> IF q = r THEN row ELSE chan[q]]
    BY <1>2, <2>2 DEF Channels
  <2> HIDE DEF ch
  <2>4. ASSUME NEW q \in Node
        PROVE  ch[q] = [x \in Session |-> Old(q, x)]
    BY <1>2, <2>1, <2>3 DEF Channels
  <2>5. ch = [q \in Node |-> ch[q]]
    BY <2>3
  <2> QED BY <2>4, <2>5
<1> HIDE DEF ch
<1>11. Channels(ch)
  <2>1. ASSUME NEW q \in Node, NEW x \in Session
        PROVE  /\ ch[q][x] \in Seq(Message(q, x))
               /\ ch[q][x] # <<>> => transport[x] = "up" /\ q \in Ends(x)
    <3>1. CASE q = r /\ x = s
      BY <1>3, <1>4, <1>10, <3>1 DEF Expected
    <3>2. CASE ~ (q = r /\ x = s)
      BY <1>2, <1>10, <3>2 DEF Channels
    <3> QED BY <3>1, <3>2
  <2> QED BY <1>10, <2>1 DEF Channels
<1> HIDE DEF all
<1>12. /\ Channels(chan')
       /\ \A q \in Node, x \in Session :
             /\ chan'[q][x] = IF q = Peer(r, x) /\ Sends(r, st, rem, x)
                              THEN ch[q][x] \o all[x] ELSE ch[q][x]
             /\ ch[q][x] # <<>> =>
                   chan'[q][x] # <<>> /\ Head(chan'[q][x]) = Head(ch[q][x])
  BY <1>1, <1>9, <1>11, SentResult
<1>13. ASSUME NEW q \in Node, NEW x \in Session
       PROVE  /\ chan'[q][x] = IF q = Peer(r, x) /\ Sends(r, st, rem, x)
                               THEN Old(q, x) \o (IF x = s THEN answer \o out[s]
                                                  ELSE out[x])
                               ELSE Old(q, x)
              /\ Old(q, x) # <<>> =>
                    chan'[q][x] # <<>> /\ Head(chan'[q][x]) = Head(Old(q, x))
  <2>1. all[x] = IF x = s THEN answer \o out[s] ELSE out[x]
    BY <1>7
  <2>2. ch[q][x] = Old(q, x)
    BY <1>10
  <2> HIDE DEF Old
  <2> QED BY <1>12, <2>1, <2>2
<1> QED BY <1>12, <1>13 DEF m, answer, tail, st, rem

\* ProcessControlMessage keeps the sessions in order.
LEMMA DeliverKeepsSessions ==
  ASSUME IInv, NEW r \in Node, NEW s \in Session, Deliver(r, s)
  PROVE  SessionInv'
<1> DEFINE m == Head(chan[r][s])
           answer == IF m.kind = "connect" THEN <<Hello("connectResponse", r)>> ELSE <<>>
           Old(q, x) == IF q = r /\ x = s THEN Tail(chan[r][s]) ELSE chan[q][x]
           st == StatusAfter(r, s, m)
           rem == RemoteAfter(r, s, m)
<1>1. chan[r][s] # <<>> /\ \E out : CanSend(r, out) /\ Take(r, s, m, out)
  BY DeliverEffect
<1>2. PICK out : CanSend(r, out) /\ Take(r, s, m, out)
  BY <1>1
<1>3. Expected(r, s, m)
  BY <1>1, NextMessage
<1>4. /\ Channels(chan')
      /\ \A q \in Node, x \in Session :
            /\ chan'[q][x] = IF q = Peer(r, x) /\ Sends(r, st, rem, x)
                             THEN Old(q, x) \o (IF x = s THEN answer \o out[s]
                                                ELSE out[x])
                             ELSE Old(q, x)
            /\ Old(q, x) # <<>> =>
                  chan'[q][x] # <<>> /\ Head(chan'[q][x]) = Head(Old(q, x))
  BY <1>1, <1>2, TakeChannels
<1>5. /\ Types /\ Channels(chan) /\ Fresh /\ LiveEnds /\ GreetingFirst /\ RemoteIsPeer
  BY DEF IInv, SessionInv
<1>6. table' = [q \in Node |-> table'[q]]
  <2>1. table = [q \in Node |-> table[q]]
    BY <1>5 DEF Types
  <2>2. PICK t : table' = [table EXCEPT ![r] = t]
    BY DeliverEffect
  <2> QED BY <2>1, <2>2
<1>7. m.id \in Node /\ r \in Ends(s) /\ transport[s] = "up"
  BY <1>3 DEF Expected
<1>8. /\ Types' <=> (drops' \in 0..MaxDrops /\ table' = [q \in Node |-> table'[q]])
      /\ transport' = transport /\ drops' = drops
      /\ \A q \in Node, x \in Session :
            /\ status'[q][x] = IF q = r /\ x = s /\ IsHello(m)
                               THEN "connected" ELSE status[q][x]
            /\ remote'[q][x] = IF q = r /\ x = s /\ IsHello(m)
                               THEN m.id ELSE remote[q][x]
      /\ \A x \in Session : st[x] = status'[r][x] /\ rem[x] = remote'[r][x]
  <2> HIDE DEF m
  <2> QED BY <1>2, <1>5, <1>7, TakeEffect
<1> HIDE DEF m, st, rem
<1>9. Types'
  BY <1>5, <1>6, <1>8 DEF Types
<1>10. Channels(chan)'
  BY <1>4, <1>8 DEF Channels
<1>11. Fresh'
  BY <1>5, <1>7, <1>8 DEF Fresh
<1>12. LiveEnds'
  <2> SUFFICES ASSUME NEW x \in Session
               PROVE  /\ transport[x] \in {"accepted", "up"} =>
                            status'[Server[x]][x] = "connected"
                      /\ transport[x] \in {"open", "accepted", "up"} =>
                            status'[Client[x]][x] \in {"connecting", "connected"}
                      /\ \A q \in Node : status'[q][x] = "disconnected" => q = Client[x]
    BY <1>8 DEF LiveEnds
  <2>1. Client[x] \in Node /\ Server[x] \in Node
    BY PeerFacts
  <2> QED BY <1>5, <1>8, <2>1 DEF LiveEnds
<1>13. RemoteIsPeer'
  <2> SUFFICES ASSUME NEW q \in Node, NEW x \in Session, remote'[q][x] # NoNode
               PROVE  q \in Ends(x) /\ remote'[q][x] = Peer(q, x)
    BY DEF RemoteIsPeer
  <2>1. CASE q = r /\ x = s /\ IsHello(m)
    BY <1>3, <1>8, <2>1 DEF Expected
  <2>2. CASE ~ (q = r /\ x = s /\ IsHello(m))
    BY <1>5, <1>8, <2>2 DEF RemoteIsPeer
  <2> QED BY <2>1, <2>2
<1>14. GreetingFirst'
  <2> SUFFICES ASSUME NEW x \in Session,
                      status'[Client[x]][x] = "connecting", transport[x] = "up"
               PROVE  IF chan'[Client[x]][x] = <<>> THEN remote'[Server[x]][x] = NoNode
                      ELSE IsHello(Head(chan'[Client[x]][x]))
    BY <1>8 DEF GreetingFirst
  <2> DEFINE c == Client[x]
             v == Server[x]
  <2>1. c \in Node /\ v \in Node /\ c # v /\ Peer(v, x) = c /\ Peer(c, x) = v
    BY PeerFacts
  <2>2. status[c][x] = "connecting" /\ ~ (c = r /\ x = s /\ IsHello(m))
    BY <1>8, <2>1
  <2>3. IF chan[c][x] = <<>> THEN remote[v][x] = NoNode ELSE IsHello(Head(chan[c][x]))
    BY <1>5, <2>2 DEF GreetingFirst
  <2> HIDE DEF c, v
  <2>4. ~ (c = r /\ x = s)
    BY <1>1, <2>2, <2>3 DEF m
  <2>5. Old(c, x) = chan[c][x]
    BY <2>4
  <2> HIDE DEF Old
  <2>6. CASE chan[c][x] # <<>>
    <3>1. chan'[c][x] # <<>> /\ Head(chan'[c][x]) = Head(chan[c][x])
      BY <1>4, <2>1, <2>5, <2>6
    <3> QED BY <2>3, <2>6, <3>1 DEF c
  <2>7. CASE chan[c][x] = <<>>
    <3>1. remote[v][x] = NoNode
      BY <2>3, <2>7
    <3>2. CASE v = r /\ x = s /\ IsHello(m)
      <4>1. m.kind = "connect" /\ answer = <<Hello("connectResponse", r)>>
        BY <1>3, <3>2 DEF Expected, v
      <4>2. rem[s] = m.id /\ m.id # NoNode /\ st[s] = "connected"
        BY <1>7, <1>8, <3>2, NodeIsKnown
      <4>3. Sends(r, st, rem, x)
        BY <1>7, <3>2, <4>2 DEF Sends
      <4>4. chan'[c][x] = <<>> \o (<<Hello("connectResponse", r)>> \o out[s])
        BY <1>4, <2>1, <2>5, <2>7, <3>2, <4>1, <4>3
      <4>5. out[s] \in Seq(News(Peer(r, s), s))
        BY <1>2 DEF CanSend, Sendable
      <4> DEFINE h == Hello("connectResponse", r)
      <4>6. IsHello(h)
        BY DEF IsHello, Hello
      <4> HIDE DEF h
      <4>7. LET w == <<>> \o (<<h>> \o out[s]) IN w # <<>> /\ Head(w) = h
        <5> DEFINE N == News(Peer(r, s), s)
                   o == out[s]
        <5>1. o \in Seq(N)
          BY <4>5
        <5> HIDE DEF N, o
        <5> QED BY <5>1 DEF o
      <4> QED BY <4>4, <4>6, <4>7 DEF h, c
    <3>3. CASE ~ (v = r /\ x = s /\ IsHello(m))
      <4>1. remote'[v][x] = NoNode
        BY <1>8, <2>1, <3>1, <3>3
      <4>2. ~ (c = Peer(r, x) /\ Sends(r, st, rem, x))
        <5> SUFFICES ASSUME c = Peer(r, x), Sends(r, st, rem, x) PROVE FALSE
          OBVIOUS
        <5>1. r = v
          BY <2>1 DEF Sends, Ends, c, v
        <5>2. r # Client[x] /\ rem[x] = NoNode
          BY <1>8, <2>1, <4>1, <5>1 DEF c
        <5> QED BY <5>2 DEF Sends
      <4>3. chan'[c][x] = <<>>
        BY <1>4, <2>1, <2>5, <2>7, <4>2
      <4> QED BY <4>1, <4>3 DEF c, v
    <3> QED BY <3>2, <3>3
  <2> QED BY <2>6, <2>7
<1> QED BY <1>9, <1>10, <1>11, <1>12, <1>13, <1>14 DEF SessionInv

\* A step of relay r changes its table to t and leaves the others alone.
LEMMA TableChanges ==
  ASSUME IInv, NEW r \in Node, NEW t, table' = [table EXCEPT ![r] = t],
         WellFormed(t, Infos), DirectBest(t),
         \A q \in Node \ {r}, x \in Session :
            status'[q][x] = status[q][x] /\ remote'[q][x] = remote[q][x],
         \A n \in Node, x \in Session : <<n, x>> \in DOMAIN t.nodes =>
            /\ n # r /\ status'[r][x] = "connected"
            /\ Hops(t.nodes[<<n, x>>]) = 0 => remote'[r][x] = n,
         \A x \in Session : remote'[r][x] # NoNode /\ status'[r][x] = "connected" =>
            /\ <<remote'[r][x], x>> \in DOMAIN t.nodes
            /\ Direct(t.nodes[<<remote'[r][x], x>>])
  PROVE  TableInv'
<1> USE DEF IInv, TableInv
<1>1. \A q \in Node : table'[q] = IF q = r THEN t ELSE table[q]
  BY DEF SessionInv, Types
<1>2. DOMAIN t.nodes \subseteq Node \X Session
      /\ \A q \in Node : DOMAIN table[q].nodes \subseteq Node \X Session
  BY DEF WellFormed, TableType, Tables
<1>3. Tables'
  <2>1. ASSUME NEW q \in Node
        PROVE  WellFormed(table'[q], Infos) /\ DirectBest(table'[q])
    BY <1>1 DEF Tables
  <2> QED BY <2>1 DEF Tables, WellFormed, TableType, IndexMatches, BestMatches, IdsOf,
                      DirectBest
<1>4. NoSelfEntry'
  BY <1>1 DEF NoSelfEntry
<1>5. RoutesUseLiveSessions'
  <2> SUFFICES ASSUME NEW q \in Node, NEW k \in DOMAIN table'[q].nodes
               PROVE  status'[q][k[2]] = "connected"
    BY DEF RoutesUseLiveSessions
  <2>1. k = <<k[1], k[2]>> /\ k[1] \in Node /\ k[2] \in Session
    BY <1>1, <1>2
  <2>2. CASE q = r
    BY <1>1, <2>1, <2>2
  <2>3. CASE q # r
    BY <1>1, <2>1, <2>3 DEF RoutesUseLiveSessions
  <2> QED BY <2>2, <2>3
<1>6. HasDirectEntry'
  <2> SUFFICES ASSUME NEW q \in Node, NEW x \in Session,
                      remote'[q][x] # NoNode, status'[q][x] = "connected"
               PROVE  /\ <<remote'[q][x], x>> \in DOMAIN table'[q].nodes
                      /\ Direct(table'[q].nodes[<<remote'[q][x], x>>])
    BY DEF HasDirectEntry
  <2>1. CASE q = r
    BY <1>1, <2>1
  <2>2. CASE q # r
    BY <1>1, <2>2 DEF HasDirectEntry
  <2> QED BY <2>1, <2>2
<1>7. OnlyDirectEntry'
  <2> SUFFICES ASSUME NEW q \in Node, NEW n \in Node, NEW x \in Session,
                      <<n, x>> \in DOMAIN table'[q].nodes,
                      Hops(table'[q].nodes[<<n, x>>]) = 0
               PROVE  remote'[q][x] = n
    BY DEF OnlyDirectEntry
  <2>1. CASE q = r
    BY <1>1, <2>1
  <2>2. CASE q # r
    BY <1>1, <2>2 DEF OnlyDirectEntry
  <2> QED BY <2>1, <2>2
<1> QED BY <1>3, <1>4, <1>5, <1>6, <1>7

\* The table t is old but for the entry with key k, which is put or erased.
OneEntry(t, old, k, info, withdraw) ==
    /\ \A j \in DOMAIN t.nodes :
          \/ j \in DOMAIN old.nodes /\ t.nodes[j] = old.nodes[j]
          \/ ~ withdraw /\ j = k /\ t.nodes[j] = info
    /\ \A j \in DOMAIN old.nodes \ {k} :
          j \in DOMAIN t.nodes /\ t.nodes[j] = old.nodes[j]
    /\ ~ withdraw => k \in DOMAIN t.nodes /\ t.nodes[k] = info

\* The table of r once NodeReceived is done: at most the entry <<n, s>> differs.
LEMMA ReceivedTable ==
  ASSUME NEW r \in Node, NEW s \in Session, NEW rem, NEW n \in Node,
         NEW info \in Infos, NEW withdraw \in BOOLEAN,
         WellFormed(table[r], Infos), DirectBest(table[r])
  PROVE  LET t == NodeReceived(r, s, rem, n, info, withdraw).table
         IN  /\ WellFormed(t, Infos) /\ DirectBest(t)
             /\ OneEntry(t, table[r], <<n, s>>, info, withdraw)
<1> DEFINE t == NodeReceived(r, s, rem, n, info, withdraw).table
           k == <<n, s>>
<1>0. Measured(Infos)
  BY InfoFacts
<1>1. CASE withdraw
  <2>1. t = RemoveNode(table[r], s, n)
    BY <1>1 DEF NodeReceived
  <2>2. WellFormed(t, Infos) /\ DirectBest(t) /\ t.nodes = Erase(table[r].nodes, {k})
    BY <1>0, <2>1, RemoveNodeWellFormed
  <2> HIDE DEF t, k
  <2>3. /\ DOMAIN t.nodes = DOMAIN table[r].nodes \ {k}
        /\ \A j \in DOMAIN t.nodes : t.nodes[j] = table[r].nodes[j]
    BY <2>2 DEF Erase, Restrict
  <2> QED BY <1>1, <2>2, <2>3 DEF t, k, OneEntry
<1>2. CASE ~ withdraw
  <2>1. t = AddNode(table[r], s, n, info).table
    BY <1>2 DEF NodeReceived
  <2>2. WellFormed(t, Infos) /\ DirectBest(t) /\ t.nodes = Put(table[r].nodes, k, info)
    BY <1>0, <2>1, AddNodeWellFormed
  <2> HIDE DEF t, k
  <2>3. /\ DOMAIN t.nodes = DOMAIN table[r].nodes \cup {k}
        /\ \A j \in DOMAIN t.nodes :
              t.nodes[j] = IF j = k THEN info ELSE table[r].nodes[j]
    BY <2>2 DEF Put
  <2> QED BY <1>2, <2>2, <2>3 DEF t, k, OneEntry
<1> QED BY <1>1, <1>2

\* ProcessControlMessage keeps the tables in order.
LEMMA DeliverKeepsTables ==
  ASSUME IInv, NEW r \in Node, NEW s \in Session, Deliver(r, s)
  PROVE  TableInv'
<1> DEFINE m == Head(chan[r][s])
           old == table[r]
           w == (m.kind = "withdraw")
           k == <<m.id, s>>
           t == NodeReceived(r, s, RemoteAfter(r, s, m), m.id, InfoOf(m), w).table
<1>1. /\ chan[r][s] # <<>> /\ table' = [table EXCEPT ![r] = t]
      /\ \E out : CanSend(r, out) /\ Take(r, s, m, out)
  BY DeliverEffect
<1>2. PICK out : Take(r, s, m, out)
  BY <1>1
<1>3. Expected(r, s, m)
  BY <1>1, NextMessage
<1>4. WellFormed(old, Infos) /\ DirectBest(old) /\ RemoteIsPeer /\ Types
  BY DEF IInv, TableInv, Tables, SessionInv
<1>5. m.id \in Node /\ m.id # r /\ InfoOf(m) \in Infos /\ w \in BOOLEAN
  BY <1>3 DEF Expected
<1>6. \A q \in Node, x \in Session :
         /\ status'[q][x] = IF q = r /\ x = s /\ IsHello(m)
                            THEN "connected" ELSE status[q][x]
         /\ remote'[q][x] = IF q = r /\ x = s /\ IsHello(m)
                            THEN m.id ELSE remote[q][x]
  <2> HIDE DEF m
  <2> QED BY <1>2, <1>4, <1>5, TakeEffect
<1> HIDE DEF m
<1>7. /\ WellFormed(t, Infos) /\ DirectBest(t)
      /\ \A j \in DOMAIN t.nodes :
            \/ j \in DOMAIN old.nodes /\ t.nodes[j] = old.nodes[j]
            \/ ~ w /\ j = k /\ t.nodes[j] = InfoOf(m)
      /\ \A j \in DOMAIN old.nodes \ {k} :
            j \in DOMAIN t.nodes /\ t.nodes[j] = old.nodes[j]
      /\ ~ w => k \in DOMAIN t.nodes /\ t.nodes[k] = InfoOf(m)
  <2> HIDE DEF w
  <2>1. WellFormed(t, Infos) /\ DirectBest(t) /\ OneEntry(t, old, k, InfoOf(m), w)
    BY <1>4, <1>5, ReceivedTable
  <2> HIDE DEF t, old, k
  <2> QED BY <2>1 DEF OneEntry
<1> HIDE DEF t, old
<1>8. ASSUME NEW n \in Node, NEW x \in Session, <<n, x>> \in DOMAIN t.nodes
      PROVE  /\ n # r /\ status'[r][x] = "connected"
             /\ Hops(t.nodes[<<n, x>>]) = 0 => remote'[r][x] = n
  <2>1. CASE <<n, x>> \in DOMAIN old.nodes /\ t.nodes[<<n, x>>] = old.nodes[<<n, x>>]
    <3>1. n # r
      BY <2>1 DEF old, IInv, TableInv, NoSelfEntry
    <3>2. status[r][x] = "connected"
      BY <2>1 DEF old, IInv, TableInv, RoutesUseLiveSessions
    <3>3. Hops(t.nodes[<<n, x>>]) = 0 => remote[r][x] = n
      BY <2>1 DEF old, IInv, TableInv, OnlyDirectEntry
    <3>4. Hops(t.nodes[<<n, x>>]) = 0 => remote'[r][x] = n
      <4>1. CASE x = s /\ IsHello(m)
        BY <1>3, <1>4, <1>6, <3>3, <4>1, NodeIsKnown DEF RemoteIsPeer, Expected
      <4>2. CASE ~ (x = s /\ IsHello(m))
        BY <1>6, <3>3, <4>2
      <4> QED BY <4>1, <4>2
    <3> QED BY <1>6, <3>1, <3>2, <3>4
  <2>2. CASE ~ w /\ <<n, x>> = k /\ t.nodes[<<n, x>>] = InfoOf(m)
    <3>1. n = m.id /\ x = s
      BY <2>2
    <3>2. CASE IsHello(m)
      BY <1>5, <1>6, <3>1, <3>2
    <3>3. CASE ~ IsHello(m)
      <4>1. status[r][s] = "connected" /\ Hops(InfoOf(m)) # 0
        BY <1>3, <2>2, <3>3 DEF Expected
      <4> QED BY <1>5, <1>6, <2>2, <3>1, <3>3, <4>1
    <3> QED BY <3>2, <3>3
  <2> QED BY <1>7, <1>8, <2>1, <2>2
<1>9. ASSUME NEW x \in Session, remote'[r][x] # NoNode, status'[r][x] = "connected"
      PROVE  /\ <<remote'[r][x], x>> \in DOMAIN t.nodes
             /\ Direct(t.nodes[<<remote'[r][x], x>>])
  <2>1. CASE x = s /\ IsHello(m)
    <3>1. remote'[r][x] = m.id /\ ~ w /\ InfoOf(m) = SelfInfo
      BY <1>3, <1>6, <2>1 DEF Expected, InfoOf
    <3> QED BY <1>7, <2>1, <3>1, InfoFacts
  <2>2. CASE ~ (x = s /\ IsHello(m))
    <3>1. remote'[r][x] = remote[r][x] /\ status[r][x] = "connected"
      BY <1>6, <1>9, <2>2
    <3>2. /\ <<remote[r][x], x>> \in DOMAIN old.nodes
          /\ Direct(old.nodes[<<remote[r][x], x>>])
      BY <1>9, <3>1 DEF old, IInv, TableInv, HasDirectEntry
    <3>3. <<remote[r][x], x>> # k
      <4> SUFFICES ASSUME <<remote[r][x], x>> = k PROVE FALSE
        OBVIOUS
      <4>1. x = s /\ remote[r][s] = m.id /\ ~ IsHello(m)
        BY <2>2
      <4>2. remote[r][s] = Peer(r, s)
        BY <1>4, <1>9, <3>1, <4>1 DEF RemoteIsPeer
      <4> QED BY <1>3, <4>1, <4>2 DEF Expected
    <3> QED BY <1>7, <3>1, <3>2, <3>3
  <2> QED BY <2>1, <2>2
<1>10. \A q \in Node \ {r}, x \in Session :
          status'[q][x] = status[q][x] /\ remote'[q][x] = remote[q][x]
  BY <1>6
<1> QED BY <1>1, <1>7, <1>8, <1>9, <1>10, TableChanges

-----------------------------------------------------------------------------
(***************************************************************************)
(* SessionChanged                                                          *)
(***************************************************************************)

\* An end that learns of the failure withdraws the other end, and from third
\* relays only.
LEMMA LostOutput ==
  ASSUME IInv, NEW r \in Node, NEW s \in Session
  PROVE  CanSend(r, SessionLost(r, s).out)
<1>1. Remotes(r, remote[r])
  BY DEF IInv, SessionInv, Types, RemoteIsPeer, Remotes
<1>2. CASE remote[r][s] = NoNode
  <2>1. SessionLost(r, s).out = NoOutput
    BY <1>2 DEF SessionLost
  <2> QED BY <2>1, NoOutputFacts
<1>3. CASE remote[r][s] # NoNode
  <2>1. SessionLost(r, s).out
          = PropagateNodeInfo(remote[r], remote[r][s], SelfInfo, TRUE)
    BY <1>3 DEF SessionLost
  <2>2. remote[r][s] \in Node \ {r}
    BY <1>1, <1>3, PeerFacts DEF Remotes
  <2>3. SelfInfo \in Infos
    BY InfoFacts
  <2> QED BY <1>1, <2>1, <2>2, <2>3, PropagateOutput
<1> QED BY <1>2, <1>3

\* What the two callbacks have in common: end r of session s goes from live to
\* gone (d is its new status, n the remote it remembers), r sends what it has
\* to on its other sessions, and purges its table.
Gone(r, s, d, n, st) ==
    /\ r \in Ends(s) /\ transport[s] = "down" /\ d # "connected" /\ d # "connecting"
    /\ d = "disconnected" => r = Client[s]
    /\ n \in {NoNode, remote[r][s]}
    /\ status' = [status EXCEPT ![r][s] = d]
    /\ remote' = [remote EXCEPT ![r][s] = n]
    /\ d \in {"none", "disconnected"}
    /\ chan' = Sent(chan, r, st, remote[r], SessionLost(r, s).out)
    /\ transport' = transport /\ drops' = drops
    /\ table' = [table EXCEPT ![r] = PurgePeerSessionInfo(table[r], s)]

LEMMA DisconnectedIsGone ==
  ASSUME IInv, NEW r \in Node, NEW s \in Session, Disconnected(r, s)
  PROVE  \E d, n, st : Gone(r, s, d, n, st)
<1>1. /\ table' = [table EXCEPT ![r] = PurgePeerSessionInfo(table[r], s)]
      /\ \/ r = Client[s] /\ ClientDisconnected(s, SessionLost(r, s).out)
         \/ r = Server[s] /\ ServerDisconnected(s, SessionLost(r, s).out)
  BY DEF Disconnected, SessionLost
<1>2. /\ status \in [Node -> [Session ->
                     {"none", "connecting", "connected", "disconnected"}]]
      /\ remote \in [Node -> [Session -> Node \cup {NoNode}]]
  BY DEF IInv, SessionInv, Types
<1>3. CASE r = Client[s] /\ ClientDisconnected(s, SessionLost(r, s).out)
  <2> DEFINE st == [status[r] EXCEPT ![s] = "disconnected"]
  <2>1. /\ transport[s] = "down" /\ status' = [status EXCEPT ![r] = st]
        /\ chan' = Sent(chan, r, st, remote[r], SessionLost(r, s).out)
        /\ remote' = remote /\ transport' = transport /\ drops' = drops
    BY <1>3 DEF ClientDisconnected
  <2>2. status' = [status EXCEPT ![r][s] = "disconnected"]
    BY <2>1
  <2>3. remote' = [remote EXCEPT ![r][s] = remote[r][s]]
    BY <1>2, <2>1
  <2> HIDE DEF st
  <2>4. Gone(r, s, "disconnected", remote[r][s], st)
    BY <1>1, <1>3, <2>1, <2>2, <2>3 DEF Gone, Ends
  <2> QED BY <2>4
<1>4. CASE r = Server[s] /\ ServerDisconnected(s, SessionLost(r, s).out)
  <2>1. /\ transport[s] = "down"
        /\ chan' = Sent(chan, r, status[r], remote[r], SessionLost(r, s).out)
        /\ status' = [status EXCEPT ![r][s] = "none"]
        /\ remote' = [remote EXCEPT ![r][s] = NoNode]
        /\ transport' = transport /\ drops' = drops
    BY <1>4 DEF ServerDisconnected
  <2>2. Gone(r, s, "none", NoNode, status[r])
    BY <1>1, <1>4, <2>1 DEF Gone, Ends
  <2> QED BY <2>2
<1> QED BY <1>1, <1>3, <1>4

\* SessionChanged keeps the sessions and the tables in order.
LEMMA DisconnectedKeepsInvariant ==
  ASSUME IInv, NEW r \in Node, NEW s \in Session, Disconnected(r, s)
  PROVE  IInv'
<1> DEFINE out == SessionLost(r, s).out
           t == PurgePeerSessionInfo(table[r], s)
<1>1. PICK d, n, st : Gone(r, s, d, n, st)
  BY DisconnectedIsGone
<1>2. /\ Types /\ Channels(chan) /\ Fresh /\ LiveEnds /\ GreetingFirst /\ RemoteIsPeer
  BY DEF IInv, SessionInv
<1>3. /\ r \in Ends(s) /\ transport[s] = "down" /\ d \in {"none", "disconnected"}
      /\ d = "disconnected" => r = Client[s]
      /\ n \in {NoNode, remote[r][s]}
      /\ transport' = transport /\ drops' = drops
      /\ table' = [table EXCEPT ![r] = t]
      /\ chan' = Sent(chan, r, st, remote[r], out)
  BY <1>1 DEF Gone
<1>4. \A q \in Node, x \in Session :
         /\ status'[q][x] = IF q = r /\ x = s THEN d ELSE status[q][x]
         /\ remote'[q][x] = IF q = r /\ x = s THEN n ELSE remote[q][x]
  BY <1>1, <1>2 DEF Gone, Types
<1>5. CanSend(r, out)
  BY LostOutput
<1> HIDE DEF out, t
<1>6. \A x \in Session : out[x] \in Seq(Message(Peer(r, x), x))
  <2> SUFFICES ASSUME NEW x \in Session PROVE out[x] \in Seq(Message(Peer(r, x), x))
    OBVIOUS
  <2>1. out[x] \in Seq(News(Peer(r, x), x))
    BY <1>5 DEF CanSend, Sendable
  <2>2. News(Peer(r, x), x) \subseteq Message(Peer(r, x), x)
    BY DEF Message
  <2> QED BY <2>1, <2>2, SeqMonotonic
<1>7. /\ Channels(chan')
      /\ \A q \in Node, x \in Session :
            /\ chan'[q][x] = IF q = Peer(r, x) /\ Sends(r, st, remote[r], x)
                             THEN chan[q][x] \o out[x] ELSE chan[q][x]
            /\ chan[q][x] # <<>> =>
                  chan'[q][x] # <<>> /\ Head(chan'[q][x]) = Head(chan[q][x])
  BY <1>2, <1>3, <1>6, SentResult
<1>8. Types'
  <2>1. /\ status' \in [Node -> [Session ->
                     {"none", "connecting", "connected", "disconnected"}]]
        /\ remote' \in [Node -> [Session -> Node \cup {NoNode}]]
    <3>1. d \in {"none", "connecting", "connected", "disconnected"}
          /\ n \in Node \cup {NoNode}
      BY <1>2, <1>3 DEF Types
    <3> QED BY <1>1, <1>2, <3>1 DEF Gone, Types
  <2>2. table' = [q \in Node |-> table'[q]]
    BY <1>2, <1>3 DEF Types
  <2> QED BY <1>2, <1>3, <2>1, <2>2 DEF Types
<1>9. Channels(chan)'
  BY <1>3, <1>7 DEF Channels
<1>10. Fresh'
  BY <1>2, <1>3, <1>4 DEF Fresh
<1>11. LiveEnds'
  <2> SUFFICES ASSUME NEW x \in Session
               PROVE  /\ transport[x] \in {"accepted", "up"} =>
                            status'[Server[x]][x] = "connected"
                      /\ transport[x] \in {"open", "accepted", "up"} =>
                            status'[Client[x]][x] \in {"connecting", "connected"}
                      /\ \A q \in Node : status'[q][x] = "disconnected" => q = Client[x]
    BY <1>3 DEF LiveEnds
  <2>1. Client[x] \in Node /\ Server[x] \in Node
    BY PeerFacts
  <2> QED BY <1>2, <1>3, <1>4, <2>1 DEF LiveEnds
<1>12. GreetingFirst'
  <2> SUFFICES ASSUME NEW x \in Session,
                      status'[Client[x]][x] = "connecting", transport[x] = "up"
               PROVE  IF chan'[Client[x]][x] = <<>> THEN remote'[Server[x]][x] = NoNode
                      ELSE IsHello(Head(chan'[Client[x]][x]))
    BY <1>3 DEF GreetingFirst
  <2> DEFINE c == Client[x]
             v == Server[x]
  <2>1. c \in Node /\ v \in Node /\ c # v
    BY PeerFacts
  <2>2. x # s /\ status[c][x] = "connecting" /\ remote'[v][x] = remote[v][x]
    BY <1>3, <1>4, <2>1
  <2>3. IF chan[c][x] = <<>> THEN remote[v][x] = NoNode ELSE IsHello(Head(chan[c][x]))
    BY <1>2, <2>2 DEF GreetingFirst
  <2> HIDE DEF c, v
  <2>4. CASE chan[c][x] # <<>>
    BY <1>7, <2>1, <2>3, <2>4 DEF c
  <2>5. CASE chan[c][x] = <<>>
    <3>1. ~ (c = Peer(r, x) /\ Sends(r, st, remote[r], x))
      <4> SUFFICES ASSUME c = Peer(r, x), Sends(r, st, remote[r], x) PROVE FALSE
        OBVIOUS
      <4>1. r = v
        BY <2>1, PeerFacts DEF Sends, Ends, c, v
      <4> QED BY <2>1, <2>3, <2>5, <4>1 DEF Sends, c
    <3> QED BY <1>7, <2>1, <2>2, <2>3, <2>5, <3>1 DEF c, v
  <2> QED BY <2>4, <2>5
<1>13. RemoteIsPeer'
  BY <1>2, <1>3, <1>4 DEF RemoteIsPeer
<1>14. TableInv'
  <2> DEFINE old == table[r]
  <2>1. WellFormed(old, Infos) /\ DirectBest(old)
    BY DEF IInv, TableInv, Tables
  <2>2. /\ WellFormed(t, Infos) /\ DirectBest(t)
        /\ \A k \in DOMAIN t.nodes : k[2] # s
        /\ \A k \in DOMAIN t.nodes : k \in DOMAIN old.nodes /\ t.nodes[k] = old.nodes[k]
        /\ \A i \in Node, x \in Session \ {s} :
              <<i, x>> \in DOMAIN old.nodes => <<i, x>> \in DOMAIN t.nodes
    BY <2>1, InfoFacts, PurgeWellFormed DEF t
  <2> HIDE DEF old
  <2>3. ASSUME NEW i \in Node, NEW x \in Session, <<i, x>> \in DOMAIN t.nodes
        PROVE  /\ i # r /\ status'[r][x] = "connected"
               /\ Hops(t.nodes[<<i, x>>]) = 0 => remote'[r][x] = i
    <3>1. x # s /\ <<i, x>> \in DOMAIN old.nodes /\ t.nodes[<<i, x>>] = old.nodes[<<i, x>>]
      BY <2>2, <2>3
    <3>2. i # r
      BY <3>1 DEF old, IInv, TableInv, NoSelfEntry
    <3>3. status[r][x] = "connected"
      BY <3>1 DEF old, IInv, TableInv, RoutesUseLiveSessions
    <3>4. Hops(t.nodes[<<i, x>>]) = 0 => remote[r][x] = i
      BY <3>1 DEF old, IInv, TableInv, OnlyDirectEntry
    <3> QED BY <1>4, <3>1, <3>2, <3>3, <3>4
  <2>4. ASSUME NEW x \in Session, remote'[r][x] # NoNode, status'[r][x] = "connected"
        PROVE  /\ <<remote'[r][x], x>> \in DOMAIN t.nodes
               /\ Direct(t.nodes[<<remote'[r][x], x>>])
    <3>1. x # s /\ remote'[r][x] = remote[r][x] /\ status[r][x] = "connected"
      BY <1>3, <1>4, <2>4
    <3>2. <<remote[r][x], x>> \in DOMAIN old.nodes /\ Direct(old.nodes[<<remote[r][x], x>>])
      BY <2>4, <3>1 DEF old, IInv, TableInv, HasDirectEntry
    <3>3. remote[r][x] \in Node
      BY <1>2, <2>4, <3>1 DEF Types
    <3> QED BY <2>2, <3>1, <3>2, <3>3
  <2>5. \A q \in Node \ {r}, x \in Session :
           status'[q][x] = status[q][x] /\ remote'[q][x] = remote[q][x]
    BY <1>4
  <2> QED BY <1>3, <2>2, <2>3, <2>4, <2>5, TableChanges
<1> QED BY <1>8, <1>9, <1>10, <1>11, <1>12, <1>13, <1>14 DEF IInv, SessionInv

-----------------------------------------------------------------------------
(***************************************************************************)
(* The theorems                                                            *)
(***************************************************************************)

\* At start nothing is connected and the tables are empty.
LEMMA InitInvariant ==
  ASSUME Init
  PROVE  IInv
<1>1. /\ status = [r \in Node |-> [s \in Session |-> "none"]]
      /\ remote = [r \in Node |-> [s \in Session |-> NoNode]]
      /\ transport = [s \in Session |-> "idle"]
      /\ chan = [r \in Node |-> [s \in Session |-> <<>>]]
      /\ drops = 0 /\ table = [r \in Node |-> EmptyTable]
  BY DEF Init, SessionsInit
<1>2. Types
  BY <1>1, TopologyAssumption DEF Types
<1>3. Channels(chan)
  <2>1. \A r \in Node, s \in Session : chan[r][s] = <<>>
    BY <1>1
  <2>2. chan = [r \in Node |-> [s \in Session |-> chan[r][s]]]
    BY <1>1
  <2> QED BY <2>1, <2>2, EmptySeq DEF Channels
<1>4. Fresh /\ LiveEnds /\ GreetingFirst /\ RemoteIsPeer
  BY <1>1, PeerFacts DEF Fresh, LiveEnds, GreetingFirst, RemoteIsPeer
<1>5. /\ EmptyTable.nodes = EmptyMap /\ EmptyTable.best = EmptyMap
      /\ EmptyTable.bySession = EmptyMap /\ DOMAIN EmptyMap = {}
      /\ EmptyTable = [nodes |-> EmptyTable.nodes, best |-> EmptyTable.best,
                       bySession |-> EmptyTable.bySession]
  BY DEF EmptyTable, EmptyMap
<1>6. \A S : EmptyMap \in [{} -> S]
  BY DEF EmptyMap
<1>7. WellFormed(EmptyTable, Infos) /\ DirectBest(EmptyTable)
  <2>1. TableType(EmptyTable, Infos)
    BY <1>5, <1>6 DEF TableType
  <2> QED BY <1>5, <2>1 DEF WellFormed, IndexMatches, BestMatches, IdsOf, DirectBest
<1>8. \A r \in Node : table[r] = EmptyTable
  BY <1>1
<1>9. Tables /\ HasDirectEntry /\ OnlyDirectEntry /\ NoSelfEntry /\ RoutesUseLiveSessions
  BY <1>1, <1>5, <1>7, <1>8
     DEF Tables, HasDirectEntry, OnlyDirectEntry, NoSelfEntry, RoutesUseLiveSessions
<1> QED BY <1>2, <1>3, <1>4, <1>9 DEF IInv, SessionInv, TableInv

\* Every callback of a relay and every event of a transport keeps the invariant.
LEMMA NextInvariant ==
  ASSUME IInv, [Next]_vars
  PROVE  IInv'
<1>1. CASE UNCHANGED vars
  <2>1. /\ table' = table /\ status' = status /\ remote' = remote
        /\ transport' = transport /\ chan' = chan /\ drops' = drops
    BY <1>1 DEF vars, sessionVars
  <2>2. TableInv'
    BY <2>1, TableStays
  <2>3. SessionInv'
    BY <2>1 DEF IInv, SessionInv, Types, Channels, Fresh, LiveEnds, GreetingFirst,
                RemoteIsPeer
  <2> QED BY <2>2, <2>3 DEF IInv
<1>2. ASSUME NEW s \in Session, Connect(s), table' = table PROVE IInv'
  BY <1>2, ConnectKeepsInvariant
<1>3. ASSUME NEW s \in Session, OnNewConnection(s), table' = table PROVE IInv'
  BY <1>3, OnNewConnectionKeepsInvariant
<1>4. ASSUME NEW s \in Session, OnReady(s), table' = table PROVE IInv'
  BY <1>4, OnReadyKeepsInvariant
<1>5. ASSUME NEW s \in Session, Break(s), table' = table PROVE IInv'
  BY <1>5, BreakKeepsInvariant
<1>6. ASSUME NEW r \in Node, NEW s \in Session, Deliver(r, s) PROVE IInv'
  BY <1>6, DeliverKeepsSessions, DeliverKeepsTables DEF IInv
<1>7. ASSUME NEW r \in Node, NEW s \in Session, Disconnected(r, s) PROVE IInv'
  BY <1>7, DisconnectedKeepsInvariant
<1>8. CASE Next
  <2>1. CASE Progress
    BY <1>2, <1>3, <1>4, <1>6, <1>7, <2>1 DEF Progress
  <2>2. CASE \E s \in Session : Break(s) /\ UNCHANGED table
    BY <1>5, <2>2
  <2>3. CASE Idle
    BY <1>1, <2>3 DEF Idle
  <2> QED BY <1>8, <2>1, <2>2, <2>3 DEF Next
<1> QED BY <1>1, <1>8

\* The sessions and tables of the relays stay in order, whatever the network,
\* the order of deliveries and the failures.
THEOREM NodeNetworkInvariant == Spec => []IInv
<1>1. Init => IInv
  BY InitInvariant
<1>2. IInv /\ [Next]_vars => IInv'
  BY NextInvariant
<1> QED BY <1>1, <1>2, PTL DEF Spec

\* No relay ever has an entry for itself: PropagateNodeInfo and InfoBaseSyncPeer
\* tell no relay about itself.
THEOREM NodeNetworkNoSelfEntry == Spec => []NoSelfEntry
<1>1. IInv => NoSelfEntry
  BY DEF IInv, TableInv
<1> QED BY <1>1, NodeNetworkInvariant, PTL

\* Every route uses a session that the relay holds as connected: the weak
\* pointers of nodes_best_ are never those of a session that is gone.
THEOREM NodeNetworkRoutesUseLiveSessions == Spec => []RoutesUseLiveSessions
<1>1. IInv => RoutesUseLiveSessions
  BY DEF IInv, TableInv
<1> QED BY <1>1, NodeNetworkInvariant, PTL

\* The best route to a neighbour is a direct one, whatever SelectBestNode has
\* been told since the handshake.
THEOREM NodeNetworkDirectIsBest == Spec => []DirectIsBest
<1>1. IInv => DirectIsBest
  <2> SUFFICES ASSUME IInv, NEW r \in Node, NEW s \in Session,
                      remote[r][s] # NoNode, status[r][s] = "connected"
               PROVE  /\ remote[r][s] \in DOMAIN table[r].best
                      /\ remote[r][table[r].best[remote[r][s]]] = remote[r][s]
    BY DEF DirectIsBest
  <2> DEFINE n == remote[r][s]
             t == table[r]
             b == t.best[n]
  <2>1. n \in Node
    BY DEF IInv, SessionInv, Types
  <2>2. <<n, s>> \in DOMAIN t.nodes /\ Direct(t.nodes[<<n, s>>])
    BY DEF IInv, TableInv, HasDirectEntry
  <2>3. WellFormed(t, Infos) /\ DirectBest(t)
    BY DEF IInv, TableInv, Tables
  <2> HIDE DEF n, t
  <2>4. n \in DOMAIN t.best /\ <<n, b>> \in DOMAIN t.nodes /\ b \in Session
    BY <2>1, <2>2, <2>3 DEF WellFormed, BestMatches, TableType
  <2>5. Direct(t.nodes[<<n, b>>])
    BY <2>1, <2>2, <2>3 DEF DirectBest
  <2>6. remote[r][b] = n
    BY <2>1, <2>4, <2>5 DEF IInv, TableInv, OnlyDirectEntry, Direct, t
  <2> QED BY <2>4, <2>6 DEF n, t
<1> QED BY <1>1, NodeNetworkInvariant, PTL
=============================================================================
