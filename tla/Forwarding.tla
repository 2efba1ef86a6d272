------------------------------ MODULE Forwarding ------------------------------
(***************************************************************************)
(* How the data of a track finds its way to the relays that subscribe to   *)
(* it: client_fib_ at the relay of the publisher, peer_fib_ at every relay *)
(* that passes data on, and the subscribe node sets (SNS) that build them. *)
(*                                                                         *)
(* The module composes the control plane: the node tables of NodeNetwork   *)
(* give the best session to a subscriber, the subscriptions of             *)
(* SubscribeFlood trigger the node sets, and both share the sessions of    *)
(* PeerSessions with the set messages.                                     *)
(*                                                                         *)
(* There is one track, TheTrack: tracks share no entry of these tables.    *)
(* Its publisher is a client of relay Origin and uses PUBLISH; it stays.   *)
(***************************************************************************)
EXTENDS NodeTableOps, PeerSessions

CONSTANTS
    Srtt, Priority, SeqModulus, Clients, MaxOps,  \* see the modules
    TheTrack,    \* the track
    Origin,      \* the relay of the publisher
    MaxHops      \* bound: how often a set is passed on

ASSUME ForwardingAssumption ==
    /\ Origin \in Node
    /\ MaxHops \in Nat
    /\ TheTrack \in Nat

VARIABLES
    table,                 \* of NodeNetwork
    subs, local, ops,      \* of SubscribeFlood
    announced,  \* announced[r]: announces_ of r holds the track
    handler,    \* handler[r]: r has a handler for the track in pub_subscribes
    attached,   \* attached[r]: that handler has the peering as a subscriber
    subSns,     \* subSns[r][s]: sub_sns_ of r's end of s: its id and nodes
    peerSns,    \* peerSns[r][s]: peer_sns_ of r's end of s, ingress -> nodes
    clientFib,  \* clientFib[r]: client_fib_, ingress session -> egress
    peerFib,    \* peerFib[r]: peer_fib_, ingress <<session, id>> -> egress key
                \* -> egress
    failed      \* failed[r]: a callback of r never returned

nodeVars == <<table>>
subVars == <<subs, local, ops>>
fwdVars == <<announced, handler, attached, subSns, peerSns, clientFib, peerFib,
             failed>>
vars == <<sessionVars, nodeVars, subVars, fwdVars>>

Nodes == INSTANCE NodeNetwork
Subs == INSTANCE SubscribeFlood WITH Track <- {TheTrack}

Self == 0       \* the egress key of the relay's own clients

Expired == 0    \* the session of an entry whose weak pointer has expired

\* An egress: the PeerSession that the entry points to and the set id there.
Egress(s, id) == [session |-> s, id |-> id]

\* Set ids are data contexts, made on the connection of a session: one for the
\* track's own set, and one for every set that comes in as <<session, id>>.
SubSnsId(s) == [made |-> s, hops |-> 1, of |-> <<>>]
PeerSnsId(s, in) == [made |-> s, hops |-> in[2].hops + 1, of |-> in]
NoId == [made |-> NoSession, hops |-> 0, of |-> <<>>]

NoSns == [id |-> NoId, nodes |-> {}]

SnsMsg(withdraw, id, ns) ==
    [kind |-> IF withdraw THEN "unsns" ELSE "sns", id |-> id, nodes |-> ns]

AnnounceMsg == [kind |-> "announce"]

\* The nodes of S up to the i-th, in the ascending order they are walked in.
First(S, i) == {a \in S : Cardinality({b \in S : b < a}) < i}

\* What goes out while the nodes of new join the set ns one after the other:
\* the set, whenever it has grown.
Growing(id, ns, new) ==
    [i \in 1..Cardinality(new) |-> SnsMsg(FALSE, id, ns \cup First(new, i))]

-----------------------------------------------------------------------------
(***************************************************************************)
(* One callback of relay r.  The state it works on is a record; every      *)
(* operation returns the record after it, with what it sends appended to   *)
(* out.                                                                    *)
(***************************************************************************)
State(r) ==
    [r |-> r, st |-> status[r], rem |-> remote[r], table |-> table[r],
     subs |-> subs[r], local |-> local[r][TheTrack],
     announced |-> announced[r], handler |-> handler[r],
     attached |-> attached[r], subSns |-> subSns[r], peerSns |-> peerSns[r],
     clientFib |-> clientFib[r], peerFib |-> peerFib[r], failed |-> failed[r],
     out |-> NoOutput]

SendAll(x, out) == [x EXCEPT !.out = [s \in Session |-> @[s] \o out[s]]]

Best(x, n) == GetBestPeerSession(x.table, n)

\* The session by session parts of a walk over the nodes ns do not depend on
\* each other: the nodes of ns whose best session each session is.
BestOn(x, ns) == [s \in Session |-> {n \in ns : Best(x, n) = s}]

\* Bug for the mutation runs: the set is sent only when it is created.
AddSubscribeSourceNodeOnce(x, ns) ==
    LET sns(s) == x.subSns[s]
        new(s) == ns[s] \ sns(s).nodes
        id(s)  == IF sns(s).nodes = {} THEN SubSnsId(s) ELSE sns(s).id
    IN  [x EXCEPT !.subSns = [s \in Session |->
                     IF new(s) = {} THEN sns(s)
                     ELSE [id |-> id(s), nodes |-> sns(s).nodes \cup new(s)]],
                  !.out = [s \in Session |->
                     IF sns(s).nodes # {} THEN @[s]
                     ELSE @[s] \o Growing(id(s), {}, new(s))]]

\* PeerSession::AddSubscribeSourceNode, for the nodes ns[s] of each session s:
\* the set is sent whenever it grows.
AddSubscribeSourceNode(x, ns) ==
    LET sns(s) == x.subSns[s]
        new(s) == ns[s] \ sns(s).nodes
        id(s)  == IF sns(s).nodes = {} THEN SubSnsId(s) ELSE sns(s).id
    IN  [x EXCEPT !.subSns = [s \in Session |->
                     IF new(s) = {} THEN sns(s)
                     ELSE [id |-> id(s), nodes |-> sns(s).nodes \cup new(s)]],
                  !.out = [s \in Session |->
                     @[s] \o Growing(id(s), sns(s).nodes, new(s))]]

\* PeerSession::RemoveSubscribeSourceNode: the set is withdrawn when it is
\* empty, and the smaller set is not sent when it is not.
RemoveSubscribeSourceNode(x, s, n) ==
    LET old == x.subSns[s]
    IN  CASE old.nodes = {}  -> x
          [] old.nodes = {n} -> [x EXCEPT !.subSns[s] = NoSns,
                                          !.out[s] = Append(@, SnsMsg(TRUE, old.id, {}))]
          [] OTHER           -> [x EXCEPT !.subSns[s].nodes = @ \ {n}]

\* PeerSession::AddPeerSnsSourceNode, for the set that came in as in =
\* <<session, id>> and the nodes ns[s] of each session s.
AddPeerSnsSourceNode(x, in, ns) ==
    LET old(s) == IF in \in DOMAIN x.peerSns[s] THEN x.peerSns[s][in] ELSE {}
        new(s) == ns[s] \ old(s)
    IN  [x EXCEPT !.peerSns = [s \in Session |->
                     IF new(s) = {} THEN @[s] ELSE Put(@[s], in, old(s) \cup new(s))],
                  !.out = [s \in Session |->
                     @[s] \o Growing(PeerSnsId(s, in), old(s), new(s))]]

\* PeerSession::RemovePeerSnsSourceNode with node 0, on each of the sessions:
\* the whole set that came in as in[s].
RemovePeerSns(x, sessions, in) ==
    LET held == {s \in sessions : in[s] \in DOMAIN x.peerSns[s]}
    IN  [x EXCEPT !.peerSns = [s \in Session |->
                     IF s \in held THEN Erase(@[s], {in[s]}) ELSE @[s]],
                  !.out = [s \in Session |->
                     IF s \in held
                     THEN Append(@[s], SnsMsg(TRUE, PeerSnsId(s, in[s]), {}))
                     ELSE @[s]]]

-----------------------------------------------------------------------------
(***************************************************************************)
(* PeerManager, subscriptions                                              *)
(***************************************************************************)

\* Subscriptions of the nodes ns have a publisher here: ProcessSubscribe
\* attaches the peering to the handler, and each node joins the set on the best
\* session to it.
Match(x, ns) ==
    [AddSubscribeSourceNode(x, BestOn(x, ns)) EXCEPT !.attached = @ \/ ns # {}]

\* The sessions whose set is another one in y than in x.
Changed(x, y) == {s \in Session : y.subSns[s] # x.subSns[s]}

\* RemoveOrPausePublisherSubscribe: unless the peering or a subscriber of the
\* handler still wants the track, the relay's own subscription is withdrawn.
RemoveOrPausePublisherSubscribe(x) ==
    LET own == Subs!ClientUnsubscribe(x.r, x.subs, x.st, TheTrack)
    IN  IF \/ DOMAIN x.clientFib # {}
           \/ x.handler /\ (x.attached \/ x.local > 0)
        THEN x
        ELSE SendAll([x EXCEPT !.subs = own.subs], own.out)

\* SubscribeInfoReceived for an advertisement.  A new entry of client_fib_ is
\* filed under the session the subscription came from.
Advertised(x, s, m) ==
    LET known == Subs!Advertised(x.r, s, x.subs, x.st, m)
        y     == SendAll([x EXCEPT !.subs = known.subs], known.out)
        best  == Best(y, m.key[2])
        z     == Match(y, {m.key[2]})
    IN  CASE ~x.handler -> y
          [] x.handler /\ (Changed(y, z) = {} \/ s \in DOMAIN z.clientFib) -> z
          [] OTHER -> [z EXCEPT !.clientFib =
                          Put(@, s, Egress(best, z.subSns[best].id))]

\* Bug for the mutation runs: a withdrawal leaves the forwarding entry.
WithdrawnKeepsFib(x, s, m) ==
    LET known == m.key \in DOMAIN x.subs
        info  == [seq |-> m.seq, data |-> m.data]
        y     == [x EXCEPT !.subs = Erase(@, {m.key})]
        best  == Best(x, m.key[2])
        z     == IF known
                 THEN SendAll(y, Subs!Flood(x.r, x.st, m.key, info, TRUE, s)) ELSE y
    IN  RemoveOrPausePublisherSubscribe(
            IF best = NoSession THEN z ELSE RemoveSubscribeSourceNode(z, best, m.key[2]))

\* SubscribeInfoReceived for a withdrawal: pass it on, take the node out of
\* the set on the best session to it, and with the last node the entry and,
\* with the last entry, the peering's place in the handler.
Withdrawn(x, s, m) ==
    LET known == m.key \in DOMAIN x.subs
        info  == [seq |-> m.seq, data |-> m.data]
        y     == [x EXCEPT !.subs = Erase(@, {m.key})]
        z     == IF known
                 THEN SendAll(y, Subs!Flood(x.r, x.st, m.key, info, TRUE, s)) ELSE y
        best  == Best(x, m.key[2])
        w     == RemoveSubscribeSourceNode(z, best, m.key[2])
        fib   == Erase(w.clientFib, {s})
        last  == z.subSns[best].nodes # {} /\ w.subSns[best].nodes = {}
    IN  RemoveOrPausePublisherSubscribe(
            CASE best = NoSession -> z
              [] best # NoSession /\ last ->
                    [w EXCEPT !.clientFib = fib,
                              !.attached = @ /\ DOMAIN fib # {}]
              [] OTHER -> w)

\* ClientAnnounce, after the publisher's PUBLISH made the handler: tell the
\* peers, then match every subscription of another node; a new entry is filed
\* under the best session.
ClientAnnounce(x) ==
    LET y == SendAll([x EXCEPT !.handler = TRUE, !.announced = TRUE],
                     [s \in Session |-> <<AnnounceMsg>>])
        z == Match(y, {k[2] : k \in DOMAIN x.subs} \ {x.r})
    IN  [z EXCEPT !.clientFib =
            [k \in DOMAIN @ \cup Changed(y, z) |->
                IF k \in DOMAIN @ THEN @[k] ELSE Egress(k, z.subSns[k].id)]]

\* AnnounceInfoReceived: news is passed on and PublishReceived makes a new
\* handler for data from peers, which the local subscribers join.
\* Subscriptions of peers that are known already are not matched.
Announced(x, s) ==
    IF x.announced THEN x
    ELSE SendAll([x EXCEPT !.announced = TRUE, !.handler = TRUE, !.attached = FALSE],
                 [t \in Session |-> IF t = s THEN <<>> ELSE <<AnnounceMsg>>])

-----------------------------------------------------------------------------
(***************************************************************************)
(* PeerManager, node sets                                                  *)
(***************************************************************************)

\* SnsReceived for an advertisement on session s: every node joins the set on
\* the best session to it, and the entries are those of the sessions that have a
\* node, and the relay's own if it is one of them.  An entry that is not
\* renewed is removed, from the session's sets under the session's own id
\* instead of the one the set came in on.
SnsAdvertised(x, s, m) ==
    LET in    == <<s, m.id>>
        old   == IF in \in DOMAIN x.peerFib THEN x.peerFib[in] ELSE EmptyMap
        ns    == BestOn(x, m.nodes \ {x.r})
        keys  == {t \in Session : ns[t] # {}} \cup {k \in {Self} : x.r \in m.nodes}
        stale == {old[k].session : k \in DOMAIN old \ (keys \cup {Self})} \ {Expired}
        y     == RemovePeerSns(AddPeerSnsSourceNode(x, in, ns), stale,
                               [t \in Session |-> <<t, m.id>>])
    IN  [y EXCEPT !.peerFib =
            Put(@, in, [k \in keys |-> IF k = Self THEN Egress(Expired, NoId)
                                       ELSE Egress(k, PeerSnsId(k, in))])]

\* SnsReceived for a withdrawal: the sets it was passed on as are withdrawn
\* too.  The pointer of an entry is not looked at before it is used.
SnsWithdrawn(x, s, m) ==
    LET in == <<s, m.id>>
        entries  == IF in \in DOMAIN x.peerFib THEN x.peerFib[in] ELSE EmptyMap
        sessions == {entries[k].session : k \in DOMAIN entries \ {Self}}
    IN  IF Expired \in sessions THEN [x EXCEPT !.failed = TRUE]
        ELSE [RemovePeerSns(x, sessions, [t \in Session |-> in])
                 EXCEPT !.peerFib = Erase(@, {in})]

-----------------------------------------------------------------------------
(***************************************************************************)
(* PeerManager, sessions                                                   *)
(***************************************************************************)

\* NodeReceived of NodeNetwork.
NodeReceived(x, s, n, info, withdraw) ==
    LET res == Nodes!NodeReceived(x.r, s, x.rem, n, info, withdraw)
    IN  SendAll([x EXCEPT !.table = res.table], res.out)

\* A handshake message: the peer's node information, then InfoBaseSyncPeer
\* with nodes, announcements and subscriptions in this order.
Handshake(x, s, m) ==
    LET y    == NodeReceived(x, s, m.id, Nodes!SelfInfo, FALSE)
        sync == Subs!InfoBaseSyncPeer(x.r, s, y.subs, m.id)
    IN  SendAll([y EXCEPT !.subs = sync.subs],
                [NoOutput EXCEPT ![s] =
                    Nodes!InfoBaseSyncPeer(x.r, s, y.table, m.id)
                    \o (IF y.announced /\ m.id # Origin THEN <<AnnounceMsg>> ELSE <<>>)
                    \o sync.out])

\* Bug for the mutation runs: what came in on the session is still forwarded.
PurgePeerFibKept(x, s) == x

\* PurgePeerSessionInfo, the part on peer_fib_.
PurgePeerFib(x, s) ==
    [x EXCEPT !.peerFib = Erase(@, {in \in DOMAIN @ : in[1] = s})]

\* SessionChanged for a session that is lost: the node goes, then the
\* subscription of the remote node, treated as withdrawn.  Where the remote has
\* none, a client_fib_ entry of the session makes it ask for another best
\* session with the lock that the answer needs: it never returns.
SessionLost(x, s) ==
    LET n    == x.rem[s]
        lost == Nodes!SessionLost(x.r, s)
        y    == PurgePeerFib(SendAll([x EXCEPT !.table = lost.table], lost.out), s)
        key  == <<TheTrack, n>>
        z    == IF key \in DOMAIN y.subs
                THEN Withdrawn(y, s, Subs!SubMsg(TRUE, key, y.subs[key])) ELSE y
        alone == \A t \in Session : z.st[t] # "connected"
    IN  IF key \notin DOMAIN y.subs /\ DOMAIN y.subs # {} /\ s \in DOMAIN y.clientFib
        THEN [y EXCEPT !.failed = TRUE, !.clientFib = Erase(@, {s})]
        ELSE [z EXCEPT !.announced = @ /\ ~alone]

\* The entries of fib, with what points to session s pointing to t instead.
Repoint(fib, s, t) ==
    [k \in DOMAIN fib |-> IF fib[k].session = s THEN [fib[k] EXCEPT !.session = t]
                          ELSE fib[k]]

RepointAll(fib, s, t) == [k \in DOMAIN fib |-> Repoint(fib[k], s, t)]

-----------------------------------------------------------------------------
Init ==
    /\ Nodes!Init
    /\ subs = [r \in Node |-> EmptyMap]
    /\ local = [r \in Node |-> [t \in {TheTrack} |-> 0]]
    /\ ops = 0
    /\ announced = [r \in Node |-> FALSE]
    /\ handler = [r \in Node |-> FALSE]
    /\ attached = [r \in Node |-> FALSE]
    /\ subSns = [r \in Node |-> [s \in Session |-> NoSns]]
    /\ peerSns = [r \in Node |-> [s \in Session |-> EmptyMap]]
    /\ clientFib = [r \in Node |-> EmptyMap]
    /\ peerFib = [r \in Node |-> EmptyMap]
    /\ failed = [r \in Node |-> FALSE]

\* The tables of r become those of x.
Becomes(x) ==
    /\ table' = [table EXCEPT ![x.r] = x.table]
    /\ subs' = [subs EXCEPT ![x.r] = x.subs]
    /\ announced' = [announced EXCEPT ![x.r] = x.announced]
    /\ handler' = [handler EXCEPT ![x.r] = x.handler]
    /\ attached' = [attached EXCEPT ![x.r] = x.attached]
    /\ failed' = [failed EXCEPT ![x.r] = x.failed]

Forwards(x) ==
    /\ subSns' = [subSns EXCEPT ![x.r] = x.subSns]
    /\ peerSns' = [peerSns EXCEPT ![x.r] = x.peerSns]
    /\ clientFib' = [clientFib EXCEPT ![x.r] = x.clientFib]
    /\ peerFib' = [peerFib EXCEPT ![x.r] = x.peerFib]

\* CheckThread reuses the PeerSession object it reconnects: its own sets move
\* to the new session, with their old ids, and entries that point to the
\* object now point to that session; sets that came from others are cleared.
Reconnect(s) ==
    LET c == Client[s]
        p == Prev[s]
    IN  /\ Connect(s)
        /\ ~failed[c]
        /\ subSns' = [subSns EXCEPT ![c] =
              [t \in Session |-> IF t = s /\ p # NoSession THEN @[p]
                                 ELSE IF t = p THEN NoSns ELSE @[t]]]
        /\ peerSns' = [peerSns EXCEPT ![c] =
              [t \in Session |-> IF t \in {s, p} THEN EmptyMap ELSE @[t]]]
        /\ clientFib' = [clientFib EXCEPT ![c] = IF p = NoSession THEN @ ELSE Repoint(@, p, s)]
        /\ peerFib' = [peerFib EXCEPT ![c] = IF p = NoSession THEN @ ELSE RepointAll(@, p, s)]
        /\ UNCHANGED <<nodeVars, subVars, announced, handler, attached, failed>>

\* A message that the bound leaves undelivered.
Beyond(m) == m.kind = "sns" /\ m.id.hops > MaxHops

\* ProcessControlMessage: r takes the next message of session s.
Deliver(r, s) ==
    /\ chan[r][s] # <<>>
    /\ ~failed[r] /\ ~Beyond(Head(chan[r][s]))
    /\ LET m == Head(chan[r][s])
           x == [State(r) EXCEPT !.st = StatusAfter(r, s, m),
                                 !.rem = RemoteAfter(r, s, m)]
           y == CASE IsHello(m)            -> Handshake(x, s, m)
                  [] m.kind = "node"       -> NodeReceived(x, s, m.id, m.info, FALSE)
                  [] m.kind = "withdraw"   -> NodeReceived(x, s, m.id, m.info, TRUE)
                  [] m.kind = "announce"   -> Announced(x, s)
                  [] m.kind = "sub"        -> Advertised(x, s, m)
                  [] m.kind = "unsub"      -> Withdrawn(x, s, m)
                  [] m.kind = "sns"        -> SnsAdvertised(x, s, m)
                  [] m.kind = "unsns"      -> SnsWithdrawn(x, s, m)
       IN  /\ Take(r, s, m, y.out)
           /\ Becomes(y)
           /\ Forwards(y)
    /\ UNCHANGED <<local, ops>>

\* The client's end learns that the session is gone, and keeps its object.
ClientLost(s) ==
    LET r == Client[s]
        y == SessionLost([State(r) EXCEPT !.st[s] = "disconnected"], s)
    IN  /\ ~failed[r]
        /\ ClientDisconnected(s, y.out)
        /\ Becomes(y)
        /\ Forwards(y)
        /\ UNCHANGED <<local, ops>>

\* The server's end learns of it; the PeerSession is destroyed with its sets,
\* and the pointers to it expire.
ServerLost(s) ==
    LET r == Server[s]
        y == SessionLost(State(r), s)
    IN  /\ ~failed[r]
        /\ ServerDisconnected(s, y.out)
        /\ Becomes(y)
        /\ Forwards(IF y.failed THEN y
                    ELSE [y EXCEPT !.subSns[s] = NoSns, !.peerSns[s] = EmptyMap,
                                   !.clientFib = Repoint(@, s, Expired),
                                   !.peerFib = RepointAll(@, s, Expired)])
        /\ UNCHANGED <<local, ops>>

\* A step of relay r on behalf of a client.
Operation(r, x) ==
    /\ ~failed[r]
    /\ chan' = Sent(chan, r, status[r], remote[r], x.out)
    /\ Becomes(x)
    /\ Forwards(x)
    /\ UNCHANGED <<status, remote, transport, drops>>

\* The publisher's PUBLISH arrives.
Publish ==
    /\ ~handler[Origin]
    /\ Operation(Origin, ClientAnnounce(State(Origin)))
    /\ UNCHANGED <<local, ops>>

\* ProcessSubscribe for a client of r, as in SubscribeFlood.
ClientSubscribe(r, p) ==
    /\ ~failed[r]
    /\ Subs!ClientSubscribe(r, TheTrack, p)
    /\ UNCHANGED <<nodeVars, fwdVars>>

\* UnsubscribeReceived: the client leaves the handler, and with the last
\* subscriber the relay's subscription goes.
UnsubscribeReceived(r) ==
    /\ local[r][TheTrack] > 0
    /\ ops < MaxOps
    /\ ops' = ops + 1
    /\ local' = [local EXCEPT ![r][TheTrack] = @ - 1]
    /\ Operation(r, RemoveOrPausePublisherSubscribe([State(r) EXCEPT !.local = @ - 1]))

\* Nothing is left to do, a relay hangs, or the bound is reached.
Idle ==
    /\ \/ Settled
       \/ \E r \in Node : failed[r]
       \/ \E r \in Node, s \in Session : chan[r][s] # <<>> /\ Beyond(Head(chan[r][s]))
    /\ UNCHANGED vars

Next ==
    \/ \E s \in Session :
          \/ Reconnect(s) \/ ClientLost(s) \/ ServerLost(s)
          \/ /\ OnNewConnection(s) \/ OnReady(s) \/ Break(s)
             /\ UNCHANGED <<nodeVars, subVars, fwdVars>>
          \/ \E r \in Node : Deliver(r, s)
    \/ Publish
    \/ \E r \in Node :
          \/ \E p \in Priority : ClientSubscribe(r, p)
          \/ UnsubscribeReceived(r)
    \/ Idle

Spec == Init /\ [][Next]_vars

-----------------------------------------------------------------------------
(***************************************************************************)
(* Properties                                                              *)
(***************************************************************************)

\* Data can leave relay r through egress e: the session is connected and the
\* set id is a data context of its connection.
Usable(r, e) ==
    /\ e.session # Expired
    /\ status[r][e.session] = "connected" /\ transport[e.session] = "up"
    /\ e.id.made = e.session

\* Where it arrives: the relay, the session and the set id.
Port(r, e) == <<Peer(r, e.session), e.session, e.id>>

\* Where the publisher's data leaves relay r for peers (ClientDataRecv, called
\* for the peering as a subscriber of the handler).
Sources(r) ==
    IF attached[r]
    THEN {Port(r, clientFib[r][k]) :
            k \in {k \in DOMAIN clientFib[r] : Usable(r, clientFib[r][k])}}
    ELSE {}

\* The entries that data arriving at port p finds, and where they pass it on to
\* (ForwardPeerData, never back to the session it came from).
Entries(p) ==
    LET fib == peerFib[p[1]]
    IN  IF <<p[2], p[3]>> \in DOMAIN fib THEN fib[<<p[2], p[3]>>] ELSE EmptyMap

PassedOn(p) ==
    {Port(p[1], Entries(p)[k]) :
        k \in {k \in DOMAIN Entries(p) \ {Self, p[2]} : Usable(p[1], Entries(p)[k])}}

\* The ports that the publisher's data reaches.
Ports ==
    LET after[i \in 0..Cardinality(Node)] ==
            IF i = 0 THEN Sources(Origin)
            ELSE after[i - 1] \cup UNION {PassedOn(p) : p \in after[i - 1]}
    IN  after[Cardinality(Node)]

\* Relay r holds a subscription of its own, which it told its peers about.
Subscribed(r) == r # Origin /\ <<TheTrack, r>> \in DOMAIN subs[r]

\* Relay r gets the data for its own clients.
IsServed(r) ==
    /\ Subscribed(r) /\ handler[r]
    /\ \E p \in Ports : p[1] = r /\ Self \in DOMAIN Entries(p)

\* When all is quiet, the track is published and no transport has failed, every
\* relay that holds a subscription gets the data: in whatever order nodes,
\* announcements, subscriptions and sets met on the way.
SubscribersServed ==
    Settled /\ drops = 0 /\ handler[Origin] =>
        \A r \in Node : Subscribed(r) => IsServed(r)

\* When all is quiet, no transport has failed and nobody is subscribed any more,
\* no relay keeps a set or a forwarding entry of the track.
NothingLeft ==
    Settled /\ drops = 0 /\ (\A r \in Node : ~Subscribed(r)) =>
        \A r \in Node :
            /\ clientFib[r] = EmptyMap /\ peerFib[r] = EmptyMap /\ ~attached[r]
            /\ \A s \in Session : subSns[r][s] = NoSns /\ peerSns[r][s] = EmptyMap

\* Data that comes in on a session finds entries only while the relay has that
\* session: none survives its loss.
IngressLive ==
    \A r \in Node : \A in \in DOMAIN peerFib[r] :
        status[r][in[1]] = "connected"

-----------------------------------------------------------------------------
(***************************************************************************)
(* What the repository's documents say and the code does not do            *)
(***************************************************************************)

\* The sessions of the network are there, the one of a failed transport in the
\* form of its replacement.
Restored ==
    Settled /\ \A s \in Session : transport[s] = "down" =>
        \E t \in Session : Prev[t] = s /\ transport[t] = "up"

\* Once the sessions are there again, a relay that is subscribed and has a
\* handler for the track gets the data.  src/docs/relay-protocol.md:880 has the
\* sets of a session removed with it, so that they are built anew; a session
\* object that reconnects keeps sub_sns_, and finds the node already in it.
ServedAgain ==
    Restored /\ handler[Origin] =>
        \A r \in Node : Subscribed(r) /\ handler[r] => IsServed(r)

\* No callback blocks for good.  The comment at src/src/peering/peer_manager.cc:330
\* has SessionChanged look for another best path, which it does with the lock
\* held that the look-up takes.
CallbacksReturn == \A r \in Node : ~failed[r]
=============================================================================
