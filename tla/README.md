# Verification of laps, a MOQT relay

laps is a MOQT relay. It serves MOQT clients (publishers and subscribers) and
peers with other relays, so that a subscriber of one relay receives what a
publisher of another one sends. This directory holds TLA+ models of its peering
control plane, its data plane, the state it keeps for clients, track ranking and
fetches, the TLC configurations that check them on small instances, and TLAPS
proofs about all of them. Paths below are relative to the repository
(`src/...`).

## 1. Inventory of the system

| Component | State | Operations | Interacts with |
| --- | --- | --- | --- |
| `InfoBase` nodes (`src/peering/info_base.cc`) | `nodes_`, `nodes_best_`, `nodes_by_peer_session_` | `AddNode`, `RemoveNode`, `PurgePeerSessionInfo`, `SelectBestNode` | called by `PeerManager` under its own mutex |
| `InfoBase` subscribes | `subscribes_` (track, source node) | `AddSubscribe`, `RemoveSubscribe`, `GetSubscribe` | `PeerManager`; `InfoBaseSyncPeer` and `SessionChanged` walk it directly |
| `InfoBase` announces | `announces_`, `prefix_lookup_announces_` | `AddAnnounce`, `RemoveAnnounce`, `GetAnnounceIds` | `PeerManager`; cleared by `SessionChanged` |
| `InfoBase` forwarding | `client_fib_`, `peer_fib_` | filled and emptied by `PeerManager` | data plane |
| `PeerSession` (`src/peering/peer_session.cc`) | `status_`, `remote_node_info_`, control buffer, `peer_sns_`, `sub_sns_` | `Connect`, the `Send...` methods, `ProcessControlMessage`, `OnConnectionStatus`, data callbacks | transport callbacks below, `PeerManager` above |
| `PeerManager` (`src/peering/peer_manager.cc`) | session maps, `InfoBase` | `NodeReceived`, `SubscribeInfoReceived`, `AnnounceInfoReceived`, `SnsReceived`, `SessionChanged`, `InfoBaseSyncPeer`, `CheckThread`, the `Client...` calls, data forwarding | `ClientManager`, every `PeerSession` |
| `ClientManager` (`src/client_manager.cc`, `src/state.h`) | the maps of `State`, the cache, `stop_fetch_` | handlers of MOQT messages, fetch, connection loss | `PeerManager`, track handlers |
| Track handlers (`src/subscribe_handler.cc`, `src/publish_handler.cc`, `src/publish_namespace_handler.cc`, `src/fetch_handler.cc`) | subscribers and streams of a track | object fan-out, pause and resume | `ClientManager`, `PeerManager`, cache |
| `TrackRanking` (`src/track_ranking.h`) | ordered tracks per property, flat list | `UpdateValue` | `SubscribeTrackHandler`, `PublishNamespaceHandler` |
| Message codecs (`src/peering/messages`) | none, except the sequence number in `SubscribeInfo::Serialize` | encode, decode | `PeerSession` |
| `main`, configuration, signals | process life cycle | start, stop | all |

Threads: each transport has its own callback threads; `CheckThread` reopens lost
outbound sessions; MOQT callbacks of clients call into `PeerManager` directly;
each fetch runs on a detached thread.

What is hard here: sessions of several threads act on one information base;
advertisements, withdrawals and the synchronisation of a new session cross each
other; a session's two ends notice a failure at different times, and the client
may have reconnected before the server notices; a client's session object
outlives its connection; flooding must end in networks with cycles; streams are
cut into chunks anywhere and change their subscribers in the middle; several
maps describe the same facts and must agree. The hazards, each at its line, are
listed in `PROJECT.json`.

What makes the parts correct:

* node table: the index and the best session always agree with the entries, a
  purge leaves nothing behind, the best session is in fact the best;
* node information: routes use live sessions, lead to the node, and the
  exchange ends;
* subscribe and announce information: relays agree with the source once all is
  quiet, a withdrawal removes what it names and nothing else, flooding ends;
* forwarding: data reaches every relay with a subscription, and no set or entry
  is left when the last subscription is gone;
* control stream: messages are handled in order, none twice, none skipped;
* data streams: what is passed on starts where it may and has no hole, and no
  stream outlives its source;
* client state: the maps of `State` describe the same subscriptions, and no
  entry outlives the connection it belongs to;
* ranking: a filtered subscriber gets the selected tracks and no more;
* fetch: the objects of the range, in order and once, and an answer in any case.

## 2. Modules and the code they model

| Module | Models |
| --- | --- |
| `Peers` | node ids, session ids, maps |
| `NodeTableOps` | the node operations of `InfoBase` as functions of the table |
| `NodeTable` | one relay's table under arbitrary operations; its properties |
| `PeerSessions` | sessions: connect, accept, handshake, sending, failure, both ends' notification, reconnection |
| `ControlChannel` | abstract: an ordered channel of control messages |
| `ControlStream` | the receive buffer of a control stream; implements `ControlChannel` |
| `NodeNetwork` | `NodeTableOps` and `PeerSessions` composed: relays exchanging node information |
| `SubscribeFlood` | `PeerSessions` with `subscribes_` and the clients' subscribe operations |
| `AnnounceFlood` | `PeerSessions` with `announces_`, the prefix index and the clients' publish operations |
| `Forwarding` | `NodeNetwork` and `SubscribeFlood` composed with a publisher, node sets, `client_fib_` and `peer_fib_` |
| `StreamUnits` | the units a stream is cut into, shared by the next two |
| `PeerStreams` | data streams through a relay between two peers |
| `Fanout` | data streams at the relay of the publisher: clients, namespace subscribers, peers |
| `ClientState` | the maps of `State` under the handlers of `ClientManager` |
| `TrackRanking` | `TrackRanking::UpdateValue` and `UpdateTrackRanking` of the namespace handlers |
| `FetchControl` | fetch threads, cache, cancel flags |
| `Topologies`, `MC...` | instances for TLC |
| `PeeringProofs` | lemmas about `NodeTableOps` and `PeerSessions`: table operations, session types, handshakes, trees |
| `NodeNetworkProofs` | theorems about `NodeTable` and `NodeNetwork` |
| `SubscribeFloodProofs`, `AnnounceFloodProofs`, `ForwardingProofs`, `ClientStateProofs` | theorems about the module of that name |
| `StreamProofs` | theorems about `PeerStreams`, `ControlStream` and `Fanout` |
| `TrackProofs` | theorems about `TrackRanking` and `FetchControl` |

**Node table.** A table is a record of the three maps. A map is a function on
the set of its keys. Each public operation takes the mutex of `InfoBase`, hence
is one action. `SelectBestNode` is written as its loop: `Scan` is the session
held after each step, `Beats` the comparison as it stands in the code.

**Sessions.** A session id names a session at both ends (in the code each end
has a transport id of its own). `status` and `remote` are `status_` and
`remote_node_info_.id` of each end, `chan` what is on its way to an end. A
callback runs to its end in one action: `Take` is `ProcessControlMessage` for
one message; the module that extends `PeerSessions` says what else the message
does and what is sent. `CheckThread` reuses the session object under a new id:
`Connect(s)` with `Prev[s]` the id it had. The transport is external: in order
while up, and `Break` loses what is in flight. Each end is notified of a
failure once, at any later time. The server's end is `connected` from
`OnNewConnection` on, but learns the data context of the control stream only
with the first message (`peer_session.cc:552`); what it sends before that is
lost (`Sent`).

**Control stream.** The bytes of a message are `Size[k]` units. `OnRecvStream`
appends a chunk, any run of units, to `controL_msg_buffer_` and then calls
`ProcessControlMessage`, which handles at most one message; an exception in a
handler (`Bad`) clears the buffer, after which the bytes that follow are misread
unless the buffer ended with a message. `ControlChannel` is what the other
modules assume of a session: messages are handled in the order they were
written, none twice, and none is skipped unless a handler threw.
`ImplementsChannel` is the refinement, with the mapping
`next <- arrived - Len(buffer) + 1`, `lost <- misread`. It holds for sessions
that the relay accepted, whose object goes with the connection. No liveness is
claimed: messages that arrive together are handled one per later chunk, so that
the last ones wait for something else to be sent. The liveness properties of the
network modules assume that each message is handled in the end.

**Node information.** `NodeReceived`, `PropagateNodeInfo`, `InfoBaseSyncPeer`
and `SessionLost` follow the methods of `PeerManager`. Of a `NodeInfo` the
models keep the ids of the path and the sum of the sRTTs. An advertisement is
passed on with the id of the *node* appended, a withdrawal with the id of the
*relay*, as in the code.

**Subscribe information.** The relays of `SubscribeFlood` have no publisher of
the tracks, so `client_fib_`, `sub_sns_` and `pub_subscribes` stay empty and the
second half of `SubscribeInfoReceived` finds no match; `Forwarding` has it.
`Flood` models `Serialize`'s bump of the sequence number, once per message and
only at the source, with its wrap. `ClientUnsubscribe` and
`ClientSubscribeUpdate` work on a copy, so their bumps are lost;
`InfoBaseSyncPeer` works on the stored object, so its bumps stay.

**Announce information.** `announces_` is a set of (name, source) pairs and the
prefix index a set of (prefix, name) pairs; hash collisions are left out. A
withdrawal of a namespace ends in `PublishNamespaceDoneReceived(0, ...)`, which
announces a withdrawal of the relay's own if it has ever had a peer's request
for that namespace.

**Forwarding.** A callback works on a record of its relay's state and returns
the record after it, with what it sends in `out`; the node and subscribe parts
are the operators of `NodeNetwork` and `SubscribeFlood`, taken by `INSTANCE`.
`subSns` and `peerSns` are `sub_sns_` and `peer_sns_` of each end of a session.
A set id is the data context it is sent on; the model names it by the session it
was made on and the set it stands for, so that an id of a lost connection is
told from one of its successor. Entries hold weak pointers: they expire with an
accepted session (`ServerLost`) and follow the object of a client's session to
its next connection (`Reconnect`). `failed` marks a relay one of whose
callbacks never returns (a mutex taken twice) or uses an expired pointer; what a
program does after that is undefined, and the relay takes no further step. There
is one track, since tracks share no entry, and its publisher stays. A loop of
the code over the nodes of a subscription is written session by session: a node
only matters for the session that is best for it (`BestOn`), and what is sent on
that session while its set grows, nodes in ascending order, is `Growing`.

**Streams at a relay on the way.** `PeerStreams` has one node set of one ingress
session. `fib` maps an egress session to the incoming streams that have a stream
there; `out` records what was sent on it. `SnsReceived` writes the entries that
the set names anew, without streams, as the code does. `ctx` is the stream's
`caller_any`: absent, an empty header, or the header. The relay's own
subscription may come and go in the middle (`OwnSubscription`). `CloseStream` is
its loop over `peer_fib_`; the loop over `client_fib_` that follows is for a
relay that has the track's publisher too, and is not translated.

**Fan-out at the publisher's relay.** A stream is a header and objects of some
units; the first chunk has the whole header, and after the header the data comes
in any chunks. `ForwardReceivedData` sends a chunk on,
`ObjectReceived` sends a whole object to those who have none of the subgroup
yet, and one object is parsed per chunk. `ClientDataRecv` goes through the
peers in order and *returns* at the first that has no stream, so that later ones
miss the chunk too. Ends of subgroups reach the peers from several places
(`StreamClosed`, `EndedWith`, `Pause`).

**Client state.** `st` holds the maps of `State` and what the handlers read and
change of `PeerManager`: the subscriptions of other relays (`peer_subs`), the
best session to each (`nodes_best`), the node sets of the sessions (`sub_sns`)
and the keys of `client_fib_`. `Forward` is the part that `SubscribeInfoReceived`
and `ClientAnnounce` share: `ProcessSubscribe(0, 0, ...)` for every match, the
node set and the entry only if there is a best session and the node is new in
its set. The two file the entry under different sessions, the one the message
came on and the best one, hence the parameter. `NodeReceived` changes the best
session at any time; the sessions themselves stay connected. Handlers call each other in the code, hence each is a
function from state to state; an action applies one. The loop of
`UnsubscribeNamespaceReceived` that erases under its own iterator is recorded in
`undefined`.

**Ranking.** `ordered` holds the buckets, `flat` is `flat_track_list_` and is
rebuilt only when the code sets `needs_rebuild`. The place of a track in the
rebuilt list is the number of tracks that come before it in the buckets' order. A namespace handler's published
tracks are `ok` or `paused`.

**Fetch.** A fetch holds shared pointers to the groups it resolved (`view`):
objects cached later in such a group appear in it while the group is cached
(`shared`), and it keeps the group when the cache drops it. The thread sends one
object per step. The wait for a publisher is one step that may end by any answer
or by its time limit.

## 3. Runs

| Run | Instance | Shows |
| --- | --- | --- |
| `node_table` | 2 nodes, 3 sessions, 3 infos that disagree on hops and sRTT | `IndexMatchesNodes`, `BestIsAnEntry`, `PurgeLeavesNoTrace`, and `BestNotDominated` where at most two sessions reach a node |
| `net_ring` | 3 relays in a ring, different sRTTs, 1 failure, 1 reconnection | `NoSelfEntry`, `RoutesUseLiveSessions`, `DirectIsBest`, `Converges` |
| `sub_line` | line, a client at each end, 3 client operations, 1 failure, 1 reconnection, sequence numbers that wrap at 2 | `Agreement`, `NoEcho`, `FloodingStops` |
| `ann_line` | line, a namespace and a track at the ends, 3 client operations, 2 failures, 1 reconnection | `Agreement`, `IndexExact` for tracks with one source, `FloodingStops` |
| `forwarding` | line, publisher at one end, a client at each other relay, 3 client operations, 1 failure | `SubscribersServed`, `NothingLeft`, `IngressLive` |
| `peer_streams` | 2 streams of up to 4 units, header of 2, 2 egress sessions | `MappedIsWhole`, `MappedIsOpen`, `OutIsPrefix` |
| `control_stream` | 3 kinds of messages of 1 to 2 units, one of which throws, 5 messages, 2 connections | `ImplementsChannel` |
| `fanout` | 2 tracks, one client, one namespace subscriber, 2 peers, 2 objects of 2 units | `ClientStreamComplete`, `PeerStartsWithHeader`, `NoOrphanStream` |
| `client_state` | 2 clients with 2 and 1 requests, a track, a prefix, another relay and a session to it, whose route comes and goes (662,730 states) | `SubscribeIndexes`, `FanoutIsSubscribers`, `PausedIffIdle`, `NoTraceOfClosed`, `PeersServed` |
| `ranking` | 3 tracks, 2 values, 3 updates, 2 subscribers, one with a filter for one track | `FlatSound`, `TopIsRunning`, `TopNAfterUpdate` |
| `fetch` | 2 groups of 2 objects, one fetch of any range | `FetchExact`, `FetchCompletes` |
| `fwd_rejoin` | pair, publisher at the relay that opens the session, a client at the other, 1 failure, 1 reconnection | *violation* of `ServedAgain` |

`Agreement`, `NoEcho`, `SubscribersServed`, `NothingLeft`, the second half of
`Converges` and of `IndexExact` speak of histories in which no transport has
failed (`drops = 0`): after a failure they do not hold, see section 5. The same
runs explore the failures for the other properties. `PausedIffIdle` leaves out
publishers that a forwarding entry keeps running, and the peering side of a track
that is not forwarded: `PublishReceived` pauses a publisher that has only it, for
want of a route. `PeersServed` speaks of tracks that are forwarded and subscribed
to by another relay; `FanoutIsSubscribers` and `NoTraceOfClosed` name their
exceptions in their comments.

The runs `sub_line` and `ann_line` also evaluate `LineIsTree`, the hypothesis of
the theorems of section 4 about trees, on the topology they use.

Bounds:

* `MaxSession` and the topology bound the network; a line is the smallest
  network with a relay in the middle, a ring of three the smallest with a cycle;
  `Reline`, `Rejoin` and `Pair` add the session that replaces a lost one, so that old
  and new coexist.
* `MaxDrops` bounds failures: one is enough for every end to notice in any
  order, two let the replacement fail too.
* `MaxOps` bounds client operations: three allow subscribe, withdraw and
  subscribe again.
* `SeqModulus` stands for 65536; 2 is the harshest value, in which every second
  number collides, and lets the wrap happen within the bound.
* `MaxHops` bounds how often a node set is passed on. After a failure two relays
  may hold each other as best route (section 5) and pass a set back and forth
  under ever new ids; a set that goes further than the line is long is not
  delivered.
* `MaxUnits`, `HeaderSize`, `Objects`, `ObjectSize`: every way to cut a header or
  an object into two chunks, and a chunk that spans two objects. `MaxGroup = 1`
  in `fanout` gives each track one stream; with one peer, `MaxGroup = 2` holds too
  (95,518 states).
* `MaxMessages`, `MaxConnections`: a backlog of several messages, an exception in
  the middle of it, and a connection after it.
* `MaxRequest`: two requests of one client let it subscribe and publish, or do
  either twice.
* `MaxTick`, `MaxUpdate`: one tick is beyond `InactiveAge` and `RefreshInterval`
  of 0; three updates rank all tracks, or move one twice.

Symmetry is used in `peer_streams` (streams, egress sessions: the loops over
them have no order that matters) and `fanout` (tracks). Everywhere else ids are
ordered in the code. `client_state` has a VIEW that leaves `own_subs` out, which
no guard, no handler's result and no property depends on.

Deadlock is not checked where clients may simply stop: `control_stream`,
`fanout`, `client_state`, `ranking`, `fetch`. The others idle explicitly when
nothing is left to do.

Fairness. In the network modules `WF_vars(Progress)`: as long as the check
thread has a session to open, or a transport a message or a notification to
deliver, one of the relays' threads takes such a step. Which one is left open;
the code has no priorities. Clients and failures are not fair. In
`FetchControl` each fetch thread is fair, as a thread of the process is;
publishers, clients and the cache's clock are not: `FetchCompletes` holds because
the wait for a publisher has a time limit.

## 4. Proofs

Each theorem states a property, in all but one case (`AnnounceFloodTypeOK`) one
that a run checks on a small instance, for every value of the constants that the
named ASSUMEs of the modules allow. Where two components share a proof module
their specifications have different names (`TableSpec`, `FanoutSpec`,
`FetchSpec` beside `Spec`), and both sets of assumptions are in scope; they
concern different constants.

| Theorem | States |
| --- | --- |
| `NodeTableTypeOK`, `NodeTableIndex`, `NodeTableBest`, `NodeTableBestNotDominated` | `TableSpec` implies `[]TableTypeOK`, `[]IndexMatchesNodes`, `[]BestIsAnEntry`, `[]BestNotDominated` of `NodeTable` |
| `NodeTablePurge` | `TableSpec` implies the action property `PurgeLeavesNoTrace` |
| `NodeNetworkNoSelfEntry`, `NodeNetworkRoutesUseLiveSessions`, `NodeNetworkDirectIsBest` | the three invariants of `NodeNetwork` |
| `SubscribeFloodTypeOK`, `SubscribeFloodNoEcho`, `SubscribeFloodAgreement` | the invariants of `SubscribeFlood`; the last two in every tree of relays |
| `AnnounceFloodTypeOK`, `AnnounceFloodIndexExact`, `AnnounceFloodAgreement` | the invariants of `AnnounceFlood`; the last one in every tree of relays |
| `ForwardingIngressLive` | `IngressLive` of `Forwarding`, in any topology and with any number of failures and reconnections |
| `ClientStateTypeOK`, `ClientStateSubscribeIndexes`, `ClientStateFanoutIsSubscribers`, `ClientStatePausedIffIdle`, `ClientStateNoTraceOfClosed`, `ClientStatePeersServed` | the six invariants of `ClientState` |
| `ControlStreamTypeOK`, `ControlStreamImplementsChannel` | type correctness, and the refinement of `ControlChannel` |
| `PeerStreamsMappedIsWhole`, `PeerStreamsMappedIsOpen`, `PeerStreamsOutIsPrefix` | the invariants of `PeerStreams` |
| `FanoutTypeOK`, `FanoutClientStreamComplete`, `FanoutPeerStartsWithHeader`, `FanoutNoOrphanStream` | the invariants of `Fanout` |
| `TrackRankingTypeOK`, `TrackRankingFlatSound`, `TrackRankingTopIsRunning` | the invariants of `TrackRanking` |
| `TrackRankingTopN` | the action property `TopNAfterUpdate` |
| `FetchControlExact` | `FetchExact`, the safety half of `FetchControl` |

What is assumed of the constants: sets of ids and counts have their types, and

* the ids of relays are positive and finitely many, a session has two different
  ends, and an id replaces at most what `Prev` says (`TopologyAssumption`);
  finiteness is what makes the walk of `InfoBaseSyncPeer` over the table end;
* tracks are finitely many (`RankingAssumption`, `SubscribeAssumption`), for the
  same reason; in the network modules they are naturals, the order of the maps;
* names have at least one element (`AnnounceAssumption`, `ClientAssumption`);
* clients, tracks, prefixes and other relays are finitely many; 0, the connection
  id of calls that come from a peer, is no client, and no session
  (`ClientAssumption`);
* the publisher of `Forwarding` is at one of the relays (`ForwardingAssumption`);
* clients, namespace clients and peers are different things
  (`FanoutAssumption`);
* the refinement is stated for sessions the relay accepted (`ASSUME Inbound`);
  for the others it is false (`FirstMessageFirst` in section 5). The runs use
  the same value;
* `NoEcho` and the two `Agreement`s have the hypothesis `IsTree(dist, up)`: for
  each relay `n`, every other relay has a session `up[n][r]`, opened at start, to
  a relay that is closer to `n`, and every session opened at start is one of
  these, from one of its ends. In a ring the properties are false (section 5).

**Node table.** The inductive invariant is `TypeOK`, the two indexes and
`WinnerBest`. None of the parts is inductive alone: `BestIsAnEntry` after a purge
needs the index to list every entry of the session, since the purge selects again
only for the nodes it lists, and the index needs the types. `BestNotDominated` is
not inductive, since a removal brings a node from three sessions down to two.
`WinnerBest` is: a session that beats all others of its node and is beaten by
none is the best one, however many there are; with two sessions, one that
dominates the other is such a winner. The step is in `PeeringProofs`, one
lemma per operation (`AddNodeWellFormed`, `RemoveNodeWellFormed`,
`PurgeWellFormed`), so that the network can use it for the table of each relay.
The core is the loop of `SelectBestNode`. `Scan` is a recursive function over the
session ids; that it is defined at every step, and what it holds, is shown by the
least counterexample over the natural numbers (`RunExists`, `ScanResult`).
`ScanWinner` and `ScanDirect` are the two facts that depend on `Beats`: a winner,
or an entry with no hop and no delay, is taken when the loop comes to it and not
given up again, whatever session it started from.

**Network of relays.** The invariant is `SessionInv /\ TableInv`: what may be in
a channel (the greeting of the other end, and news of third relays with at least
one hop), how the status of the two ends, the transport and the channels agree,
and that every table is well formed, uses connected sessions only, has a direct
entry for the other end of each connected session that had its handshake and no
other entry without hops, and `DirectBest`. That a client takes the server's
greeting first is what keeps news off a session whose end is not known yet; that
no relay is told about itself or about the end it is told by rests on the filters
of `PropagateNodeInfo` and `InfoBaseSyncPeer`. The sync walks the entries in
order: `RankExists` shows, by counting the keys in front, that every key has a
place. Nothing bounds the number of failures
(`MaxDrops` is any natural number).

**Flooding.** The loop of `SessionChanged` over the subscriptions is a recursive
function on the number of entries walked; that it is defined, and that it keeps
the types, is shown by the least counterexample. `Agreement` and `NoEcho` rest on
an invariant of the phases of each session while no transport has failed
(`Handshakes`: which end has greeted, and what may be in a channel before and
after), and on one fact per tree edge: the messages under way to a relay on its
session towards a source, taken in their order, make it agree with the relay at
the other end as far as that source is concerned (`Edge`, with `Leads`). When all
is quiet nothing is under way, so that the two ends agree, and going to the relay
least far from the source that disagrees with it, all do. `NoEcho` follows since
information of a source is under way only away from it (`Routes`). `IndexExact` needs no tree: the
index is changed only together with the entry, except for names with several
sources, where one source's withdrawal takes the index of all, and for
namespaces, hence its restriction to `SoleTracks`.

**Forwarding.** The inductive invariant has three parts. The sessions, in a form
that survives any failure and reconnection: nothing is under way unless the
transport is up, the server's end is connected from its acceptance on, and until
the client's end is connected the first message for it is the answer to its
`Connect` (`Live`). Finite tables, so that the walks over them end. And
`FibLive`, that entries of `peer_fib_` are of connected sessions. For the last,
one lemma per handler says which entries it can add, only those of the session it
was called for (`Adds`), or that it adds none (`Keeps`), or which it removes
(`Loses`). A `Sns` cannot be handled on a session whose handshake is not over,
since the answer comes first; that is where the first part is needed.

**Client state.** The inductive invariant says that open connections and
announced names are of the constants' sets, that `st` is well typed over the open
connections, and `Good(st)`: the maps of a subscription have the same entries
(`SameSubscribes`), a publisher's handler has subscribers that the maps have,
and all of them once it is initiated, and namespace subscribers whose prefix its
track has (`Attached`; `UnsubscribeNamespaceReceived` finds handlers by prefix,
hence would miss others), and a handler without subscribers is paused unless a
forwarding entry runs it (`IdlePaused`). For `PeersServed`, `Attached` also says
that a paused handler has at most the peering side, and that only as the handler
of a PUBLISH whose track is not forwarded, and that the peering side is attached
to the PUBLISH handlers of every track that is forwarded and subscribed to by
another relay: `Forward` attaches it to all handlers before it makes an entry, a
later PUBLISH finds the subscription in `ClientAnnounce`, and the withdrawal that
detaches it leaves no entry of the track. There is one lemma per handler, since handlers call each other;
`PublishReceived` breaks the agreement for the track it registers and restores it
at its end, hence `GoodBut`. A loop over a set is a fold. That a fold leads from
`G[{}]` to `G[D]`, when each of its steps leads from `G[X]` to `G[X \cup {d}]`, is
shown by the least counterexample on the cardinality of the part already walked.

**Control stream.** Outside of a misreading, the buffer is the run of messages
from the last one handled to the last that arrived, whatever the chunks; an
action of the stream then is a step of the channel under
`next <- arrived - Len(buffer) + 1` or leaves it alone.

**Streams.** `PeerStreams`: an entry maps a stream only if its context has the
header, what was sent on it is everything received so far, and a stream without
a context has received nothing, so that none is mapped in its middle. `Fanout`: `ClientRun` says where
a client's stream begins (at an object's first unit) and that it goes on without
a hole to the last unit received, in terms of the objects taken from the buffer
so far; the rest is arithmetic of units and objects.

**Ranking.** `FlatSound` and `TopIsRunning` with the types are inductive. A
rebuild puts every track of the property at one place, since the tracks before
it are fewer than the tracks (`PlaceTaken`). Publishing one more track can only
push a track out of a selection (`SelectedShrinks`), and a selection is at most as
large as the number of places it is taken from (`SelectedBound`).

**Fetch.** `FetchExact` speaks of a fetch that has ended. `Walked` says how far
its loops have come: what it owes lies in the groups it points to, and what of it
lies at or before its position has been sent, in order.

Only model-checked, and why:

* liveness (`Converges`, `FloodingStops`, `FetchCompletes`): the prover has no
  fairness;
* `SubscribersServed` and `NothingLeft` of `Forwarding`: they relate the tables,
  node sets and forwarding entries of all relays on a path with the messages of
  three kinds under way along it; they have no inductive form yet.

## 5. Disagreements between the code and what the repository says of it

The quotes and lines are in the findings of `PROJECT.json`. `fwd_rejoin` is a
run; each of the others is a property of its module, reproduced by giving it to
TLC as the only property with the constants named here.

| Property | Module and constants | What happens |
| --- | --- | --- |
| `ServedAgain` | run `fwd_rejoin` | a session object that reconnects keeps `sub_sns_`; the subscriber's node is in it already and no set is sent on the new connection |
| `BestInDocumentedOrder` | `MCNodeTable`, run `node_table` with `MaxSession = 2` | fewer hops *or* less sRTT wins; the comment says hops first |
| `NoForwardingLoop` | `MCNodeNetwork`, `Line*`, `MaxSession = 2`, `MaxDrops = 1` | a relay is not in the path of what it passes on; after a failure two relays point at each other |
| `AnotherPathFound` | `MCNodeNetwork`, `Ring*`, `MaxSession = 3`, `MaxDrops = 1` | a withdrawal goes back to its sender, which removes its valid route |
| `FloodingStops` | `MCSubscribeFlood`, `Ring*`, `MaxSession = 3`, `MaxDrops = 0`, `OneClient`, `MaxOps = 1`, `SeqModulus = 4` | one subscription circulates in a ring forever |
| `HeldWhileSubscribed` | `MCSubscribeFlood`, `Line*`, `MaxSession = 2`, `MaxDrops = 0`, `EndClients`, `MaxOps = 3`, `SeqModulus = 4` | a peer's withdrawal makes a relay withdraw its own client's subscription |
| `PrefixMatchFinds` | `MCAnnounceFlood`, `Line*`, `MaxSession = 2`, `MaxDrops = 0`, `TwoOriginsTrack`, `MaxOps = 3` | one source's withdrawal removes the prefix index of all |
| `PeersKnowPublishers` | `MCAnnounceFlood`, `TwoRelays`, `Pair*`, `MaxSession = 2`, `MaxDrops = 1`, `PairTrack`, `MaxOps = 1` | losing the last session clears the relay's own announcements |
| `CallbacksReturn` | `MCForwarding`, run `forwarding` | `SessionChanged` takes the mutex of `InfoBase` and calls `GetBestPeerSession`, which takes it again |
| `PeerAttachedOnlyIfForwarding` | `MCClientState`, run `client_state` | a withdrawal that comes when there is no route to the subscriber finds no session, and leaves the peering side subscribed to the publishers |
| `FirstMessageFirst` | `MCControlStream`, run `control_stream` with `Inbound = FALSE`, `Bad = {}` | what was left in the buffer is handled on the new connection, before the connect response |
| `HeaderAwaited` | `MCPeerStreams`, run `peer_streams` | a header that comes in two chunks leaves the stream with an empty header, and its data is dropped |
| `SmoothTransition` | `MCPeerStreams`, run `peer_streams` without symmetry | an update of a set cuts the streams in progress and leaves their outgoing streams open |
| `PeerBytesExact` | `MCFanout`, run `fanout` | what is left in the buffer after an object is sent a second time |
| `ListIsCurrent` | `MCTrackRanking`, run `ranking` | a bucket that becomes empty does not ask for a rebuild of the list |
| `CancelInterrupts` | `MCFetchControl`, run `fetch` | a cancel sets a flag only where no fetch has made one, hence never stops a running fetch |

Further disagreements seen while modelling:

* with three sessions `SelectBestNode` may hold a session that is worse than
  another one in hops and sRTT both: sessions 1, 2, 3 scanned in this order may
  go from the good one to a middle one to a worse one, since `Beats` is not
  transitive;
* two sessions that beat each other make every repeated advertisement move the
  best session, so that `AddNode` reports a change for a duplicate
  (`relay-protocol.md:453`), and a changed metric of the best session itself is
  not reported;
* the sequence number starts at 0 at every subscribe, so that a withdrawal and
  the next advertisement may carry the same number (`relay-protocol.md:1379`);
* a session's end removes the subscriptions of the remote node only, not of the
  nodes behind it (`relay-protocol.md:743`), and a withdrawal lost with a session
  is undone by the sync after the reconnection;
* the late idle timeout of a replaced session withdraws the subscriptions that
  the new one has just synchronised, and with them the relay's own;
* a server's end never clears announcements, since its session still counts as
  connected while `SessionChanged` runs; the prefix index is never cleared;
* in a ring an announcement may be chased by its own withdrawal forever; a
  namespace that is announced again is withdrawn by the answer of a peer to the
  earlier withdrawal, so that publishing, unpublishing, publishing and
  unpublishing a namespace (`MaxOps = 4`) leaves relays that disagree;
* the update of a node set that drops an egress session asks that session to
  remove a set under its own id instead of the ingress one
  (`peer_manager.cc:1058`): the set stays there;
* without `allow_self`, `PublishReceived` attaches a publisher's own namespace
  subscription and `UnsubscribeNamespaceReceived` skips it, so that it stays
  (`client_manager.cc:367`, `515`); the same loop may erase the element its
  iterator stands on (`514`-`527`); entries of `pub_subscribes_by_req_id` are
  not purged when the publisher's connection is lost (`606`-`622`); a subscribe
  error leaves an empty entry of `pub_namespace_active`
  (`subscribe_handler.cc:449`);
* `ClientDataRecv` returns from its loop at the first peer that joined in the
  middle of a stream, so that peers after it get a stream with a hole
  (`peer_manager.cc:578`);
* a subscription of the relay itself that is withdrawn and made again in the
  middle of a stream leaves a hole for its clients; a stream that closes before
  its first chunk makes `OnStreamClosed` throw;
* a publisher's answer to a fetch that comes after the time limit is passed on
  although the client got an error; entries of `stop_fetch_` are never erased, so
  that a request id whose cancel came first stays stopped.

## 6. Not modelled

* Datagrams, new-group requests, the dampening of subscribe updates, track
  status requests, delivery timeouts and metrics: they change no state that the
  properties are about, or only pass messages through.
* The byte layouts of the codecs; messages are records. `cxxopts.hpp` is third
  party code.
* Option parsing, start and stop of the process.
* Data races: `CheckThread` walks and changes the session map without the
  mutex, and `ForwardPeerData` and `SnsReceived` use the entries of a set under
  different ones. A race on a `std::map` has no meaningful small set of
  outcomes; each callback is one step here, in every order.
* `NodeReceived` is one step. In the code `AddNode` and the propagation hold
  different mutexes, and two callbacks may interleave between them.
* The time to live of one second that control messages have in the transport's
  queue: the channel loses messages only with the connection.
* A first chunk of a publisher's stream without the whole stream header
  (`subscribe_handler.cc:240`), which the code calls invalid and leaves half
  initialised.
* The loop of `CloseStream` over `client_fib_` (`peer_manager.cc:1376`-`1392`),
  which erases by the outgoing id from a map keyed by the incoming one: it takes a
  relay that has both the publisher of a track and streams of its peers.
* Data streams over a session object that reconnects; several tracks, or a
  publisher that leaves, in `Forwarding` (`ClientState` has the latter for one
  relay).

## 7. What is left

1. `SubscribersServed` and `NothingLeft` of `Forwarding` on a tree, from
   `SubscribeFloodAgreement` and a fact like `Leads` for node sets.
2. `NodeNetwork` with `NodeReceived` split at its two mutexes.
