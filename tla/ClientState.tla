----------------------------- MODULE ClientState -----------------------------
(***************************************************************************)
(* The maps of State (state.h) under the handlers of ClientManager:        *)
(* subscribe, publish, publish namespace and subscribe namespace requests  *)
(* of clients, their ends, connection loss, and the calls of PeerManager.  *)
(* A handler is a function from one state to the next, since handlers call *)
(* one another; an action applies one handler.                             *)
(*                                                                         *)
(* Of PeerManager the module keeps what the handlers ask for or change:    *)
(* the subscriptions of other relays, the best session to each, the node   *)
(* sets of the sessions, client_fib_ and this relay's own subscriptions.   *)
(* The peer sessions stay connected (Forwarding has their loss).  Messages *)
(* sent to clients and peers are left out.                                 *)
(***************************************************************************)
EXTENDS Integers, FiniteSets, SequencesExt

CONSTANTS
    Client,        \* connection handles of clients; 0 is the peering side
    Track,         \* full track names (and their hashes, the track aliases)
    NameSpace,     \* [Track -> namespace], a namespace being a sequence
    Prefix,        \* namespaces that are announced or subscribed to
    AllowSelf,     \* config_.allow_self
    DetachedSubs,  \* config_.detached_subs
    Node,          \* the other relays
    Session,       \* peer sessions
    MaxRequest     \* bound: [Client -> ids of the client that the maps hold]

ASSUME ClientAssumption ==
    /\ 0 \notin Client
    /\ IsFiniteSet(Client) /\ IsFiniteSet(Track) /\ IsFiniteSet(Prefix)
    /\ IsFiniteSet(Node) /\ 0 \notin Session
    /\ \A t \in Track : Len(NameSpace[t]) \in Nat \ {0}
    /\ AllowSelf \in BOOLEAN /\ DetachedSubs \in BOOLEAN
    /\ MaxRequest \in [Client -> Nat]

VARIABLES
    st,            \* State and the shared part of PeerManager, see Empty
    conns,         \* open connections
    announced      \* what peers announce: tracks and namespaces

vars == <<st, conns, announced>>

-----------------------------------------------------------------------------
PutAll(map, keys, value) ==
    [k \in DOMAIN map \cup keys |-> IF k \in keys THEN value ELSE map[k]]

Put(map, key, value) == PutAll(map, {key}, value)

Erase(map, keys) == Restrict(map, DOMAIN map \ keys)

EmptyMap == [k \in {} |-> 0]

NoSession == 0

\* TrackNamespace::HasSamePrefix: one is a prefix of the other.
HasSamePrefix(a, b) == IsPrefix(a, b) \/ IsPrefix(b, a)

Empty ==
    [ns_active   |-> EmptyMap, \* pub_namespace_active: <<ns, conn>> -> aliases
     pub_subs    |-> EmptyMap, \* pub_subscribes: <<track, conn>> -> handler
     pub_by_req  |-> EmptyMap, \* pub_subscribes_by_req_id: <<req, conn>> -> track
     sub_ns      |-> {},       \* subscribes_namespaces: <<ns, conn>>
     subscribes  |-> EmptyMap, \* <<track, conn>> -> request id
     alias_req   |-> EmptyMap, \* subscribe_alias_req_id: <<conn, req>> -> track
     sub_active  |-> {},       \* subscribe_active_: <<track, conn, req>>
     requests    |-> EmptyMap, \* <<conn, req>> -> ns of a publish namespace
     peer_subs   |-> {},       \* subscribes_ of other relays: <<track, node>>
     nodes_best  |-> [n \in Node |-> NoSession],  \* best session to a node
     sub_sns     |-> {},       \* sub_sns_ of sessions: <<session, track, node>>
     client_fib  |-> {},       \* keys <<track, session>>
     own_subs    |-> {},       \* own subscriptions told to the peers
     undefined   |-> FALSE]    \* a loop uses an iterator it has invalidated

(***************************************************************************)
(* SubscribeTrackHandler, the relay's end of a publisher's track.          *)
(***************************************************************************)
Handler(initiated, subs) ==
    [initiated |-> initiated, subs |-> subs, nss |-> {}, paused |-> FALSE]

HasSubscribers(h) == h.subs # {} \/ h.nss # {}

\* Bug for the mutation runs: a new subscriber does not resume the publisher.
AddSubscribersPaused(h, cs) == [h EXCEPT !.subs = @ \cup cs]

\* AddSubscriber for each connection of cs.
AddSubscribers(h, cs) ==
    IF cs \subseteq h.subs THEN h
    ELSE [h EXCEPT !.subs = @ \cup cs, !.paused = FALSE]

RemoveSubscriber(h, c) ==
    LET rest == [h EXCEPT !.subs = @ \ {c}]
    IN  [rest EXCEPT !.paused = @ \/ ~ HasSubscribers(rest)]

\* AddSubscribeNamespace for each namespace subscription of xs.
AddSubscribeNamespaces(h, xs) ==
    IF xs \subseteq h.nss THEN h
    ELSE [h EXCEPT !.nss = @ \cup xs, !.paused = FALSE]

RemoveSubscribeNamespace(h, x) == [h EXCEPT !.nss = @ \ {x}]

KeysOf(s, t) == {k \in DOMAIN s.pub_subs : k[1] = t}

\* s with every handler of track t changed by Op.
UpdateHandlers(s, t, Op(_)) ==
    [s EXCEPT !.pub_subs =
        [k \in DOMAIN @ |-> IF k[1] = t THEN Op(@[k]) ELSE @[k]]]

\* The request ids of connection c that some map holds.
HeldRequests(s, c) ==
    {k[2] : k \in {x \in DOMAIN s.alias_req \cup DOMAIN s.requests : x[1] = c}}
      \cup {k[1] : k \in {x \in DOMAIN s.pub_by_req : x[2] = c}}

\* A request id of connection c that no map holds.  Ids are only looked up, so
\* an id that nothing refers to any more stands for a new one.
NextRequest(s, c) ==
    CHOOSE r \in 1..(Cardinality(HeldRequests(s, c)) + 1) :
        r \notin HeldRequests(s, c)

-----------------------------------------------------------------------------
(***************************************************************************)
(* ClientManager                                                           *)
(***************************************************************************)

\* PeerManager::HasSubscribers: client_fib_ has an entry of track t.
Forwards(fib, t) == \E x \in fib : x[1] = t

\* RemoveOrPausePublisherSubscribe.
RemoveOrPausePublisherSubscribe(s, t) ==
    LET idle == {k \in KeysOf(s, t) : ~ HasSubscribers(s.pub_subs[k])}
        left == Erase(s.pub_subs, {k \in idle : ~ s.pub_subs[k].initiated})
        subs == [k \in DOMAIN left |-> IF k \in idle
                                       THEN [left[k] EXCEPT !.paused = TRUE]
                                       ELSE left[k]]
    IN  IF Forwards(s.client_fib, t) THEN s
        ELSE [s EXCEPT !.pub_subs = subs,
                       !.own_subs = IF idle = KeysOf(s, t) THEN @ \ {t} ELSE @]

\* Bug for the mutation runs: the peering side is recorded like a client.
RecordSubscribeOfPeer(s, c, r, t) ==
    [s EXCEPT !.subscribes = Put(@, <<t, c>>, r)]

\* The first part of ProcessSubscribe, for clients: the three maps of
\* subscribes, and PeerManager::ClientSubscribe.
RecordSubscribe(s, c, r, t) ==
    IF c = 0 THEN s
    ELSE [s EXCEPT !.sub_active = @ \cup {<<t, c, r>>},
                   !.alias_req = Put(@, <<c, r>>, t),
                   !.subscribes = IF <<t, c>> \in DOMAIN @ THEN @
                                  ELSE Put(@, <<t, c>>, r),
                   !.own_subs = @ \cup {t}]

\* SubscribeTrack towards announcers of track t for connection c: keys of
\* pub_namespace_active, one for each announcing connection.
SubscribeToAnnouncers(s, keys, t, c) ==
    [s EXCEPT !.ns_active = [k \in DOMAIN @ |-> IF k \in keys THEN @[k] \cup {t}
                                               ELSE @[k]],
              !.pub_subs = PutAll(@, {<<t, k[2]>> : k \in keys},
                                  Handler(FALSE, {c})),
              !.pub_by_req = PutAll(@, {<<NextRequest(s, k[2]), k[2]>> : k \in keys}, t)]

ProcessSubscribe(s, c, r, t) ==
    LET known   == RecordSubscribe(s, c, r, t)
        Joined(h) == AddSubscribers([h EXCEPT !.paused = @ /\ ~ h.initiated], {c})
        joined  == UpdateHandlers(known, t, Joined)
        announcers == {x \in DOMAIN s.ns_active :
                          /\ HasSamePrefix(x[1], NameSpace[t]) /\ x[2] # 0
                          /\ <<t, x[2]>> \notin DOMAIN s.pub_subs}
        asked   == {CHOOSE x \in announcers : x[2] = p : p \in {x[2] : x \in announcers}}
    IN  SubscribeToAnnouncers(joined, asked, t, c)

\* Bug for the mutation runs: the subscribe_active_ entry of the request stays.
UnsubscribeKeepsActive(s, c, r) ==
    LET t    == s.alias_req[<<c, r>>]
        Drop(h) == RemoveSubscriber(h, c)
        gone == UpdateHandlers([s EXCEPT !.alias_req = Erase(@, {<<c, r>>})], t, Drop)
    IN  RemoveOrPausePublisherSubscribe(
            [gone EXCEPT !.subscribes = Erase(@, {<<t, c>>})], t)

UnsubscribeReceived(s, c, r) ==
    LET t    == s.alias_req[<<c, r>>]
        Drop(h) == RemoveSubscriber(h, c)
        gone == UpdateHandlers([s EXCEPT !.alias_req = Erase(@, {<<c, r>>})], t, Drop)
    IN  IF <<c, r>> \notin DOMAIN s.alias_req THEN s
        ELSE IF <<t, c>> \notin DOMAIN s.subscribes THEN s
        ELSE RemoveOrPausePublisherSubscribe(
                [gone EXCEPT !.sub_active = @ \ {<<t, c, r>>},
                             !.subscribes = Erase(@, {<<t, c>>})], t)

\* UnsubscribeReceived for each of the keys of subscribe_alias_req_id.
UnsubscribeEach(s, keys) ==
    FoldSet(LAMBDA k, acc : UnsubscribeReceived(acc, k[1], k[2]), s, keys)

\* Bug for the mutation runs: only a node that is new in its set is a reason to
\* subscribe to the publishers.
ForwardOnlyNew(s, t, n, key) ==
    LET best == s.nodes_best[n]
    IN  IF best = NoSession \/ <<best, t, n>> \in s.sub_sns THEN s
        ELSE [ProcessSubscribe(s, 0, 0, t) EXCEPT
                !.sub_sns = @ \cup {<<best, t, n>>},
                !.client_fib = @ \cup {<<t, key>>}]

\* Node n subscribes to track t, which is published here: the peering side
\* subscribes to the publishers, and n joins the track's set on the best session
\* to it, if there is one.  A node that is new there makes the forwarding entry.
Forward(s, t, n, key) ==
    LET best == s.nodes_best[n]
        told == ProcessSubscribe(s, 0, 0, t)
    IN  IF best = NoSession \/ <<best, t, n>> \in s.sub_sns THEN told
        ELSE [told EXCEPT !.sub_sns = @ \cup {<<best, t, n>>},
                          !.client_fib = @ \cup {<<t, key>>}]

\* ClientAnnounce files an entry under the best session.
ForwardEach(s, subs) ==
    FoldSet(LAMBDA x, acc : Forward(acc, x[1], x[2], acc.nodes_best[x[2]]), s, subs)

\* ClientAnnounce, the part after "not withdraw": for the subscriptions of other
\* relays that match the namespace.
ClientAnnounce(s, ns) ==
    ForwardEach(s, {x \in s.peer_subs : HasSamePrefix(ns, NameSpace[x[1]])})

\* PublishNamespaceReceived.  A repeated namespace only sends the subscribes.
PublishNamespaceReceived(s, c, r, ns) ==
    LET asked == [s EXCEPT !.requests = Put(@, <<c, r>>, ns)]
        new   == <<ns, c>> \notin DOMAIN s.ns_active
        noted == IF new THEN [asked EXCEPT !.ns_active = Put(@, <<ns, c>>, {})]
                 ELSE asked
        wanted == {t \in Track : \E x \in s.sub_active : x[1] = t}
        fresh == {t \in wanted : /\ HasSamePrefix(NameSpace[t], ns)
                                 /\ t \notin noted.ns_active[<<ns, c>>]}
        Fresh(t) == Handler(FALSE, {x[2] : x \in {y \in s.sub_active : y[1] = t}})
        subscribed == [noted EXCEPT
            !.ns_active[<<ns, c>>] = @ \cup fresh,
            !.pub_subs = [k \in DOMAIN @ \cup (fresh \X {c}) |->
                            IF k \in fresh \X {c} THEN Fresh(k[1]) ELSE @[k]]]
    IN  IF c = 0 THEN noted
        ELSE IF new THEN ClientAnnounce(subscribed, ns) ELSE subscribed

\* PublishNamespaceDoneReceived; the request stays in the map.
PublishNamespaceDoneReceived(s, c, r) ==
    LET ns == s.requests[<<c, r>>]
        key == <<ns, c>>
        tracks == IF key \in DOMAIN s.ns_active THEN s.ns_active[key] ELSE {}
    IN  IF <<c, r>> \notin DOMAIN s.requests THEN s
        ELSE [s EXCEPT !.pub_subs = Erase(@, tracks \X {c}),
                       !.ns_active = Erase(@, {key})]

\* Bug for the mutation runs: subscribers that came first are not attached.
PublishWithoutSubscribers(s, c, r, t) ==
    [s EXCEPT !.pub_subs = Put(@, <<t, c>>, Handler(TRUE, {})),
              !.pub_by_req = IF c = 0 THEN @ ELSE Put(@, <<r, c>>, t)]

\* PublishReceived; c = 0 is a track that the peer announces.
PublishReceived(s, c, r, t) ==
    LET stored == [s EXCEPT !.pub_subs = Put(@, <<t, c>>, Handler(TRUE, {})),
                            !.pub_by_req = IF c = 0 THEN @ ELSE Put(@, <<r, c>>, t)]
        told   == IF c = 0 THEN stored ELSE ClientAnnounce(stored, NameSpace[t])
        subs   == {k[2] : k \in {x \in DOMAIN s.subscribes : x[1] = t}}
        nss    == {x \in s.sub_ns : HasSamePrefix(x[1], NameSpace[t])}
        h      == AddSubscribeNamespaces(
                    AddSubscribers(told.pub_subs[<<t, c>>], subs), nss)
        has_subs == Forwards(told.client_fib, t) \/ subs # {} \/ nss # {}
    IN  [told EXCEPT !.pub_subs[<<t, c>>] =
            IF has_subs THEN h ELSE [h EXCEPT !.paused = TRUE]]

\* PublishDoneReceived for the request r of connection c.  The peering side
\* calls it with (0, 0), which is never in the map.
PublishDoneReceived(s, c, r) ==
    LET t    == s.pub_by_req[<<r, c>>]
        gone == [s EXCEPT !.pub_subs = Erase(@, {<<t, c>>})]
        subs == {<<k[2], s.subscribes[k]>> : k \in {x \in DOMAIN s.subscribes : x[1] = t}}
        ends == IF KeysOf(gone, t) = {} /\ ~ DetachedSubs
                THEN UnsubscribeEach(gone, subs) ELSE gone
    IN  IF <<r, c>> \notin DOMAIN s.pub_by_req THEN s
        ELSE [ends EXCEPT !.pub_by_req = Erase(@, {<<r, c>>})]

\* SubscribeNamespaceReceived: tracks published already join the namespace.
SubscribeNamespaceReceived(s, c, ns) ==
    LET Join(k, h) == IF /\ AllowSelf \/ k[2] # c
                         /\ IsPrefix(ns, NameSpace[k[1]])
                      THEN AddSubscribeNamespaces(h, {<<ns, c>>}) ELSE h
    IN  [s EXCEPT !.sub_ns = @ \cup {<<ns, c>>},
                  !.pub_subs = [k \in DOMAIN @ |-> Join(k, @[k])]]

\* One round of the loop of UnsubscribeNamespaceReceived over pub_subscribes.
\* RemoveOrPausePublisherSubscribe may erase the loop's own element.
LeaveHandler(s, k, x) ==
    LET left == RemoveOrPausePublisherSubscribe(
                    [s EXCEPT !.pub_subs[k] = RemoveSubscribeNamespace(@, x)], k[1])
    IN  IF k \notin DOMAIN s.pub_subs THEN s
        ELSE [left EXCEPT !.undefined = @ \/ k \notin DOMAIN left.pub_subs]

LeaveHandlers(s, keys, x) ==
    FoldSet(LAMBDA k, acc : LeaveHandler(acc, k, x), s, keys)

UnsubscribeNamespaceReceived(s, c, ns) ==
    LET mine == {k \in DOMAIN s.pub_subs :
                    /\ AllowSelf \/ k[2] # c
                    /\ HasSamePrefix(ns, NameSpace[k[1]])}
    IN  IF <<ns, c>> \notin s.sub_ns THEN s
        ELSE [LeaveHandlers(s, mine, <<ns, c>>) EXCEPT !.sub_ns = @ \ {<<ns, c>>}]

\* UnsubscribeNamespaceReceived for each of the subscribed namespaces.
UnsubscribeNamespaces(s, keys) ==
    FoldSet(LAMBDA x, acc : UnsubscribeNamespaceReceived(acc, x[2], x[1]), s, keys)

\* The subscriptions of connection c are ended, those of namespaces first.
EndSubscriptions(s, c) ==
    LET left == UnsubscribeNamespaces(s, {x \in s.sub_ns : x[2] = c})
    IN  UnsubscribeEach(left, {k \in DOMAIN left.alias_req : k[1] = c})

\* Bug for the mutation runs: what the connection published stays.
ConnectionLostKeepsPublishes(s, c) == EndSubscriptions(s, c)

\* ConnectionStatusChanged: namespaces, subscribes, then PurgePublishState.
ConnectionLost(s, c) ==
    [EndSubscriptions(s, c) EXCEPT
        !.pub_subs  = Erase(@, {k \in DOMAIN @ : k[2] = c}),
        !.ns_active = Erase(@, {k \in DOMAIN @ : k[2] = c})]

-----------------------------------------------------------------------------
Init ==
    /\ st = Empty
    /\ conns = Client
    /\ announced = {}

\* The handler's result.  With an invalidated iterator the loop goes on if the
\* freed element is still readable, else the process ends with everything lost.
Return(res) ==
    \/ /\ \A k \in DOMAIN res.pub_by_req : k[1] <= MaxRequest[k[2]]
       /\ st' = [res EXCEPT !.undefined = FALSE]
       /\ UNCHANGED <<conns, announced>>
    \/ /\ res.undefined
       /\ st' = Empty /\ conns' = {} /\ announced' = {}

\* A request of client c takes its next request id.
Request(c, Res(_, _)) ==
    /\ c \in conns
    /\ NextRequest(st, c) <= MaxRequest[c]
    /\ Return(Res(st, NextRequest(st, c)))

\* SubscribeReceived: a second subscribe to the track is refused.
Subscribe(c, t) ==
    Request(c, LAMBDA s, r : IF <<t, c>> \in DOMAIN s.subscribes THEN s
                             ELSE ProcessSubscribe(s, c, r, t))

Unsubscribe(c, r) ==
    /\ c \in conns
    /\ <<c, r>> \in DOMAIN st.alias_req
    /\ Return(UnsubscribeReceived(st, c, r))

Publish(c, t) == Request(c, LAMBDA s, r : PublishReceived(s, c, r, t))

PublishDone(c, r) ==
    /\ c \in conns
    /\ <<r, c>> \in DOMAIN st.pub_by_req
    /\ Return(PublishDoneReceived(st, c, r))

PublishNamespace(c, ns) ==
    Request(c, LAMBDA s, r : PublishNamespaceReceived(s, c, r, ns))

PublishNamespaceDone(c, r) ==
    /\ c \in conns
    /\ <<c, r>> \in DOMAIN st.requests
    /\ Return(PublishNamespaceDoneReceived(st, c, r))

SubscribeNamespace(c, ns) ==
    Request(c, LAMBDA s, r : SubscribeNamespaceReceived(s, c, ns))

UnsubscribeNamespace(c, ns) ==
    /\ c \in conns
    /\ <<ns, c>> \in st.sub_ns
    /\ Return(UnsubscribeNamespaceReceived(st, c, ns))

Disconnect(c) ==
    LET res == ConnectionLost(st, c)
    IN  /\ c \in conns
        /\ \/ /\ st' = [res EXCEPT !.undefined = FALSE]
              /\ conns' = conns \ {c}
              /\ UNCHANGED announced
           \/ /\ res.undefined
              /\ st' = Empty /\ conns' = {} /\ announced' = {}

\* StatusChanged(kError): publisher c refuses the relay's subscribe.  The
\* subscript operator makes an entry for the track's namespace if there is none.
SubscribeError(c, t) ==
    /\ <<t, c>> \in DOMAIN st.pub_subs
    /\ ~ st.pub_subs[<<t, c>>].initiated
    /\ LET key == <<NameSpace[t], c>>
           old == IF key \in DOMAIN st.ns_active THEN st.ns_active[key] ELSE {}
       IN  Return([st EXCEPT !.ns_active = Put(@, key, old \ {t}),
                             !.pub_subs = Erase(@, {<<t, c>>})])

-----------------------------------------------------------------------------
(***************************************************************************)
(* Calls of PeerManager                                                    *)
(***************************************************************************)

\* SubscribeInfoReceived on session s: node n subscribes to track t.  Nothing
\* that follows the storing looks at what was stored.
PeerSubscribe(s, t, n) ==
    LET matches == \/ KeysOf(st, t) # {}
                   \/ \E x \in DOMAIN st.ns_active :
                         HasSamePrefix(x[1], NameSpace[t])
        told    == IF matches THEN Forward(st, t, n, s) ELSE st
    IN  /\ conns # {}
        /\ Return([told EXCEPT !.peer_subs = @ \cup {<<t, n>>}])

PeerUnsubscribeTrack(s, t) ==
    UpdateHandlers(s, t, LAMBDA h : RemoveSubscriber(h, 0))

\* SubscribeInfoReceived on session s for a withdrawal: the node leaves the set
\* on the best session to it, if there is one.  With the last node of the set
\* goes the entry that session s made, and with the last entry of the track the
\* subscription of the peering side.
PeerUnsubscribe(s, t, n) ==
    LET best == st.nodes_best[n]
        last == {x \in st.sub_sns : x[1] = best /\ x[2] = t} = {<<best, t, n>>}
        fib  == IF last THEN st.client_fib \ {<<t, s>>} ELSE st.client_fib
        left == [st EXCEPT !.peer_subs = @ \ {<<t, n>>},
                           !.sub_sns = @ \ {<<best, t, n>>},
                           !.client_fib = fib]
    IN  Return(RemoveOrPausePublisherSubscribe(
                  IF last /\ ~ Forwards(fib, t) THEN PeerUnsubscribeTrack(left, t)
                  ELSE left, t))

\* NodeReceived: an advertisement or a withdrawal changes the best session to
\* node n.  Nothing else follows.
NodeReceived(n, s) ==
    /\ conns # {}
    /\ Return([st EXCEPT !.nodes_best[n] = s])

\* AnnounceInfoReceived: a new or withdrawn announcement of a peer.  The
\* namespace's hash is its request id; PublishDoneReceived(0, 0) finds nothing.
PeerAnnounce(x) ==
    /\ conns # {} /\ x \notin announced
    /\ announced' = announced \cup {x}
    /\ st' = IF x \in Track THEN PublishReceived(st, 0, 0, x)
             ELSE PublishNamespaceReceived(st, 0, x, x)
    /\ UNCHANGED conns

PeerUnannounce(x) ==
    /\ x \in announced
    /\ announced' = announced \ {x}
    /\ st' = IF x \in Track THEN PublishDoneReceived(st, 0, 0)
             ELSE PublishNamespaceDoneReceived(st, 0, x)
    /\ UNCHANGED conns

Next ==
    \/ \E c \in Client, t \in Track :
          Subscribe(c, t) \/ Publish(c, t) \/ SubscribeError(c, t)
    \/ \E c \in Client : \E r \in 1..MaxRequest[c] :
          Unsubscribe(c, r) \/ PublishDone(c, r) \/ PublishNamespaceDone(c, r)
    \/ \E c \in Client, ns \in Prefix :
          \/ PublishNamespace(c, ns) \/ SubscribeNamespace(c, ns)
          \/ UnsubscribeNamespace(c, ns)
    \/ \E c \in Client : Disconnect(c)
    \/ \E s \in Session, t \in Track, n \in Node :
          PeerSubscribe(s, t, n) \/ PeerUnsubscribe(s, t, n)
    \/ \E n \in Node, s \in Session \cup {NoSession} : NodeReceived(n, s)
    \/ \E x \in Track \cup Prefix : PeerAnnounce(x) \/ PeerUnannounce(x)

Spec == Init /\ [][Next]_vars

-----------------------------------------------------------------------------
(***************************************************************************)
(* Properties                                                              *)
(***************************************************************************)

\* The maps have the key and value types that state.h declares.
TypeOK ==
    LET Conn == Client \cup {0}
        Req  == UNION {1..MaxRequest[c] : c \in Client}
    IN  /\ conns \subseteq Client /\ announced \subseteq Track \cup Prefix
        /\ DOMAIN st.pub_subs \subseteq Track \X Conn
        /\ \A k \in DOMAIN st.pub_subs :
              st.pub_subs[k] \in [initiated : BOOLEAN, subs : SUBSET Conn,
                                 nss : SUBSET (Prefix \X Client), paused : BOOLEAN]
        /\ DOMAIN st.subscribes \subseteq Track \X Client
        /\ DOMAIN st.alias_req \subseteq Client \X Req
        /\ st.sub_active \subseteq Track \X Client \X Req
        /\ st.sub_ns \subseteq Prefix \X Client
        /\ st.peer_subs \subseteq Track \X Node
        /\ st.nodes_best \in [Node -> Session \cup {NoSession}]
        /\ st.sub_sns \subseteq Session \X Track \X Node
        /\ st.client_fib \subseteq Track \X Session

\* subscribes, subscribe_alias_req_id and subscribe_active_ record the same
\* subscriptions, whichever handler (unsubscribe, publish done, disconnection)
\* removes them.
SubscribeIndexes ==
    LET byTrack == {<<k[1], k[2], st.subscribes[k]>> : k \in DOMAIN st.subscribes}
        byReq   == {<<st.alias_req[k], k[1], k[2]>> : k \in DOMAIN st.alias_req}
    IN  byTrack = st.sub_active /\ byReq = st.sub_active

\* Objects go only to clients that are still subscribed, and a publisher that
\* offers a track (PUBLISH) reaches all of them, in whichever order subscribe
\* and publish came.  A handler made after a publisher refused an earlier
\* subscribe may miss subscribers, which is why it is left out.  Namespace
\* subscribers are current too, but for the publisher's own: PublishReceived
\* attaches it and UnsubscribeNamespaceReceived skips it without allow_self.
FanoutIsSubscribers ==
    \A k \in DOMAIN st.pub_subs :
        LET h == st.pub_subs[k]
            clients == {x[2] : x \in {y \in DOMAIN st.subscribes : y[1] = k[1]}}
        IN  /\ h.subs \ {0} \subseteq clients
            /\ h.initiated => clients \subseteq h.subs
            /\ \A x \in h.nss \ st.sub_ns : x[2] = k[2] /\ ~ AllowSelf

\* No client waits at a paused publisher, nor does the peering side if the track
\* is forwarded (without an entry, PublishReceived pauses a publisher that has
\* only the peering side), and a publisher that nobody is attached to is paused,
\* unless a forwarding entry of the track keeps it running.
PausedIffIdle ==
    \A k \in DOMAIN st.pub_subs :
        LET h == st.pub_subs[k]
            forwarded == Forwards(st.client_fib, k[1])
        IN  /\ h.paused => h.subs \subseteq {0} /\ h.nss = {}
            /\ h.paused /\ forwarded => h.subs = {}
            /\ ~ HasSubscribers(h) => h.paused \/ forwarded

\* No map mentions a closed connection, except those of request ids.
NoTraceOfClosed ==
    \A c \in Client \ conns :
        /\ \A k \in DOMAIN st.pub_subs :
              /\ k[2] # c /\ c \notin st.pub_subs[k].subs
              /\ \A x \in st.pub_subs[k].nss : x[2] # c
        /\ \A k \in DOMAIN st.ns_active : k[2] # c
        /\ \A k \in DOMAIN st.subscribes : k[2] # c
        /\ \A x \in st.sub_active : x[2] # c
        /\ \A x \in st.sub_ns : x[2] # c

\* While another relay subscribes to a track that is forwarded, the peering side
\* is a subscriber of every client that offers the track (PUBLISH), before or
\* after it: a client's leaving does not pause the publisher.
PeersServed ==
    \A k \in DOMAIN st.pub_subs :
        LET h == st.pub_subs[k]
        IN  /\ h.initiated /\ k[2] # 0 /\ Forwards(st.client_fib, k[1])
            /\ \E n \in Node : <<k[1], n>> \in st.peer_subs
            => 0 \in h.subs /\ ~ h.paused

(***************************************************************************)
(* What the repository says and the code does not do                       *)
(***************************************************************************)

\* The peering side subscribes to a track's publishers only while the track is
\* forwarded or subscribed to.  (Not so when the route to the subscriber goes
\* before its subscription: the withdrawal then finds no session.)
PeerAttachedOnlyIfForwarding ==
    \A k \in DOMAIN st.pub_subs :
        0 \in st.pub_subs[k].subs =>
            \/ Forwards(st.client_fib, k[1])
            \/ \E n \in Node : <<k[1], n>> \in st.peer_subs
=============================================================================
