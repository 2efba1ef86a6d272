---------------------------- MODULE AnnounceFlood ----------------------------
(***************************************************************************)
(* How relays tell each other about the publishers of their clients:       *)
(* InfoBase::announces_ with its prefix index, the flooding of announce    *)
(* information over the sessions of PeerSessions, and the calls that       *)
(* AnnounceInfoReceived makes into ClientManager as far as they come back  *)
(* to the announcements.  The forwarding state that ClientAnnounce and     *)
(* PublishReceived also create does not affect the announcements and is    *)
(* left out.                                                               *)
(***************************************************************************)
EXTENDS PeerSessions

CONSTANTS
    Name,        \* what is published: full track names and namespaces
    NameSpace,   \* [Name -> sequence of namespace tuples]
    IsNamespace, \* [Name -> BOOLEAN]: PUBLISH_NAMESPACE, else PUBLISH
    Publisher,   \* [Node -> SUBSET Name]: what the clients of a relay publish
    MaxOps       \* bound: how many client operations there are

ASSUME AnnounceAssumption ==
    /\ \A n \in Name : Len(NameSpace[n]) \in Nat \ {0} /\ IsNamespace[n] \in BOOLEAN
    /\ Publisher \in [Node -> SUBSET Name]
    /\ MaxOps \in Nat

VARIABLES
    base,        \* base[r]: announces_ as <<name, source>> pairs, and
                 \* prefix_lookup_announces_ as <<prefix, name>> pairs
    requests,    \* requests[r]: namespaces r keeps a request of a peer for
    local,       \* local[r]: what the clients of r publish now
    ops          \* how many client operations have been made

announceVars == <<base, requests, local, ops>>

vars == <<announceVars, sessionVars>>

-----------------------------------------------------------------------------
(***************************************************************************)
(* InfoBase.  Hashes are taken to be free of collisions.                   *)
(***************************************************************************)
EmptyBase == [annos |-> {}, prefix |-> {}]

\* One prefix per tuple of the namespace.
PrefixHashNamespaceTuples(n) ==
    {SubSeq(NameSpace[n], 1, i) : i \in 1..Len(NameSpace[n])}

Known(b, n) == \E a \in b.annos : a[1] = n

\* Bug for the mutation runs: the prefix index is not maintained.
AddAnnounceNoIndex(b, n, src) == [b EXCEPT !.annos = @ \cup {<<n, src>>}]

AddAnnounce(b, n, src) ==
    IF <<n, src>> \in b.annos THEN b
    ELSE [annos  |-> b.annos \cup {<<n, src>>},
          prefix |-> b.prefix \cup (PrefixHashNamespaceTuples(n) \X {n})]

\* RemoveAnnounce: whatever the source, the name goes from the prefix index.
RemoveAnnounce(b, n, src) ==
    IF Known(b, n)
    THEN [annos  |-> b.annos \ {<<n, src>>},
          prefix |-> b.prefix \ (PrefixHashNamespaceTuples(n) \X {n})]
    ELSE b

\* RemoveAnnounce's result: the name was in the index.
Removes(b, n) == Known(b, n) /\ \E x \in b.prefix : x[2] = n

\* GetAnnounceIds without a name: the sources of what is announced under ns.
GetAnnounceIds(b, ns) ==
    LET full == {a \in b.annos : IsNamespace[a[1]] /\ NameSpace[a[1]] = ns}
        some == {a \in b.annos : <<ns, a[1]>> \in b.prefix}
    IN  IF full # {} THEN {a[2] : a \in full} ELSE {a[2] : a \in some}

-----------------------------------------------------------------------------
(***************************************************************************)
(* PeerManager.  A result is the new information base and the output.      *)
(***************************************************************************)
AnnMsg(withdraw, n, src, flag) ==
    [kind |-> IF withdraw THEN "unannounce" ELSE "announce",
     name |-> n, source |-> src, namespace |-> flag]

Result(b, out) == [base |-> b, out |-> out]

Both(outA, outB) == [s \in Session |-> outA[s] \o outB[s]]

\* Bug for the mutation runs: the message also goes back to where it came from.
FloodBack(m, except) == [s \in Session |-> <<m>>]

Flood(m, except) == [s \in Session |-> IF s = except THEN <<>> ELSE <<m>>]

\* Bug for the mutation runs: the source is left unset in what is sent.
ClientAnnounceNoSource(r, b, n, withdraw, flag) ==
    Result(IF withdraw THEN RemoveAnnounce(b, n, r) ELSE AddAnnounce(b, n, r),
           Flood(AnnMsg(withdraw, n, NoNode, flag), NoSession))

\* ClientAnnounce: a publisher of r starts or ends.
ClientAnnounce(r, b, n, withdraw, flag) ==
    Result(IF withdraw THEN RemoveAnnounce(b, n, r) ELSE AddAnnounce(b, n, r),
           Flood(AnnMsg(withdraw, n, r, flag), NoSession))

\* AnnounceInfoReceived for an announcement over s.
Announced(r, s, b, m) ==
    IF <<m.name, m.source>> \in b.annos THEN Result(b, NoOutput)
    ELSE Result(AddAnnounce(b, m.name, m.source), Flood(m, s))

\* AnnounceInfoReceived for a withdrawal over s.  For a namespace it ends in
\* PublishNamespaceDoneReceived(0, ...), which, if it has the peer's request,
\* calls ClientAnnounce for this relay itself; requests are never erased.
Withdrawn(r, s, b, m) ==
    LET gone == RemoveAnnounce(b, m.name, m.source)
        own  == ClientAnnounce(r, gone, m.name, TRUE, TRUE)
    IN  CASE ~ Removes(b, m.name) -> Result(gone, NoOutput)
          [] Removes(b, m.name) /\ m.namespace /\ m.name \in requests[r] ->
                Result(own.base, Both(Flood(m, s), own.out))
          [] OTHER -> Result(gone, Flood(m, s))

\* Bug for the mutation runs: a new peer is not told what is known already.
NoSync(b, n) == <<>>

\* InfoBaseSyncPeer, announce part: everything whose source is not the peer n.
InfoBaseSyncPeer(b, n) ==
    LET some == SetToSeq({a \in b.annos : a[2] # n})
    IN  [i \in 1..Len(some) |->
            AnnMsg(FALSE, some[i][1], some[i][2], IsNamespace[some[i][1]])]

\* SessionChanged: the announcements, but not their index, are cleared when no
\* session of either map is connected.  A server session that is lost is still
\* in its map then, and connected; st is the state of r's sessions.
SessionLost(b, st) ==
    IF \E s \in Session : st[s] = "connected" THEN b ELSE [b EXCEPT !.annos = {}]

-----------------------------------------------------------------------------
Init ==
    /\ SessionsInit
    /\ base = [r \in Node |-> EmptyBase]
    /\ requests = [r \in Node |-> {}]
    /\ local = [r \in Node |-> {}]
    /\ ops = 0

\* A client operation of relay r with the given result.
Operation(r, res) ==
    /\ ops < MaxOps
    /\ ops' = ops + 1
    /\ base' = [base EXCEPT ![r] = res.base]
    /\ chan' = Sent(chan, r, status[r], remote[r], res.out)
    /\ UNCHANGED <<requests, status, remote, transport, drops>>

\* PublishNamespaceReceived or PublishReceived from a client of r.
Publish(r, n) ==
    /\ n \in Publisher[r] \ local[r]
    /\ local' = [local EXCEPT ![r] = @ \cup {n}]
    /\ Operation(r, ClientAnnounce(r, base[r], n, FALSE, IsNamespace[n]))

\* PublishDoneReceived, or PublishNamespaceDoneReceived, which withdraws
\* twice: with ClientAnnounce, then with ClientUnannounce.
PublishDone(r, n) ==
    LET once  == ClientAnnounce(r, base[r], n, TRUE, IsNamespace[n])
        twice == ClientAnnounce(r, once.base, n, TRUE, FALSE)
    IN  /\ n \in local[r]
        /\ local' = [local EXCEPT ![r] = @ \ {n}]
        /\ Operation(r, IF IsNamespace[n]
                        THEN Result(twice.base, Both(once.out, twice.out))
                        ELSE once)

\* ConnectionStatusChanged for the publisher's connection: PurgePublishState
\* forgets the publisher without withdrawing the announcement.
PublisherGone(r, n) ==
    /\ n \in local[r]
    /\ local' = [local EXCEPT ![r] = @ \ {n}]
    /\ Operation(r, Result(base[r], NoOutput))

\* ProcessControlMessage: r takes the next message of session s.
Deliver(r, s) ==
    /\ chan[r][s] # <<>>
    /\ LET m   == Head(chan[r][s])
           res == CASE m.kind = "announce"   -> Announced(r, s, base[r], m)
                    [] m.kind = "unannounce" -> Withdrawn(r, s, base[r], m)
                    [] OTHER -> Result(base[r], [NoOutput EXCEPT
                                    ![s] = InfoBaseSyncPeer(base[r], m.id)])
           asked == m.kind = "announce" /\ m.namespace /\ res.base # base[r]
       IN  /\ base' = [base EXCEPT ![r] = res.base]
           /\ requests' = IF asked
                          THEN [requests EXCEPT ![r] = @ \cup {m.name}]
                          ELSE requests
           /\ Take(r, s, m, res.out)
    /\ UNCHANGED <<local, ops>>

\* Either end learns that the session is gone.
Disconnected(r, s) ==
    /\ \/ /\ r = Client[s] /\ ClientDisconnected(s, NoOutput)
          /\ base' = [base EXCEPT ![r] =
                         SessionLost(@, [status[r] EXCEPT ![s] = "disconnected"])]
       \/ /\ r = Server[s] /\ ServerDisconnected(s, NoOutput)
          /\ base' = [base EXCEPT ![r] = SessionLost(@, status[r])]
    /\ UNCHANGED <<requests, local, ops>>

\* Nothing is left to do: the network idles.
Idle == Settled /\ UNCHANGED vars

Progress ==
    \E s \in Session :
        \/ /\ Connect(s) \/ OnNewConnection(s) \/ OnReady(s)
           /\ UNCHANGED announceVars
        \/ \E r \in Node : Deliver(r, s) \/ Disconnected(r, s)

Next ==
    \/ Progress
    \/ \E r \in Node, n \in Name :
          Publish(r, n) \/ PublishDone(r, n) \/ PublisherGone(r, n)
    \/ \E s \in Session : Break(s) /\ UNCHANGED announceVars
    \/ Idle

\* The threads of the relays keep running (see NodeNetwork); clients and
\* failures do what they like.
Fairness == WF_vars(Progress)

Spec == Init /\ [][Next]_vars /\ Fairness

-----------------------------------------------------------------------------
(***************************************************************************)
(* Properties                                                              *)
(***************************************************************************)

\* The information bases and the messages have their types.
TypeOK ==
    /\ \A r \in Node :
          /\ base[r].annos \subseteq Name \X Node
          /\ \A x \in base[r].prefix :
                x[2] \in Name /\ x[1] \in PrefixHashNamespaceTuples(x[2])
          /\ requests[r] \subseteq Name
          /\ local[r] \subseteq Publisher[r]
    /\ ops \in 0..MaxOps
    /\ SessionsType([kind : {"announce", "unannounce"}, name : Name,
                     source : Node, namespace : BOOLEAN])

\* The tracks that clients of at most one relay publish.
SoleTracks ==
    {n \in Name : /\ ~ IsNamespace[n]
                  /\ \A r, q \in Node : n \in Publisher[r] \cap Publisher[q] => r = q}

\* When all is quiet and no transport has failed, every relay knows exactly the
\* announcements of tracks that their sources hold, whatever announcements,
\* withdrawals and syncs of late sessions crossed each other.  (Not so for a
\* namespace that is published a second time: see Withdrawn.)
Agreement ==
    Settled /\ drops = 0 => \A r, q \in Node, n \in SoleTracks :
        <<n, q>> \in base[r].annos <=> <<n, q>> \in base[q].annos

\* For tracks that have one source, the prefix index lists every prefix of what
\* is announced, and while no transport has failed no other: GetAnnounceIds
\* finds sources for a namespace through it.  (After a failure it may list
\* more: SessionChanged clears announces_ and not the index.)
IndexExact ==
    \A r \in Node :
        LET indexed == {x \in base[r].prefix : x[2] \in SoleTracks}
            needed  == UNION {PrefixHashNamespaceTuples(a[1]) \X {a[1]} :
                                a \in {b \in base[r].annos : b[1] \in SoleTracks}}
        IN  needed \subseteq indexed /\ (drops = 0 => indexed = needed)

\* Announcements and withdrawals die out once the clients are quiet.
FloodingStops == <>[]Settled

-----------------------------------------------------------------------------
(***************************************************************************)
(* What the repository's documents say and the code does not do            *)
(***************************************************************************)

\* info_base.h, of GetAnnounceIds: "Will return the node ids of the o-relay(s)
\* that have publishers that prefix match the namespace."  A source of which
\* the relay holds an announcement is found under every prefix that has no
\* exact match.
PrefixMatchFinds ==
    \A r \in Node : \A a \in base[r].annos :
        \A ns \in PrefixHashNamespaceTuples(a[1]) :
            \/ a[2] \in GetAnnounceIds(base[r], ns)
            \/ \E b \in base[r].annos : IsNamespace[b[1]] /\ NameSpace[b[1]] = ns
                                      /\ b[1] # a[1]

\* docs/relay-protocol.md: "`publish_info` is advertised to all control peering
\* peers."  When all is quiet, the peers of a relay know what it publishes.
PeersKnowPublishers ==
    Settled => \A r \in Node : \A n \in local[r] : \A q \in Neighbours(r) :
        <<n, r>> \in base[q].annos

=============================================================================
