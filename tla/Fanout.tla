------------------------------- MODULE Fanout -------------------------------
(***************************************************************************)
(* The data path of the relay at the publisher: SubscribeTrackHandler      *)
(* receives a track's streams in chunks and sends them on to subscribers   *)
(* (PublishTrackHandler), namespace subscribers (PublishNamespaceHandler)  *)
(* and peers (PeerManager::ClientDataRecv over client_fib_).               *)
(*                                                                         *)
(* A stream is a header, unit 0, and Objects objects of ObjectSize units.  *)
(* A chunk is any run of the units that come next; the header is one unit, *)
(* hence never cut: a first chunk without the whole header, for which the  *)
(* code calls the stream invalid, is left out.  A track has one stream at  *)
(* a time, one per group.  Objects of a start location, delivery timeouts, *)
(* the cache and datagrams are left out.                                   *)
(***************************************************************************)
EXTENDS StreamUnits, SequencesExt

CONSTANTS
    Track,
    Client,      \* connections subscribed to a track
    NsClient,    \* connections subscribed to the namespace of all tracks
    Peer,        \* peering sessions, numbers: client_fib_ is ordered by them
    Objects,     \* objects of a stream
    ObjectSize,  \* units of an object
    MaxGroup     \* bound: groups of a track

ASSUME FanoutAssumption ==
    /\ Peer \subseteq Nat
    /\ Client \cap NsClient = {} /\ (Client \cup NsClient) \cap Peer = {}
    /\ Objects \in Nat \ {0} /\ ObjectSize \in Nat \ {0} /\ MaxGroup \in Nat

VARIABLES
    group,    \* [Track -> group of the current or last stream]
    recv,     \* [Track -> units received on the open stream, 0 if none]
    parsed,   \* [Track -> objects taken from the stream's buffer]
    subs,     \* [Track -> subscribers_, sub_namespaces_ and client_fib_ entries]
    paused,   \* <<track, namespace subscriber>> with status kPaused
    fed       \* [Track -> [subscriber -> units sent on its open stream]]

fanoutVars == <<group, recv, parsed, subs, paused, fed>>

-----------------------------------------------------------------------------
Sub == Client \cup NsClient \cup Peer

\* Does last_object_id of the subscriber's subgroup have a value?
SentFirstObject(o, s) == o[s] # <<>>

\* Bug for the mutation runs: data goes out before the first object did.
ForwardAlways(o, t, data, new) ==
    [s \in Sub |-> IF s \in subs[t] THEN o[s] \o data ELSE o[s]]

\* Bug for the mutation runs: a peer gets data without the start of the stream.
ForwardToLatePeers(o, t, data, new) ==
    [s \in Sub |-> IF s \in subs[t] /\ (s \in Peer \/ SentFirstObject(o, s))
                   THEN o[s] \o data ELSE o[s]]

\* ForwardReceivedData.  ClientDataRecv goes through the sessions in order and
\* returns at the first without a stream, unless the data starts one.
ForwardReceivedData(o, t, data, new) ==
    LET peers == subs[t] \cap Peer
        gets(s) == IF s \in Peer
                   THEN new \/ \A p \in peers : p <= s => o[p] # <<>>
                   ELSE SentFirstObject(o, s)
    IN  [s \in Sub |-> IF s \in subs[t] /\ gets(s) THEN o[s] \o data ELSE o[s]]

\* ObjectReceived: who has no object of the subgroup yet gets this one whole.
ObjectReceived(o, t, object) ==
    [s \in Sub |-> IF /\ s \in subs[t] \ Peer
                      /\ ~ SentFirstObject(o, s)
                      /\ <<t, s>> \notin paused
                   THEN object ELSE o[s]]

\* PeerManager::EndSubgroup: the streams of all sessions of the track.
EndPeers(o) == [s \in Sub |-> IF s \in Peer THEN <<>> ELSE o[s]]

-----------------------------------------------------------------------------
FanoutInit ==
    /\ group = [t \in Track |-> 0]
    /\ recv = [t \in Track |-> 0]
    /\ parsed = [t \in Track |-> 0]
    /\ subs = [t \in Track |-> {}]
    /\ paused = {}
    /\ fed = [t \in Track |-> [s \in Sub |-> <<>>]]

\* Bug for the mutation runs: an object is taken from the buffer too early.
StreamDataRecvEarly(t, last) ==
    /\ recv[t] <= last /\ group[t] < MaxGroup
    /\ recv' = [recv EXCEPT ![t] = last + 1]
    /\ parsed' = [parsed EXCEPT ![t] = @ + 1]
    /\ UNCHANGED <<group, subs, paused, fed>>

\* StreamDataRecv for the units up to last.  The first chunk has the header; the
\* error return for one that has not is left out.
\* At most one object is taken from the buffer per chunk, and what is left in
\* the buffer then is sent on.
StreamDataRecv(t, last) ==
    LET start    == recv[t] = 0
        done     == IF start THEN 0 ELSE parsed[t]
        object   == Units(done * ObjectSize + 1, (done + 1) * ObjectSize)
        rest     == Units((done + 1) * ObjectSize + 1, last)
        complete == last >= (done + 1) * ObjectSize
        sent     == ForwardReceivedData(fed[t], t, Units(recv[t], last), start)
        whole    == ObjectReceived(sent, t, object)
    IN  /\ recv[t] <= last
        /\ start => group[t] < MaxGroup
        /\ group' = IF start THEN [group EXCEPT ![t] = @ + 1] ELSE group
        /\ recv' = [recv EXCEPT ![t] = last + 1]
        /\ parsed' = [parsed EXCEPT ![t] = IF complete THEN done + 1 ELSE done]
        /\ fed' = [fed EXCEPT ![t] =
                      IF ~ complete THEN sent
                      ELSE IF rest = <<>> THEN whole
                      ELSE ForwardReceivedData(whole, t, rest, start)]
        /\ UNCHANGED <<subs, paused>>

\* The tracks whose subgroup ends when the stream of track t closes: a
\* namespace subscriber's handler ends the group of every track it has.
EndedWith(t, u) ==
    \/ u = t
    \/ group[u] = group[t] /\ subs[t] \cap subs[u] \cap NsClient # {}

\* Bug for the mutation runs: peers are not told of the end of the stream.
StreamClosedForClients(t) ==
    /\ recv[t] > 0
    /\ recv' = [recv EXCEPT ![t] = 0]
    /\ fed' = [fed EXCEPT ![t] = [s \in Sub |-> IF s \in Peer THEN @[s] ELSE <<>>]]
    /\ UNCHANGED <<group, parsed, subs, paused>>

\* StreamClosed.  PublishTrackHandler::EndSubgroup ends the peers' streams of
\* its track along with its own.
StreamClosed(t) ==
    /\ recv[t] > 0
    /\ recv' = [recv EXCEPT ![t] = 0]
    /\ fed' = [u \in Track |->
                 IF u = t THEN [s \in Sub |-> <<>>]
                 ELSE IF EndedWith(t, u)
                 THEN [s \in Sub |-> IF s \in Peer \/ s \in subs[t] \cap NsClient
                                     THEN <<>> ELSE fed[u][s]]
                 ELSE fed[u]]
    /\ UNCHANGED <<group, parsed, subs, paused>>

\* UpdateTrackRanking drops track t for namespace subscriber n:
\* AbruptCloseAllSubgroups, which ends the peers' streams too, and kPaused.
Pause(t, n) ==
    /\ n \in subs[t] \cap NsClient /\ <<t, n>> \notin paused
    /\ paused' = paused \cup {<<t, n>>}
    /\ fed' = IF SentFirstObject(fed[t], n)
              THEN [fed EXCEPT ![t] = EndPeers([@ EXCEPT ![n] = <<>>])] ELSE fed
    /\ UNCHANGED <<group, recv, parsed, subs>>

\* UpdateTrackRanking selects the track again.
Resume(t, n) ==
    /\ <<t, n>> \in paused
    /\ paused' = paused \ {<<t, n>>}
    /\ UNCHANGED <<group, recv, parsed, subs, fed>>

\* A subscribe of a client, or a new entry of client_fib_ for a peer.
Subscribe(t, s) ==
    /\ s \in (Client \cup Peer) \ subs[t]
    /\ subs' = [subs EXCEPT ![t] = @ \cup {s}]
    /\ UNCHANGED <<group, recv, parsed, paused, fed>>

Unsubscribe(t, s) ==
    /\ s \in (Client \cup Peer) \cap subs[t]
    /\ subs' = [subs EXCEPT ![t] = @ \ {s}]
    /\ fed' = [fed EXCEPT ![t][s] = <<>>]
    /\ UNCHANGED <<group, recv, parsed, paused>>

SubscribeNamespace(n) ==
    /\ \A t \in Track : n \notin subs[t]
    /\ subs' = [t \in Track |-> subs[t] \cup {n}]
    /\ UNCHANGED <<group, recv, parsed, paused, fed>>

UnsubscribeNamespace(n) ==
    /\ \E t \in Track : n \in subs[t]
    /\ subs' = [t \in Track |-> subs[t] \ {n}]
    /\ paused' = {x \in paused : x[2] # n}
    /\ fed' = [t \in Track |-> [fed[t] EXCEPT ![n] = <<>>]]
    /\ UNCHANGED <<group, recv, parsed>>

FanoutNext ==
    \/ \E t \in Track :
          \/ \E last \in 0..(Objects * ObjectSize) : StreamDataRecv(t, last)
          \/ StreamClosed(t)
          \/ \E n \in NsClient : Pause(t, n) \/ Resume(t, n)
          \/ \E s \in Client \cup Peer : Subscribe(t, s) \/ Unsubscribe(t, s)
    \/ \E n \in NsClient : SubscribeNamespace(n) \/ UnsubscribeNamespace(n)

FanoutSpec == FanoutInit /\ [][FanoutNext]_fanoutVars

-----------------------------------------------------------------------------
(***************************************************************************)
(* Properties                                                              *)
(***************************************************************************)

\* Counters in range, and no object is taken before its last unit is there.
StreamsTypeOK ==
    /\ \A t \in Track :
          /\ group[t] \in 0..MaxGroup
          /\ recv[t] \in 0..(Objects * ObjectSize + 1)
          /\ parsed[t] \in 0..Objects
          /\ recv[t] > 0 => parsed[t] * ObjectSize < recv[t]
          /\ subs[t] \subseteq Sub
          /\ \A s \in Sub : fed[t][s] \in Seq(0..(Objects * ObjectSize))
    /\ paused \subseteq Track \X NsClient

\* What a client gets on a stream begins with a whole object and then has every
\* unit received since, without a hole, whenever the client joined, was paused
\* or had its stream ended by another track, and however the data after the
\* header is chunked.  A unit may come twice (PeerBytesExact below).
ClientStreamComplete ==
    \A t \in Track : \A s \in Client \cup NsClient :
        LET o == fed[t][s]
        IN  o # <<>> => /\ o[1] % ObjectSize = 1 % ObjectSize
                        /\ Range(o) = o[1]..(recv[t] - 1)
                        /\ \A i \in 1..(Len(o) - 1) : o[i + 1] <= o[i] + 1

\* A peer's stream begins with the header, which carries the node set id and
\* the track: a peer that comes in the middle of a stream waits for the next.
PeerStartsWithHeader ==
    \A t \in Track : \A p \in Peer : fed[t][p] # <<>> => fed[t][p][1] = 0

\* No stream to a client or a peer stays open after the publisher's stream, nor
\* for one that left or is paused.
NoOrphanStream ==
    \A t \in Track : \A s \in Sub :
        fed[t][s] # <<>> => /\ recv[t] > 0
                            /\ s \in subs[t]
                            /\ <<t, s>> \notin paused

\* relay-protocol.md, "Pipeline forwarding": the relay forwards "every byte
\* received on a stream to peer and client sessions", unchanged.
PeerBytesExact ==
    \A t \in Track : \A p \in Peer :
        fed[t][p] # <<>> => fed[t][p] = Units(0, recv[t] - 1)
=============================================================================
