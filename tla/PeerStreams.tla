----------------------------- MODULE PeerStreams -----------------------------
(***************************************************************************)
(* The data path of a relay on the way: the streams that a peer sends on   *)
(* one session under one subscribe node set, passed on to the sessions     *)
(* that peer_fib_ names for the set and to the relay's own clients while   *)
(* the node set changes and sessions go.                                   *)
(*                                                                         *)
(* A stream is HeaderSize units of peering header, numbered from 1, and    *)
(* then data.  A chunk is any run of the units that come next.  The        *)
(* egress sessions are ones the relay accepted: their object goes with the *)
(* connection.  Datagrams use the entries without changing them and are    *)
(* left out.                                                               *)
(***************************************************************************)
EXTENDS StreamUnits, FiniteSets, Sequences, SequencesExt

CONSTANTS
    Stream,      \* the streams of the ingress session
    Egress,      \* the other sessions
    Ingress,     \* the session the streams come in on
    HeaderSize,  \* units of the peering header
    MaxUnits     \* bound: units of a stream

ASSUME PeerStreamsAssumption ==
    /\ Ingress \notin Egress /\ 0 \notin Egress \cup {Ingress}
    /\ HeaderSize \in Nat \ {0} /\ MaxUnits \in Nat

VARIABLES
    ctx,         \* [Stream -> what the stream's caller_any holds]
    got,         \* [Stream -> units received]
    closed,      \* the streams that are closed
    fib,         \* the entries of the set: egress -> streams that are mapped
    live,        \* the egress sessions whose object still exists
    out,         \* <<egress, stream>> -> units sent on the stream made for it
    open,        \* the <<egress, stream>> whose stream is open
    wanted,      \* does the relay hold a subscription of its own?
    client,      \* [Stream -> units passed to the client manager, until it closes]
    failed       \* a callback has used an empty pointer or thrown

vars == <<ctx, got, closed, fib, live, out, open, wanted, client, failed>>

Self == 0    \* the egress key of the relay's own clients

Pairs == Egress \X Stream

-----------------------------------------------------------------------------
Init ==
    /\ ctx = [s \in Stream |-> "none"]
    /\ got = [s \in Stream |-> 0]
    /\ closed = {}
    /\ fib = <<>>
    /\ live = Egress
    /\ out = [p \in Pairs |-> <<>>]
    /\ open = {}
    /\ wanted \in BOOLEAN
    /\ client = [s \in Stream |-> <<>>]
    /\ failed = FALSE

\* The sessions that ForwardPeerData sends to: not the ingress, and those that
\* have no stream for this one only at its start.
Targets(s, new) ==
    {e \in DOMAIN fib \cap Egress : new \/ s \in fib[e]}

\* Bug for the mutation runs: a session that was added in the middle of a
\* stream gets the rest of it.
ForwardPeerDataLate(s, data, new) ==
    LET to == DOMAIN fib \cap Egress
    IN  /\ failed' = failed
        /\ out' = [p \in Pairs |-> IF p[1] \in to /\ p[2] = s THEN out[p] \o data
                                   ELSE out[p]]
        /\ open' = open \cup {<<e, s>> : e \in to}
        /\ fib' = [k \in DOMAIN fib |-> IF k \in to THEN fib[k] \cup {s} ELSE fib[k]]
        /\ UNCHANGED client

\* ForwardPeerData, for a stream whose header has been read.  The clients'
\* data goes without the header.
ForwardPeerData(s, data, new) ==
    LET to == Targets(s, new)
    IN  \/ /\ to \subseteq live
           /\ out' = [p \in Pairs |-> IF p[1] \in to /\ p[2] = s THEN out[p] \o data
                                      ELSE out[p]]
           /\ open' = open \cup {<<e, s>> : e \in to}
           /\ fib' = [k \in DOMAIN fib |-> IF k \in to THEN fib[k] \cup {s} ELSE fib[k]]
           /\ client' = IF Self \in DOMAIN fib /\ wanted
                        THEN [client EXCEPT ![s] =
                                 @ \o (IF new THEN SelectSeq(data, LAMBDA u : u > HeaderSize)
                                       ELSE data)]
                        ELSE client
           /\ UNCHANGED failed
        \/ /\ ~ (to \subseteq live)
           /\ failed' = TRUE
           /\ UNCHANGED <<out, open, fib, client>>

\* ProcessReceivedData for the units up to last.  The first chunk makes the
\* stream's header, filled in only if the chunk has all of it; a header that is
\* not filled in names a set that has no entries.
ProcessReceivedData(s, last) ==
    LET data == Units(got[s] + 1, last)
        new  == ctx[s] = "none"
        read == IF new THEN last >= HeaderSize ELSE ctx[s] = "header"
    IN  /\ s \notin closed /\ ~failed
        /\ got[s] < last
        /\ got' = [got EXCEPT ![s] = last]
        /\ ctx' = [ctx EXCEPT ![s] = IF read THEN "header" ELSE "blank"]
        /\ IF read THEN ForwardPeerData(s, data, new)
           ELSE UNCHANGED <<fib, out, open, client, failed>>
        /\ UNCHANGED <<closed, live, wanted>>

\* Bug for the mutation runs: the entry keeps the stream.
CloseStreamKeepsMapping(s) ==
    /\ s \notin closed /\ ~failed
    /\ closed' = closed \cup {s}
    /\ open' = open \ {<<e, s>> : e \in {e \in DOMAIN fib \cap live : s \in fib[e]}}
    /\ UNCHANGED <<ctx, got, fib, live, out, wanted, client, failed>>

\* OnStreamClosed and CloseStream: the streams made for it are closed and
\* forgotten where the session still exists.  A stream that closes before its
\* first chunk has no header to cast to.  The loop over client_fib_ that follows
\* in the code is left out: it is for a track that is published here, and this
\* relay only passes the set on.
CloseStream(s) ==
    /\ s \notin closed /\ ~failed
    /\ closed' = closed \cup {s}
    /\ LET known == {k \in DOMAIN fib \cap live : s \in fib[k]}
       IN  IF ctx[s] = "header"
           THEN /\ open' = open \ {<<e, s>> : e \in known}
                /\ fib' = [k \in DOMAIN fib |-> IF k \in known THEN fib[k] \ {s} ELSE fib[k]]
           ELSE UNCHANGED <<open, fib>>
    /\ client' = IF ctx[s] = "header" /\ Self \in DOMAIN fib
                 THEN [client EXCEPT ![s] = <<>>] ELSE client
    /\ failed' = (ctx[s] = "none")
    /\ UNCHANGED <<ctx, got, live, out, wanted>>

\* SnsReceived for an advertisement whose nodes are reached through the keys:
\* their entries are written anew, without streams, and the others erased.
SnsReceived(keys) ==
    /\ ~failed
    /\ fib' = [k \in keys |-> {}]
    /\ UNCHANGED <<ctx, got, closed, live, out, open, wanted, client, failed>>

\* SnsReceived for a withdrawal.
SnsWithdrawn ==
    /\ fib # <<>> /\ ~failed
    /\ IF DOMAIN fib \subseteq live \cup {Self, Ingress}
       THEN fib' = <<>> /\ UNCHANGED failed
       ELSE failed' = TRUE /\ UNCHANGED fib
    /\ UNCHANGED <<ctx, got, closed, live, out, open, wanted, client>>

\* An egress session is lost: its streams go with the connection, while the
\* entries that point to it stay.
EgressLost(e) ==
    /\ e \in live /\ ~failed
    /\ live' = live \ {e}
    /\ open' = {p \in open : p[1] # e}
    /\ UNCHANGED <<ctx, got, closed, fib, out, wanted, client, failed>>

\* The ingress session is lost and PurgePeerSessionInfo erases its entries.
IngressLost ==
    /\ closed # Stream /\ ~failed
    /\ closed' = Stream
    /\ fib' = <<>>
    /\ UNCHANGED <<ctx, got, live, out, open, wanted, client, failed>>

\* A client of the relay subscribes, or the last one unsubscribes.
OwnSubscription ==
    /\ ~failed
    /\ wanted' = ~wanted
    /\ UNCHANGED <<ctx, got, closed, fib, live, out, open, client, failed>>

\* A callback is never completed.
Failed == failed /\ UNCHANGED vars

Next ==
    \/ \E s \in Stream : CloseStream(s) \/ \E last \in 1..MaxUnits : ProcessReceivedData(s, last)
    \/ \E keys \in SUBSET (live \cup {Self, Ingress}) : SnsReceived(keys)
    \/ SnsWithdrawn
    \/ \E e \in Egress : EgressLost(e)
    \/ IngressLost
    \/ OwnSubscription
    \/ Failed

Spec == Init /\ [][Next]_vars

-----------------------------------------------------------------------------
(***************************************************************************)
(* Properties                                                              *)
(***************************************************************************)

\* A stream that an entry maps has been passed on whole so far: the stream made
\* for it is open unless its session went, and has every unit received, from the
\* first unit of the header on, whatever the node set did meanwhile.
MappedIsWhole ==
    ~failed => \A e \in DOMAIN fib \cap Egress : \A s \in fib[e] :
        /\ <<e, s>> \in open \/ e \notin live
        /\ <<e, s>> \in open => out[<<e, s>>] = Units(1, got[s])

\* An entry of a session that exists holds no stream that is closed: stream ids
\* that the map keeps are never released.
MappedIsOpen ==
    \A e \in DOMAIN fib \cap live : fib[e] \cap closed = {}

\* No peer gets a stream that starts in the middle or has a hole, nor the same
\* stream twice: what it gets is the beginning of what came in.
OutIsPrefix ==
    \A p \in Pairs : out[p] = Units(1, Len(out[p])) /\ Len(out[p]) <= got[p[2]]

-----------------------------------------------------------------------------
(***************************************************************************)
(* What the repository's documents say and the code does not do            *)
(***************************************************************************)

\* src/docs/relay-protocol.md:885: the same id is updated with a new set "to
\* allow a smooth transition".  While the set names a session, the streams made
\* for it go on.
SmoothTransition ==
    [][\A e \in DOMAIN fib \cap DOMAIN fib' \cap live : fib[e] \subseteq fib'[e] \cup closed']_vars

\* The comment at src/src/peering/peer_session.cc:508: with too few bytes to parse
\* the header, wait until more arrive.  Once it is there, the stream has one.
HeaderAwaited == \A s \in Stream : got[s] >= HeaderSize => ctx[s] = "header"
=============================================================================
