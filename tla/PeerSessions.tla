----------------------------- MODULE PeerSessions -----------------------------
(***************************************************************************)
(* Peering sessions between relays (PeerSession and the session maps of    *)
(* PeerManager).  A session joins the relay that opened it, its client, to *)
(* the one that accepted it, its server, and carries control messages in   *)
(* order, both ways.  The modules that describe what relays tell each      *)
(* other over these sessions extend this one and add their own state.      *)
(*                                                                         *)
(* A callback runs to its end in one action.  The transport below a        *)
(* session is external: it delivers in order while it is up; when it       *)
(* breaks, each end learns of it in its own time and what was in flight is *)
(* lost.                                                                   *)
(***************************************************************************)
EXTENDS Peers, FiniteSets, SequencesExt

CONSTANTS
    Client,      \* [Session -> Node]: the relay that opens the session
    Server,      \* [Session -> Node]: the relay that accepts it
    Prev,        \* [Session -> Session or 0]: the session it replaces, the
                 \* client having lost it; 0 for one opened at start
    MaxDrops     \* bound: how many transports break in a behaviour

ASSUME TopologyAssumption ==
    /\ Node \subseteq Nat \ {0} /\ IsFiniteSet(Node)
    /\ Client \in [Session -> Node] /\ Server \in [Session -> Node]
    /\ \A s \in Session : Client[s] # Server[s]
    /\ Prev \in [Session -> Session \cup {NoSession}]
    /\ MaxDrops \in Nat

VARIABLES
    status,      \* status[r][s]: status_ of r's end of s, "none" if r has no
                 \* PeerSession for it
    remote,      \* remote[r][s]: remote_node_info_.id, 0 until the handshake
    transport,   \* transport[s]: state of the transport connection (external)
    chan,        \* chan[r][s]: control messages on their way to r over s
    drops        \* how many transports have broken

sessionVars == <<status, remote, transport, chan, drops>>

NoNode == 0

Peer(r, s) == IF r = Client[s] THEN Server[s] ELSE Client[s]

-----------------------------------------------------------------------------
(***************************************************************************)
(* Sending.  The output of a callback of relay r is a function that gives, *)
(* for every session, the messages r enqueues on it.                       *)
(***************************************************************************)
NoOutput == [s \in Session |-> <<>>]

\* The Send methods of PeerSession: nothing leaves a session that is not
\* connected at this end (st), and a broken transport loses what it is given.
\* The server's end is connected before the client's control stream, and with it
\* control_data_ctx_id_, is known to it: until the handshake has set the remote
\* id (rem) what it enqueues has no valid data context and is lost.
Sent(ch, r, st, rem, out) ==
    [q \in Node |-> [s \in Session |->
        IF /\ r \in {Client[s], Server[s]} /\ q = Peer(r, s)
           /\ st[s] = "connected" /\ transport[s] = "up"
           /\ r = Client[s] \/ rem[s] # NoNode
        THEN ch[q][s] \o out[s] ELSE ch[q][s]]]

Hello(kind, r) == [kind |-> kind, id |-> r]

IsHello(m) == m.kind \in {"connect", "connectResponse"}

-----------------------------------------------------------------------------
SessionsInit ==
    /\ status = [r \in Node |-> [s \in Session |-> "none"]]
    /\ remote = [r \in Node |-> [s \in Session |-> NoNode]]
    /\ transport = [s \in Session |-> "idle"]
    /\ chan = [r \in Node |-> [s \in Session |-> <<>>]]
    /\ drops = 0

\* CreatePeerSession at start, or CheckThread finding the session it replaces
\* disconnected: the client starts a transport and keys the session anew.
Connect(s) ==
    LET c == Client[s]
    IN  /\ transport[s] = "idle"
        /\ Prev[s] # NoSession => status[c][Prev[s]] = "disconnected"
        /\ status' = [status EXCEPT ![c] =
                        [x \in Session |-> CASE x = s -> "connecting"
                                             [] x = Prev[s] -> "none"
                                             [] OTHER -> @[x]]]
        /\ remote' = [remote EXCEPT ![c] =
                        [x \in Session |-> IF x = Prev[s] THEN NoNode ELSE @[x]]]
        /\ transport' = [transport EXCEPT ![s] = "open"]
        /\ UNCHANGED <<chan, drops>>

\* PeerManager::OnNewConnection: an inbound session is connected at once.
OnNewConnection(s) ==
    /\ transport[s] = "open"
    /\ status' = [status EXCEPT ![Server[s]][s] = "connected"]
    /\ transport' = [transport EXCEPT ![s] = "accepted"]
    /\ UNCHANGED <<remote, chan, drops>>

\* PeerSession::OnConnectionStatus(kReady): the client sends Connect.
OnReady(s) ==
    /\ transport[s] = "accepted"
    /\ transport' = [transport EXCEPT ![s] = "up"]
    /\ chan' = [chan EXCEPT ![Server[s]][s] =
                   Append(@, Hello("connect", Client[s]))]
    /\ UNCHANGED <<status, remote, drops>>

\* remote_node_info_ of r's sessions once r has taken message m of session s.
RemoteAfter(r, s, m) ==
    IF IsHello(m) THEN [remote[r] EXCEPT ![s] = m.id] ELSE remote[r]

\* status_ of r's sessions then.
StatusAfter(r, s, m) ==
    IF IsHello(m) THEN [status[r] EXCEPT ![s] = "connected"] ELSE status[r]

\* ProcessControlMessage, what concerns the session: r takes message m of
\* session s, a handshake message connects its end, and Connect is answered
\* before anything else goes out on s.
Take(r, s, m, out) ==
    LET answer == IF m.kind = "connect" THEN <<Hello("connectResponse", r)>>
                  ELSE <<>>
    IN  /\ m = Head(chan[r][s])
        /\ status' = [status EXCEPT ![r] = StatusAfter(r, s, m)]
        /\ remote' = [remote EXCEPT ![r] = RemoteAfter(r, s, m)]
        /\ chan' = Sent([chan EXCEPT ![r][s] = Tail(@)], r,
                        StatusAfter(r, s, m), RemoteAfter(r, s, m),
                        [out EXCEPT ![s] = answer \o @])
        /\ UNCHANGED <<transport, drops>>

-----------------------------------------------------------------------------
\* The transport of s breaks (external): what is in flight is lost.
Break(s) ==
    /\ transport[s] \in {"open", "accepted", "up"}
    /\ drops < MaxDrops
    /\ drops' = drops + 1
    /\ transport' = [transport EXCEPT ![s] = "down"]
    /\ chan' = [r \in Node |-> [chan[r] EXCEPT ![s] = <<>>]]
    /\ UNCHANGED <<status, remote>>

\* PeerSession::OnConnectionStatus: the client's end learns of it and keeps
\* the session, disconnected, for CheckThread.  out is what SessionChanged
\* makes the relay send.
ClientDisconnected(s, out) ==
    LET r  == Client[s]
        st == [status[r] EXCEPT ![s] = "disconnected"]
    IN  /\ transport[s] = "down"
        /\ status[r][s] \in {"connecting", "connected"}
        /\ status' = [status EXCEPT ![r] = st]
        /\ chan' = Sent(chan, r, st, remote[r], out)
        /\ UNCHANGED <<remote, transport, drops>>

\* PeerManager::OnConnectionStatus: the server's end learns of it, at any
\* later time (an idle timeout), and destroys the session.
ServerDisconnected(s, out) ==
    LET r == Server[s]
    IN  /\ transport[s] = "down"
        /\ status[r][s] = "connected"
        /\ chan' = Sent(chan, r, status[r], remote[r], out)
        /\ status' = [status EXCEPT ![r][s] = "none"]
        /\ remote' = [remote EXCEPT ![r][s] = NoNode]
        /\ UNCHANGED <<transport, drops>>

-----------------------------------------------------------------------------
\* No message is on its way and no session is being opened or closed.
Settled ==
    /\ \A r \in Node, s \in Session : chan[r][s] = <<>>
    /\ \A s \in Session :
          \/ transport[s] = "up"
          \/ transport[s] = "idle" /\ Prev[s] # NoSession
             /\ status[Client[s]][Prev[s]] # "disconnected"
          \/ transport[s] = "down" /\ status[Server[s]][s] = "none"
             /\ status[Client[s]][s] \in {"none", "disconnected"}

\* The relays that r has a handshaken session with.
Neighbours(r) ==
    {remote[r][s] : s \in {s \in Session : status[r][s] = "connected"}} \ {NoNode}

\* The sessions opened at start form a tree: up[n][r] is the session of relay r
\* on the way to relay n, dist[n][r] a measure of how far n is, and a session
\* leads to n from one of its ends.
IsTree(dist, up) ==
    /\ dist \in [Node -> [Node -> Nat]]
    /\ up \in [Node -> [Node -> Session]]
    /\ \A n \in Node : \A r \in Node \ {n} :
          /\ Prev[up[n][r]] = NoSession
          /\ r \in {Client[up[n][r]], Server[up[n][r]]}
          /\ dist[n][Peer(r, up[n][r])] < dist[n][r]
    /\ \A n \in Node, s \in Session :
          Prev[s] = NoSession =>
             \E r \in {Client[s], Server[s]} \ {n} : up[n][r] = s

\* The types of the session state, with the given set of messages.
SessionsType(Messages) ==
    /\ status \in [Node -> [Session ->
                     {"none", "connecting", "connected", "disconnected"}]]
    /\ remote \in [Node -> [Session -> Node \cup {NoNode}]]
    /\ transport \in [Session -> {"idle", "open", "accepted", "up", "down"}]
    /\ \A r \in Node, s \in Session : \A i \in DOMAIN chan[r][s] :
          chan[r][s][i] \in Messages \cup
              [kind : {"connect", "connectResponse"}, id : Node]
    /\ drops \in 0..MaxDrops
=============================================================================
