---------------------------- MODULE SubscribeFlood ----------------------------
(***************************************************************************)
(* How relays tell each other about the subscriptions of their clients:    *)
(* InfoBase::subscribes_, the flooding of subscribe information over the   *)
(* sessions of PeerSessions, and what a withdrawal does to the relay that  *)
(* receives it.                                                            *)
(*                                                                         *)
(* The relays of this module have no publisher of the tracks: neither a    *)
(* local one nor a PUBLISH learned from a peer.  Then client_fib_, sub_sns_*)
(* and pub_subscribes hold nothing for them, so the second half of         *)
(* SubscribeInfoReceived finds no match, and RemoveOrPausePublisher-       *)
(* Subscribe always goes on to ClientUnsubscribe.                          *)
(***************************************************************************)
EXTENDS PeerSessions

CONSTANTS
    Track,       \* track full name hashes
    Priority,    \* what distinguishes the subscribe data of two clients
    SeqModulus,  \* sequence numbers wrap at this value (65536 in the code)
    Clients,     \* [Node -> Nat]: how many local clients may subscribe
    MaxOps       \* bound: how many client operations there are

ASSUME SubscribeAssumption ==
    /\ Track \subseteq Nat /\ IsFiniteSet(Track)
    /\ SeqModulus \in Nat \ {0}
    /\ Clients \in [Node -> Nat]
    /\ MaxOps \in Nat

VARIABLES
    subs,        \* subs[r]: subscribes_, <<track, source>> -> seq and data
    local,       \* local[r][t]: how many clients of r are subscribed to t
    ops          \* how many client operations have been made

vars == <<subs, local, ops, sessionVars>>

-----------------------------------------------------------------------------
(***************************************************************************)
(* Messages.  data is what the subscribe carries for the publisher: the    *)
(* client's priority, and whether a new group is requested.                *)
(***************************************************************************)
SubMsg(withdraw, key, info) ==
    [kind |-> IF withdraw THEN "unsub" ELSE "sub",
     key |-> key, seq |-> info.seq, data |-> info.data]

\* The order sessions are walked in: the client map, then the server map.
Before(r, a, b) ==
    \/ r = Client[a] /\ r # Client[b]
    \/ (r = Client[a]) = (r = Client[b]) /\ a < b

\* Bug for the mutation runs: the message also goes back to where it came from.
FloodBack(r, st, key, info, withdraw, except) ==
    [s \in Session |-> <<SubMsg(withdraw, key, info)>>]

\* Bug for the mutation runs: the sequence number does not wrap.
FloodNoWrap(r, st, key, info, withdraw, except) ==
    [s \in Session |->
        IF st[s] # "connected" \/ s = except THEN <<>>
        ELSE <<SubMsg(withdraw, key,
                      IF key[2] = r THEN [info EXCEPT !.seq = @ + 1] ELSE info)>>]

\* Send subscribe information on every connected session but one.  At the
\* source, Serialize bumps the sequence number of the same object once for
\* every message it writes; a relay on the way leaves it alone.
Flood(r, st, key, info, withdraw, except) ==
    LET targets == {s \in Session : st[s] = "connected" /\ s # except}
        rank(s) == Cardinality({x \in targets : Before(r, x, s)}) + 1
        seq(s)  == IF key[2] = r THEN (info.seq + rank(s)) % SeqModulus
                   ELSE info.seq
    IN  [s \in Session |->
           IF s \in targets
           THEN <<SubMsg(withdraw, key, [info EXCEPT !.seq = seq(s)])>>
           ELSE <<>>]

Both(outA, outB) == [s \in Session |-> outA[s] \o outB[s]]

-----------------------------------------------------------------------------
(***************************************************************************)
(* InfoBase                                                                *)
(***************************************************************************)

\* AddSubscribe's result: the information is new, or its sequence number is
\* any other than the one known.
IsNews(sb, key, seq) ==
    key \in DOMAIN sb => sb[key].seq # seq

AddSubscribe(sb, key, info) ==
    IF IsNews(sb, key, info.seq) THEN Put(sb, key, info) ELSE sb

RemoveSubscribe(sb, key) == Erase(sb, {key})

-----------------------------------------------------------------------------
(***************************************************************************)
(* PeerManager.  A result is the new subscribes_ and the output.           *)
(***************************************************************************)
Result(sb, out) == [subs |-> sb, out |-> out]

\* ClientUnsubscribe: withdraw this relay's own subscription, if it has one.
\* GetSubscribe returns a copy, so that the bumps of Flood are lost.
ClientUnsubscribe(r, sb, st, t) ==
    LET key == <<t, r>>
    IN  IF key \in DOMAIN sb
        THEN Result(RemoveSubscribe(sb, key),
                    Flood(r, st, key, sb[key], TRUE, NoSession))
        ELSE Result(sb, NoOutput)

\* Bug for the mutation runs: a withdrawal is not passed on.
WithdrawnSilently(r, s, sb, st, m) ==
    ClientUnsubscribe(r, RemoveSubscribe(sb, m.key), st, m.key[1])

\* SubscribeInfoReceived for a withdrawal of session s: pass it on if the
\* subscription was known; in any case RemoveOrPausePublisherSubscribe runs,
\* finds no publisher's handler with subscribers, and calls ClientUnsubscribe.
Withdrawn(r, s, sb, st, m) ==
    LET flood == IF m.key \in DOMAIN sb
                 THEN Flood(r, st, m.key, [seq |-> m.seq, data |-> m.data], TRUE, s)
                 ELSE NoOutput
        own   == ClientUnsubscribe(r, RemoveSubscribe(sb, m.key), st, m.key[1])
    IN  Result(own.subs, Both(flood, own.out))

\* SubscribeInfoReceived for an advertisement: pass it on if it is news.
Advertised(r, s, sb, st, m) ==
    LET info == [seq |-> m.seq, data |-> m.data]
    IN  Result(AddSubscribe(sb, m.key, info),
               IF IsNews(sb, m.key, m.seq)
               THEN Flood(r, st, m.key, info, FALSE, s) ELSE NoOutput)

\* InfoBaseSyncPeer, subscribe part: every subscription whose source is not
\* the peer n, ordered by track and source.  It serializes the stored objects,
\* so that r's own ones are bumped in place.
InfoBaseSyncPeer(r, s, sb, n) ==
    LET keys   == {k \in DOMAIN sb : k[2] # n}
        bumped == [k \in DOMAIN sb |->
                     IF k \in keys /\ k[2] = r
                     THEN [sb[k] EXCEPT !.seq = (@ + 1) % SeqModulus] ELSE sb[k]]
        Less(a, b) == a[1] < b[1] \/ (a[1] = b[1] /\ a[2] < b[2])
        Key(i) == CHOOSE k \in keys :
                     Cardinality({j \in keys : Less(j, k)}) = i - 1
    IN  Result(bumped, [i \in 1..Cardinality(keys) |->
                           SubMsg(FALSE, Key(i), bumped[Key(i)])])

\* One round of the loop of SessionChanged, acc being the result so far: what is
\* known by this key is treated as withdrawn over s.
WithdrawnByLoss(r, s, acc, st, key) ==
    LET w == Withdrawn(r, s, acc.subs, st, SubMsg(TRUE, key, acc.subs[key]))
    IN  Result(w.subs, Both(acc.out, w.out))

\* SessionChanged for a session that is lost: every subscription of the remote
\* node itself, but of no node behind it, is treated as withdrawn by it, one
\* track after the other.
SessionLost(r, s, st) ==
    LET n == remote[r][s]
        tracks == {t \in Track : <<t, n>> \in DOMAIN subs[r]}
        Nth(i) == CHOOSE t \in tracks :
                     Cardinality({u \in tracks : u < t}) = i - 1
        after[i \in 0..Cardinality(tracks)] ==
            IF i = 0 THEN Result(subs[r], NoOutput)
            ELSE WithdrawnByLoss(r, s, after[i - 1], st, <<Nth(i), n>>)
    IN  after[Cardinality(tracks)]

-----------------------------------------------------------------------------
Init ==
    /\ SessionsInit
    /\ subs = [r \in Node |-> EmptyMap]
    /\ local = [r \in Node |-> [t \in Track |-> 0]]
    /\ ops = 0

\* A client operation of relay r that leaves subs[r] and sends as res says.
Operation(r, res) ==
    /\ ops < MaxOps
    /\ ops' = ops + 1
    /\ subs' = [subs EXCEPT ![r] = res.subs]
    /\ chan' = Sent(chan, r, status[r], remote[r], res.out)
    /\ UNCHANGED <<status, remote, transport, drops>>

\* ProcessSubscribe for a client of r, ending in ClientSubscribe: the sequence
\* number starts at 0 every time, and AddSubscribe's answer is not looked at.
ClientSubscribe(r, t, p) ==
    LET info == [seq |-> 0, data |-> [priority |-> p, newGroup |-> FALSE]]
    IN  /\ local[r][t] < Clients[r]
        /\ local' = [local EXCEPT ![r][t] = @ + 1]
        /\ Operation(r, Result(AddSubscribe(subs[r], <<t, r>>, info),
                               Flood(r, status[r], <<t, r>>, info, FALSE, NoSession)))

\* NewGroupRequested, ending in ClientSubscribeUpdate: a copy of the stored
\* subscription goes out with the request added.
ClientSubscribeUpdate(r, t) ==
    /\ local[r][t] > 0
    /\ <<t, r>> \in DOMAIN subs[r]
    /\ Operation(r, Result(subs[r],
            Flood(r, status[r], <<t, r>>,
                  [subs[r][<<t, r>>] EXCEPT !.data.newGroup = TRUE],
                  FALSE, NoSession)))
    /\ UNCHANGED local

\* UnsubscribeReceived from one client of r: RemoveOrPausePublisherSubscribe
\* finds no publisher's handler and calls ClientUnsubscribe.
UnsubscribeReceived(r, t) ==
    /\ local[r][t] > 0
    /\ local' = [local EXCEPT ![r][t] = @ - 1]
    /\ Operation(r, ClientUnsubscribe(r, subs[r], status[r], t))

\* ProcessControlMessage: r takes the next message of session s.
Deliver(r, s) ==
    /\ chan[r][s] # <<>>
    /\ LET m   == Head(chan[r][s])
           st  == StatusAfter(r, s, m)
           res == CASE m.kind = "sub"   -> Advertised(r, s, subs[r], st, m)
                    [] m.kind = "unsub" -> Withdrawn(r, s, subs[r], st, m)
                    [] OTHER -> LET sync == InfoBaseSyncPeer(r, s, subs[r], m.id)
                                IN  Result(sync.subs, [NoOutput EXCEPT ![s] = sync.out])
       IN  /\ subs' = [subs EXCEPT ![r] = res.subs]
           /\ Take(r, s, m, res.out)
    /\ UNCHANGED <<local, ops>>

\* Either end learns that the session is gone.
Disconnected(r, s) ==
    LET st == IF r = Client[s] THEN [status[r] EXCEPT ![s] = "disconnected"]
              ELSE status[r]
        lost == SessionLost(r, s, st)
    IN  /\ \/ r = Client[s] /\ ClientDisconnected(s, lost.out)
           \/ r = Server[s] /\ ServerDisconnected(s, lost.out)
        /\ subs' = [subs EXCEPT ![r] = lost.subs]
        /\ UNCHANGED <<local, ops>>

\* Nothing is left to do: the network idles.
Idle == Settled /\ UNCHANGED vars

Progress ==
    \E s \in Session :
        \/ /\ Connect(s) \/ OnNewConnection(s) \/ OnReady(s)
           /\ UNCHANGED <<subs, local, ops>>
        \/ \E r \in Node : Deliver(r, s) \/ Disconnected(r, s)

Next ==
    \/ Progress
    \/ \E r \in Node, t \in Track :
          \/ \E p \in Priority : ClientSubscribe(r, t, p)
          \/ ClientSubscribeUpdate(r, t)
          \/ UnsubscribeReceived(r, t)
    \/ \E s \in Session : Break(s) /\ UNCHANGED <<subs, local, ops>>
    \/ Idle

\* The threads of the relays keep running (see NodeNetwork); clients and
\* failures do what they like.
Fairness == WF_vars(Progress)

Spec == Init /\ [][Next]_vars /\ Fairness

-----------------------------------------------------------------------------
(***************************************************************************)
(* Properties                                                              *)
(***************************************************************************)
Infos == [seq : 0..(SeqModulus - 1),
          data : [priority : Priority, newGroup : BOOLEAN]]

\* The subscription maps, the counters and the messages have their types.
TypeOK ==
    /\ \A r \in Node :
          /\ DOMAIN subs[r] \subseteq Track \X Node
          /\ subs[r] \in [DOMAIN subs[r] -> Infos]
          /\ local[r] \in [Track -> 0..Clients[r]]
    /\ ops \in 0..MaxOps
    /\ SessionsType([kind : {"sub", "unsub"}, key : Track \X Node,
                     seq : 0..(SeqModulus - 1),
                     data : [priority : Priority, newGroup : BOOLEAN]])

\* When all is quiet and no transport has failed, every relay knows exactly the
\* subscriptions that their sources hold: advertisements, withdrawals,
\* re-subscriptions and the sync of late sessions crossing each other leave no
\* ghost and no gap.
Agreement ==
    Settled /\ drops = 0 => \A r, n \in Node, t \in Track :
        <<t, n>> \in DOMAIN subs[r] <=> <<t, n>> \in DOMAIN subs[n]

\* While no transport has failed, a relay is never told about its own
\* subscription, which it would take for news and flood again under a new
\* sequence number.
NoEcho ==
    drops = 0 => \A r \in Node, s \in Session : \A i \in DOMAIN chan[r][s] :
        chan[r][s][i].kind = "sub" => chan[r][s][i].key[2] # r

\* Advertisements and withdrawals die out once the clients are quiet, after
\* failures and reconnections too.
FloodingStops == <>[]Settled

-----------------------------------------------------------------------------
(***************************************************************************)
(* What the repository's documents say and the code does not do            *)
(***************************************************************************)

\* docs/relay-protocol.md: "Withdraw of `subscribe_info` is sent by the node
\* that received the MOQT unsubscribe."  A relay keeps its subscription as
\* long as it has a subscribed client.
HeldWhileSubscribed ==
    \A r \in Node, t \in Track : local[r][t] > 0 => <<t, r>> \in DOMAIN subs[r]

=============================================================================
