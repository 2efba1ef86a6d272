-------------------------- MODULE ForwardingProofs --------------------------
(***************************************************************************)
(* Proof about Forwarding: in every topology, and through any number of    *)
(* failures and reconnections, a relay keeps entries of peer_fib_ only for *)
(* sessions that it has.                                                   *)
(*                                                                         *)
(* Sets are accepted on a session as soon as a message arrives, so that    *)
(* the heart of the argument is the handshake: no message but the          *)
(* greeting is taken on a session whose end is not connected.              *)
(***************************************************************************)
EXTENDS Forwarding, PeeringProofs

-----------------------------------------------------------------------------
(***************************************************************************)
(* Messages                                                                *)
(***************************************************************************)
Kinds == {"node", "withdraw", "announce", "sub", "unsub", "sns", "unsns"}

\* A message that is none of the handshake.
News(m) == m.kind \in Kinds /\ (m.kind = "sns" => IsFiniteSet(m.nodes))

\* A sequence of news, and of handshake messages of the given kinds.
Carries(q, hellos) ==
    \E S : q \in Seq(S) /\ \A m \in S : News(m) \/ m.kind \in hellos

\* Every session gets a sequence of news.
Output(out) ==
    out = [s \in Session |-> out[s]] /\ \A s \in Session : Carries(out[s], {})

\* News is no greeting.
LEMMA NewsNoHello ==
  ASSUME NEW m, News(m)
  PROVE  ~ IsHello(m)
  BY DEF News, Kinds, IsHello

\* What is needed of a sequence to carry news.
LEMMA CarriesIf ==
  ASSUME NEW K, NEW S, NEW q \in Seq(S), \A m \in S : News(m) \/ m.kind \in K
  PROVE  Carries(q, K)
  BY DEF Carries

\* The empty sequence carries nothing.
LEMMA CarriesNone == \A K : Carries(<<>>, K)
<1> TAKE K
<1> DEFINE S == {}
           q == <<>>
<1>1. q \in Seq(S) /\ \A m \in S : News(m) \/ m.kind \in K
  OBVIOUS
<1>2. Carries(q, K)
  <2> HIDE DEF S, q
  <2> QED BY <1>1, CarriesIf
<1> QED BY <1>2

\* One message.
LEMMA CarriesOne ==
  ASSUME NEW m, NEW K, News(m) \/ m.kind \in K
  PROVE  Carries(<<m>>, K)
<1> DEFINE S == {m}
           q == <<m>>
<1>1. q \in Seq(S)
  OBVIOUS
<1>2. \A x \in S : News(x) \/ x.kind \in K
  BY Zenon
<1>3. Carries(q, K)
  <2> HIDE DEF S, q
  <2> QED BY <1>1, <1>2, CarriesIf
<1> QED BY <1>3

\* A function on an interval of numbers from 1 whose values are news.
LEMMA CarriesFcn ==
  ASSUME NEW n \in Nat, NEW q, q = [i \in 1..n |-> q[i]], \A i \in 1..n : News(q[i])
  PROVE  Carries(q, {})
<1> DEFINE S == {q[i] : i \in 1..n}
<1>1. q \in [1..n -> S]
  OBVIOUS
<1>2. q \in Seq(S)
  <2> HIDE DEF S
  <2> QED BY <1>1, SeqDef
<1>3. \A m \in S : News(m)
  OBVIOUS
<1> HIDE DEF S
<1> QED BY <1>2, <1>3 DEF Carries

\* One sequence after the other.
LEMMA CarriesConcat ==
  ASSUME NEW K, NEW L \in SUBSET K, NEW a, NEW b, Carries(a, K), Carries(b, L)
  PROVE  /\ Carries(a \o b, K)
         /\ a # <<>> => a \o b # <<>> /\ Head(a \o b) = Head(a)
         /\ a = <<>> => a \o b = b
         /\ b = <<>> => a \o b = a
<1>1. PICK S : a \in Seq(S) /\ \A m \in S : News(m) \/ m.kind \in K
  BY DEF Carries
<1>2. PICK T : b \in Seq(T) /\ \A m \in T : News(m) \/ m.kind \in L
  BY DEF Carries
<1>3. a \in Seq(S \cup T) /\ b \in Seq(S \cup T)
  BY <1>1, <1>2
<1>4. a \o b \in Seq(S \cup T)
  BY <1>3
<1>5. \A m \in S \cup T : News(m) \/ m.kind \in K
  BY <1>1, <1>2
<1>6. Carries(a \o b, K)
  BY <1>4, <1>5 DEF Carries
<1> QED BY <1>3, <1>6

\* A message at the end.
LEMMA CarriesAppend ==
  ASSUME NEW K, NEW a, Carries(a, K), NEW m, News(m) \/ m.kind \in K
  PROVE  Carries(Append(a, m), K)
<1>1. PICK S : a \in Seq(S) /\ \A x \in S : News(x) \/ x.kind \in K
  BY DEF Carries
<1>2. a \in Seq(S \cup {m})
  BY <1>1
<1>3. Append(a, m) \in Seq(S \cup {m})
  BY <1>2
<1> QED BY <1>1, <1>3 DEF Carries

\* The first message and the rest.
LEMMA CarriesHead ==
  ASSUME NEW K, NEW a, Carries(a, K), a # <<>>
  PROVE  Carries(Tail(a), K) /\ (News(Head(a)) \/ Head(a).kind \in K)
<1>1. PICK S : a \in Seq(S) /\ \A x \in S : News(x) \/ x.kind \in K
  BY DEF Carries
<1>2. Tail(a) \in Seq(S) /\ Head(a) \in S
  BY <1>1
<1> QED BY <1>1, <1>2 DEF Carries

\* Nothing is an output.
LEMMA OutputNone == Output(NoOutput)
  BY CarriesNone DEF Output, NoOutput

\* One output after the other.
LEMMA OutputConcat ==
  ASSUME NEW a, NEW b, Output(a), Output(b)
  PROVE  Output([s \in Session |-> a[s] \o b[s]])
<1>1. \A s \in Session : Carries(a[s] \o b[s], {})
  <2> TAKE s \in Session
  <2>1. Carries(a[s], {}) /\ Carries(b[s], {})
    BY DEF Output
  <2> QED BY <2>1, CarriesConcat
<1> QED BY <1>1 DEF Output

-----------------------------------------------------------------------------
(***************************************************************************)
(* The state a callback works on                                           *)
(***************************************************************************)

\* The sets sub_sns_ of a relay, by session.
SubSets(f) ==
    /\ f = [s \in Session |-> f[s]]
    /\ \A s \in Session : /\ f[s] = [id |-> f[s].id, nodes |-> f[s].nodes]
                          /\ IsFiniteSet(f[s].nodes)

\* The sets peer_sns_ of a relay, by session.
PeerSets(f) ==
    /\ f = [s \in Session |-> f[s]]
    /\ \A s \in Session : \A in \in DOMAIN f[s] : IsFiniteSet(f[s][in])

\* A record of State.
IsState(x) ==
    x = [r |-> x.r, st |-> x.st, rem |-> x.rem, table |-> x.table,
         subs |-> x.subs, local |-> x.local, announced |-> x.announced,
         handler |-> x.handler, attached |-> x.attached, subSns |-> x.subSns,
         peerSns |-> x.peerSns, clientFib |-> x.clientFib,
         peerFib |-> x.peerFib, failed |-> x.failed, out |-> x.out]

\* The tables of the record are finite, and what it sends is news.
Fine(x) ==
    /\ IsState(x)
    /\ IsFiniteSet(DOMAIN x.table.nodes)
    /\ IsFiniteSet(DOMAIN x.subs)
    /\ SubSets(x.subSns)
    /\ PeerSets(x.peerSns)
    /\ Output(x.out)

\* An operation from x to y leaves peer_fib_ alone.
Keeps(x, y) == Fine(y) /\ y.r = x.r /\ y.peerFib = x.peerFib

\* One operation after another.
LEMMA KeepsTwo ==
  ASSUME NEW x, NEW y, NEW z, Keeps(x, y), Keeps(y, z)
  PROVE  Keeps(x, z)
  BY DEF Keeps

\* Sending in addition.
LEMMA SendAllKeeps ==
  ASSUME NEW x, Fine(x), NEW out, Output(out)
  PROVE  Keeps(x, SendAll(x, out))
<1> DEFINE o == [s \in Session |-> x.out[s] \o out[s]]
           y == SendAll(x, out)
<1>1. Output(o)
  BY OutputConcat DEF Fine
<1>2. y = [x EXCEPT !.out = o]
  BY DEF SendAll
<1> HIDE DEF o
<1>3. /\ IsState(y) /\ y.out = o /\ y.r = x.r /\ y.peerFib = x.peerFib
      /\ y.table = x.table /\ y.subs = x.subs /\ y.subSns = x.subSns
      /\ y.peerSns = x.peerSns
  BY <1>2 DEF Fine, IsState
<1> HIDE DEF y
<1>4. Keeps(x, y)
  BY <1>1, <1>3 DEF Keeps, Fine
<1> QED BY <1>4 DEF y

\* The sets sent while new nodes join.
LEMMA GrowingCarries ==
  ASSUME NEW id, NEW ns, NEW new, IsFiniteSet(ns), IsFiniteSet(new)
  PROVE  Carries(Growing(id, ns, new), {})
<1> DEFINE n == Cardinality(new)
           q == Growing(id, ns, new)
<1>1. n \in Nat
  BY FS_CardinalityType
<1>2. q = [i \in 1..n |-> SnsMsg(FALSE, id, ns \cup First(new, i))]
  BY DEF Growing
<1>3. \A i \in 1..n : News(q[i])
  <2> TAKE i \in 1..n
  <2>1. First(new, i) \in SUBSET new
    BY DEF First
  <2>2. IsFiniteSet(ns \cup First(new, i))
    BY <2>1, FS_Subset, FS_Union
  <2>3. q[i] = SnsMsg(FALSE, id, ns \cup First(new, i))
    BY <1>2
  <2> QED BY <2>2, <2>3 DEF News, Kinds, SnsMsg
<1>4. q = [i \in 1..n |-> q[i]]
  BY <1>2
<1> HIDE DEF n, q
<1>5. Carries(q, {})
  BY <1>1, <1>3, <1>4, CarriesFcn
<1> QED BY <1>5 DEF q

\* Nodes join the sets of the track.
LEMMA AddSubscribeKeeps ==
  ASSUME NEW x, Fine(x), NEW ns, \A s \in Session : IsFiniteSet(ns[s])
  PROVE  Keeps(x, AddSubscribeSourceNode(x, ns))
<1> DEFINE sns(s) == x.subSns[s]
           new(s) == ns[s] \ sns(s).nodes
           id(s)  == IF sns(s).nodes = {} THEN SubSnsId(s) ELSE sns(s).id
           f == [s \in Session |->
                     IF new(s) = {} THEN sns(s)
                     ELSE [id |-> id(s), nodes |-> sns(s).nodes \cup new(s)]]
           g == [s \in Session |-> Growing(id(s), sns(s).nodes, new(s))]
           o == [s \in Session |-> x.out[s] \o g[s]]
           y == AddSubscribeSourceNode(x, ns)
<1>1. \A s \in Session : /\ IsFiniteSet(sns(s).nodes) /\ IsFiniteSet(new(s))
                         /\ sns(s) = [id |-> sns(s).id, nodes |-> sns(s).nodes]
  <2> TAKE s \in Session
  <2>1. /\ IsFiniteSet(sns(s).nodes)
        /\ sns(s) = [id |-> sns(s).id, nodes |-> sns(s).nodes]
    BY DEF Fine, SubSets
  <2>2. IsFiniteSet(new(s))
    <3>1. new(s) \in SUBSET ns[s]
      OBVIOUS
    <3> QED BY <3>1, FS_Subset
  <2> QED BY <2>1, <2>2
<1>2. Output(o)
  <2>1. \A s \in Session : Carries(Growing(id(s), sns(s).nodes, new(s)), {})
    <3> TAKE s \in Session
    <3> HIDE DEF id, sns, new
    <3> QED BY <1>1, GrowingCarries
  <2> HIDE DEF id, sns, new
  <2>2. Output(g)
    BY <2>1 DEF Output
  <2> HIDE DEF g
  <2> QED BY <2>2, OutputConcat DEF Fine
<1>3. SubSets(f)
  <2>1. \A s \in Session : IsFiniteSet(sns(s).nodes \cup new(s))
    BY <1>1, FS_Union
  <2> HIDE DEF id, sns, new
  <2> QED BY <1>1, <2>1 DEF SubSets
<1>4. y = [x EXCEPT !.subSns = f, !.out = o]
  BY DEF AddSubscribeSourceNode, Fine, IsState
<1> HIDE DEF f, o
<1>5. /\ IsState(y) /\ y.out = o /\ y.r = x.r /\ y.peerFib = x.peerFib
      /\ y.table = x.table /\ y.subs = x.subs /\ y.subSns = f
      /\ y.peerSns = x.peerSns
  BY <1>4 DEF Fine, IsState
<1> HIDE DEF y
<1>6. Keeps(x, y)
  BY <1>2, <1>3, <1>5 DEF Keeps, Fine
<1> QED BY <1>6 DEF y

\* A node leaves the set of a session.
LEMMA RemoveSubscribeKeeps ==
  ASSUME NEW x, Fine(x), NEW s, NEW n
  PROVE  Keeps(x, RemoveSubscribeSourceNode(x, s, n))
<1> DEFINE old == x.subSns[s]
           y == RemoveSubscribeSourceNode(x, s, n)
           gone == SnsMsg(TRUE, old.id, {})
<1>1. CASE old.nodes = {}
  BY <1>1 DEF RemoveSubscribeSourceNode, Keeps
<1>2. CASE old.nodes # {} /\ old.nodes = {n}
  <2> DEFINE f == [x.subSns EXCEPT ![s] = NoSns]
             o == [x.out EXCEPT ![s] = Append(@, gone)]
  <2>1. y = [x EXCEPT !.subSns = f, !.out = o]
    BY <1>2 DEF RemoveSubscribeSourceNode, Fine, IsState
  <2>2. SubSets(f)
    BY FS_EmptySet DEF Fine, SubSets, NoSns
  <2>3. Output(o)
    <3>1. News(gone)
      BY DEF News, Kinds, SnsMsg
    <3>2. \A t \in Session : Carries(Append(x.out[t], gone), {}) /\ Carries(x.out[t], {})
      <4> TAKE t \in Session
      <4>1. Carries(x.out[t], {})
        BY DEF Fine, Output
      <4> HIDE DEF gone
      <4> QED BY <3>1, <4>1, CarriesAppend
    <3> HIDE DEF gone
    <3> QED BY <3>2 DEF Fine, Output
  <2> HIDE DEF f, o
  <2>4. /\ IsState(y) /\ y.out = o /\ y.r = x.r /\ y.peerFib = x.peerFib
        /\ y.table = x.table /\ y.subs = x.subs /\ y.subSns = f
        /\ y.peerSns = x.peerSns
    BY <2>1 DEF Fine, IsState
  <2> HIDE DEF y
  <2>5. Keeps(x, y)
    BY <2>2, <2>3, <2>4 DEF Keeps, Fine
  <2> QED BY <2>5 DEF y
<1>3. CASE old.nodes # {} /\ old.nodes # {n}
  <2> DEFINE f == [x.subSns EXCEPT ![s].nodes = @ \ {n}]
  <2>1. y = [x EXCEPT !.subSns = f]
    BY <1>3 DEF RemoveSubscribeSourceNode, Fine, IsState
  <2>2. SubSets(f)
    <3>1. \A t \in Session : IsFiniteSet(x.subSns[t].nodes \ {n})
      BY FS_RemoveElement DEF Fine, SubSets
    <3> QED BY <3>1 DEF Fine, SubSets
  <2> HIDE DEF f
  <2>3. /\ IsState(y) /\ y.out = x.out /\ y.r = x.r /\ y.peerFib = x.peerFib
        /\ y.table = x.table /\ y.subs = x.subs /\ y.subSns = f
        /\ y.peerSns = x.peerSns
    BY <2>1 DEF Fine, IsState
  <2> HIDE DEF y
  <2>4. Keeps(x, y)
    BY <2>2, <2>3 DEF Keeps, Fine
  <2> QED BY <2>4 DEF y
<1> QED BY <1>1, <1>2, <1>3

\* Nodes join the sets that pass on a set of another relay.
LEMMA AddPeerSnsKeeps ==
  ASSUME NEW x, Fine(x), NEW in, NEW ns, \A s \in Session : IsFiniteSet(ns[s])
  PROVE  Keeps(x, AddPeerSnsSourceNode(x, in, ns))
<1> DEFINE old(s) == IF in \in DOMAIN x.peerSns[s] THEN x.peerSns[s][in] ELSE {}
           new(s) == ns[s] \ old(s)
           f == [s \in Session |->
                   IF new(s) = {} THEN x.peerSns[s]
                   ELSE Put(x.peerSns[s], in, old(s) \cup new(s))]
           g == [s \in Session |-> Growing(PeerSnsId(s, in), old(s), new(s))]
           o == [s \in Session |-> x.out[s] \o g[s]]
           y == AddPeerSnsSourceNode(x, in, ns)
<1>1. \A s \in Session : IsFiniteSet(old(s)) /\ IsFiniteSet(new(s))
  <2> TAKE s \in Session
  <2>1. IsFiniteSet(old(s))
    BY FS_EmptySet DEF Fine, PeerSets
  <2>2. IsFiniteSet(new(s))
    <3>1. new(s) \in SUBSET ns[s]
      OBVIOUS
    <3> QED BY <3>1, FS_Subset
  <2> QED BY <2>1, <2>2
<1>2. Output(o)
  <2>1. \A s \in Session : Carries(Growing(PeerSnsId(s, in), old(s), new(s)), {})
    <3> TAKE s \in Session
    <3> HIDE DEF old, new
    <3> QED BY <1>1, GrowingCarries
  <2> HIDE DEF old, new
  <2>2. Output(g)
    BY <2>1 DEF Output
  <2> HIDE DEF g
  <2> QED BY <2>2, OutputConcat DEF Fine
<1>3. PeerSets(f)
  <2>1. \A s \in Session : IsFiniteSet(old(s) \cup new(s))
    BY <1>1, FS_Union
  <2> HIDE DEF old, new
  <2>2. \A s \in Session : \A k \in DOMAIN f[s] : IsFiniteSet(f[s][k])
    <3> TAKE s \in Session
    <3>1. \A k \in DOMAIN x.peerSns[s] : IsFiniteSet(x.peerSns[s][k])
      BY DEF Fine, PeerSets
    <3> QED BY <2>1, <3>1 DEF Put
  <2> QED BY <2>2 DEF PeerSets
<1>4. y = [x EXCEPT !.peerSns = f, !.out = o]
  BY DEF AddPeerSnsSourceNode, Fine, IsState
<1> HIDE DEF f, o
<1>5. /\ IsState(y) /\ y.out = o /\ y.r = x.r /\ y.peerFib = x.peerFib
      /\ y.table = x.table /\ y.subs = x.subs /\ y.subSns = x.subSns
      /\ y.peerSns = f
  BY <1>4 DEF Fine, IsState
<1> HIDE DEF y
<1>6. Keeps(x, y)
  BY <1>2, <1>3, <1>5 DEF Keeps, Fine
<1> QED BY <1>6 DEF y

\* Sets are withdrawn from sessions.
LEMMA RemovePeerSnsKeeps ==
  ASSUME NEW x, Fine(x), NEW T, NEW in
  PROVE  Keeps(x, RemovePeerSns(x, T, in))
<1> DEFINE held == {s \in T : in[s] \in DOMAIN x.peerSns[s]}
           m(s) == SnsMsg(TRUE, PeerSnsId(s, in[s]), {})
           f == [s \in Session |-> IF s \in held THEN Erase(x.peerSns[s], {in[s]})
                                   ELSE x.peerSns[s]]
           o == [s \in Session |-> IF s \in held THEN Append(x.out[s], m(s))
                                   ELSE x.out[s]]
           y == RemovePeerSns(x, T, in)
<1>1. \A s \in Session : Carries(x.out[s], {}) /\ Carries(Append(x.out[s], m(s)), {})
  <2> TAKE s \in Session
  <2>1. News(m(s))
    BY DEF News, Kinds, SnsMsg
  <2>2. Carries(x.out[s], {})
    BY DEF Fine, Output
  <2> HIDE DEF m
  <2> QED BY <2>1, <2>2, CarriesAppend
<1>2. Output(o)
  <2> HIDE DEF m, held
  <2> QED BY <1>1 DEF Output
<1>3. PeerSets(f)
  <2> HIDE DEF held
  <2>1. \A s \in Session : \A k \in DOMAIN f[s] : IsFiniteSet(f[s][k])
    <3> TAKE s \in Session
    <3>1. \A k \in DOMAIN x.peerSns[s] : IsFiniteSet(x.peerSns[s][k])
      BY DEF Fine, PeerSets
    <3> QED BY <3>1 DEF Erase, Restrict
  <2> QED BY <2>1 DEF PeerSets
<1>4. y = [x EXCEPT !.peerSns = f, !.out = o]
  BY DEF RemovePeerSns, Fine, IsState
<1> HIDE DEF f, o
<1>5. /\ IsState(y) /\ y.out = o /\ y.r = x.r /\ y.peerFib = x.peerFib
      /\ y.table = x.table /\ y.subs = x.subs /\ y.subSns = x.subSns
      /\ y.peerSns = f
  BY <1>4 DEF Fine, IsState
<1> HIDE DEF y
<1>6. Keeps(x, y)
  BY <1>2, <1>3, <1>5 DEF Keeps, Fine
<1> QED BY <1>6 DEF y

-----------------------------------------------------------------------------
(***************************************************************************)
(* The instances                                                           *)
(***************************************************************************)

\* The instance of SubscribeFlood has its own names for what it shares with this
\* module.
LEMMA SubsNames ==
  /\ Subs!Session = Session /\ Subs!NoOutput = NoOutput /\ Subs!NoSession = NoSession
  /\ \A f, k, v : Subs!Put(f, k, v) = Put(f, k, v)
  /\ \A f, K : Subs!Erase(f, K) = Erase(f, K)
  /\ \A S : Subs!Cardinality(S) = Cardinality(S)
<1>1. Subs!Session = Session /\ Subs!NoSession = NoSession
  BY DEF Subs!Session, Session, Subs!NoSession, NoSession
<1>2. Subs!NoOutput = NoOutput
  BY <1>1 DEF Subs!NoOutput, NoOutput
<1>3. \A f, k, v : Subs!Put(f, k, v) = Put(f, k, v)
  BY DEF Subs!Put, Put
<1>4. \A f, K : Subs!Erase(f, K) = Erase(f, K)
  BY DEF Subs!Erase, Erase, Subs!Restrict, Restrict
<1>5. \A S : Subs!Cardinality(S) = Cardinality(S)
  BY Zenon DEF Subs!Cardinality, Cardinality
<1> QED BY <1>1, <1>2, <1>3, <1>4, <1>5

\* The instance of NodeNetwork has its own names for what it shares with this
\* module.
LEMMA NodesNames ==
  /\ Nodes!Session = Session /\ Nodes!NoOutput = NoOutput /\ Nodes!NoSession = NoSession
  /\ \A f, k, v : Nodes!Put(f, k, v) = Put(f, k, v)
  /\ \A f, K : Nodes!Erase(f, K) = Erase(f, K)
  /\ \A S : Nodes!Cardinality(S) = Cardinality(S)
<1>1. Nodes!Session = Session /\ Nodes!NoSession = NoSession
  BY DEF Nodes!Session, Session, Nodes!NoSession, NoSession
<1>2. Nodes!NoOutput = NoOutput
  BY <1>1 DEF Nodes!NoOutput, NoOutput
<1>3. \A f, k, v : Nodes!Put(f, k, v) = Put(f, k, v)
  BY DEF Nodes!Put, Put
<1>4. \A f, K : Nodes!Erase(f, K) = Erase(f, K)
  BY DEF Nodes!Erase, Erase, Nodes!Restrict, Restrict
<1>5. \A S : Nodes!Cardinality(S) = Cardinality(S)
  BY Zenon DEF Nodes!Cardinality, Cardinality
<1> QED BY <1>1, <1>2, <1>3, <1>4, <1>5

-----------------------------------------------------------------------------
(***************************************************************************)
(* Subscriptions                                                           *)
(***************************************************************************)

\* Other subscriptions.
LEMMA SubsKeeps ==
  ASSUME NEW x, Fine(x), NEW sb, IsFiniteSet(DOMAIN sb)
  PROVE  Keeps(x, [x EXCEPT !.subs = sb])
<1> DEFINE y == [x EXCEPT !.subs = sb]
<1>1. /\ IsState(y) /\ y.out = x.out /\ y.r = x.r /\ y.peerFib = x.peerFib
      /\ y.table = x.table /\ y.subs = sb /\ y.subSns = x.subSns
      /\ y.peerSns = x.peerSns
  BY DEF Fine, IsState
<1> HIDE DEF y
<1>2. Keeps(x, y)
  BY <1>1 DEF Keeps, Fine
<1> QED BY <1>2 DEF y

\* What Keeps does not look at.
Flags(x, y) ==
    /\ IsState(y) /\ y.out = x.out /\ y.r = x.r /\ y.peerFib = x.peerFib
    /\ y.table = x.table /\ y.subs = x.subs /\ y.subSns = x.subSns
    /\ y.peerSns = x.peerSns

\* The other fields do not matter.
LEMMA FlagsKeep ==
  ASSUME NEW x, Fine(x), NEW y, Flags(x, y)
  PROVE  Keeps(x, y)
  BY DEF Flags, Keeps, Fine

\* The assignments of the handlers to those fields, one by one.
LEMMA FlagsOne ==
  ASSUME NEW x, IsState(x), NEW a
  PROVE  /\ Flags(x, [x EXCEPT !.handler = a])
         /\ Flags(x, [x EXCEPT !.announced = a])
         /\ Flags(x, [x EXCEPT !.attached = a])
         /\ Flags(x, [x EXCEPT !.clientFib = a])
         /\ Flags(x, [x EXCEPT !.failed = a])
<1>1. Flags(x, [x EXCEPT !.handler = a])
  BY DEF Flags, IsState
<1>2. Flags(x, [x EXCEPT !.announced = a])
  BY DEF Flags, IsState
<1>3. Flags(x, [x EXCEPT !.attached = a])
  BY DEF Flags, IsState
<1>4. Flags(x, [x EXCEPT !.clientFib = a])
  BY DEF Flags, IsState
<1>5. Flags(x, [x EXCEPT !.failed = a])
  BY DEF Flags, IsState
<1> QED BY <1>1, <1>2, <1>3, <1>4, <1>5

\* One assignment after the other.
LEMMA FlagsTwo ==
  ASSUME NEW x, NEW y, NEW z, Flags(x, y), Flags(y, z)
  PROVE  Flags(x, z)
  BY DEF Flags

\* The assignments of the handlers to those fields.
LEMMA FlagsSet ==
  ASSUME NEW x, Fine(x), NEW a, NEW b, NEW c
  PROVE  /\ Flags(x, [x EXCEPT !.handler = a, !.announced = b])
         /\ Flags(x, [x EXCEPT !.announced = a, !.handler = b, !.attached = c])
         /\ Flags(x, [x EXCEPT !.clientFib = a, !.attached = b])
         /\ Flags(x, [x EXCEPT !.failed = a, !.clientFib = b])
         /\ Flags(x, [x EXCEPT !.failed = a])
         /\ Flags(x, [x EXCEPT !.announced = a])
<1> DEFINE h == [x EXCEPT !.handler = a]
           n == [x EXCEPT !.announced = a]
           k == [n EXCEPT !.handler = b]
           f == [x EXCEPT !.clientFib = a]
           l == [x EXCEPT !.failed = a]
<1>1. Flags(x, h) /\ Flags(x, n) /\ Flags(x, f) /\ Flags(x, l)
  BY FlagsOne, Zenon DEF Fine
<1>2. IsState(h) /\ IsState(n) /\ IsState(f) /\ IsState(l)
  <2> HIDE DEF h, n, f, l
  <2> QED BY <1>1 DEF Flags
<1>3. Flags(x, k) /\ IsState(k)
  <2>1. Flags(n, k)
    <3> HIDE DEF n
    <3> QED BY <1>2, FlagsOne, Zenon
  <2> HIDE DEF n, k
  <2> QED BY <1>1, <2>1, FlagsTwo DEF Flags
<1>4. /\ Flags(h, [h EXCEPT !.announced = b])
      /\ Flags(k, [k EXCEPT !.attached = c])
      /\ Flags(f, [f EXCEPT !.attached = b])
      /\ Flags(l, [l EXCEPT !.clientFib = b])
  <2> HIDE DEF h, k, f, l
  <2> QED BY <1>2, <1>3, FlagsOne, Zenon
<1>5. /\ Flags(x, [h EXCEPT !.announced = b])
      /\ Flags(x, [k EXCEPT !.attached = c])
      /\ Flags(x, [f EXCEPT !.attached = b])
      /\ Flags(x, [l EXCEPT !.clientFib = b])
  <2> HIDE DEF h, k, f, l
  <2> QED BY <1>1, <1>3, <1>4, FlagsTwo, Zenon
<1>6. /\ [h EXCEPT !.announced = b] = [x EXCEPT !.handler = a, !.announced = b]
      /\ [k EXCEPT !.attached = c] =
            [x EXCEPT !.announced = a, !.handler = b, !.attached = c]
      /\ [f EXCEPT !.attached = b] = [x EXCEPT !.clientFib = a, !.attached = b]
      /\ [l EXCEPT !.clientFib = b] = [x EXCEPT !.failed = a, !.clientFib = b]
  OBVIOUS
<1>7. Flags(x, n) /\ Flags(x, l)
  BY <1>1
<1> HIDE DEF h, k, f
<1> QED BY <1>5, <1>6, <1>7, Zenon

\* Subscriptions are flooded as news.
LEMMA FloodOutput ==
  ASSUME NEW r, NEW st, NEW key, NEW info, NEW withdraw, NEW except
  PROVE  Output(Subs!Flood(r, st, key, info, withdraw, except))
<1> DEFINE o == Subs!Flood(r, st, key, info, withdraw, except)
<1>1. o = [s \in Session |-> o[s]]
  BY SubsNames DEF Subs!Flood
<1>2. \A s \in Session : Carries(o[s], {})
  <2> TAKE s \in Session
  <2>1. o[s] = <<>> \/ \E i : o[s] = <<Subs!SubMsg(withdraw, key, i)>>
    BY SubsNames DEF Subs!Flood
  <2>2. \A i : News(Subs!SubMsg(withdraw, key, i))
    BY DEF News, Kinds, Subs!SubMsg
  <2> HIDE DEF o
  <2> QED BY <2>1, <2>2, CarriesNone, CarriesOne
<1> HIDE DEF o
<1>3. Output(o)
  BY <1>1, <1>2 DEF Output
<1> QED BY <1>3 DEF o

\* An erased map has fewer keys.
LEMMA EraseFinite ==
  ASSUME NEW f, IsFiniteSet(DOMAIN f), NEW K
  PROVE  IsFiniteSet(DOMAIN Erase(f, K))
<1>1. DOMAIN Erase(f, K) \in SUBSET DOMAIN f
  BY DEF Erase, Restrict
<1> QED BY <1>1, FS_Subset

\* A map with one more key.
LEMMA PutFinite ==
  ASSUME NEW f, IsFiniteSet(DOMAIN f), NEW k, NEW v
  PROVE  IsFiniteSet(DOMAIN Put(f, k, v))
<1>1. DOMAIN Put(f, k, v) = DOMAIN f \cup {k}
  BY DEF Put
<1> QED BY <1>1, FS_AddElement

\* The relay's own subscription is withdrawn.
LEMMA ClientUnsubscribeResult ==
  ASSUME NEW r, NEW sb, IsFiniteSet(DOMAIN sb), NEW st, NEW t
  PROVE  LET res == Subs!ClientUnsubscribe(r, sb, st, t)
         IN  IsFiniteSet(DOMAIN res.subs) /\ Output(res.out)
<1> DEFINE key == <<t, r>>
           res == Subs!ClientUnsubscribe(r, sb, st, t)
           o == Subs!Flood(r, st, key, sb[key], TRUE, NoSession)
<1>1. Output(o) /\ Output(NoOutput)
  BY FloodOutput, OutputNone
<1>2. IsFiniteSet(DOMAIN Erase(sb, {key}))
  BY EraseFinite
<1>3. \/ res.subs = Erase(sb, {key}) /\ res.out = o
      \/ res.subs = sb /\ res.out = NoOutput
  BY SubsNames DEF Subs!ClientUnsubscribe, Subs!Result, Subs!RemoveSubscribe
<1> HIDE DEF res, o, key
<1> QED BY <1>1, <1>2, <1>3 DEF res

\* RemoveOrPausePublisherSubscribe keeps peer_fib_.
LEMMA RemoveOrPauseKeeps ==
  ASSUME NEW x, Fine(x)
  PROVE  Keeps(x, RemoveOrPausePublisherSubscribe(x))
<1> DEFINE own == Subs!ClientUnsubscribe(x.r, x.subs, x.st, TheTrack)
           y == [x EXCEPT !.subs = own.subs]
           z == RemoveOrPausePublisherSubscribe(x)
<1>1. IsFiniteSet(DOMAIN own.subs) /\ Output(own.out)
  BY ClientUnsubscribeResult DEF Fine
<1>2. z = x \/ z = SendAll(y, own.out)
  BY DEF RemoveOrPausePublisherSubscribe
<1>3. Keeps(x, x)
  BY DEF Keeps
<1> HIDE DEF own
<1>4. Keeps(x, y)
  BY <1>1, SubsKeeps
<1> HIDE DEF y, z
<1>5. Keeps(x, SendAll(y, own.out))
  <2>1. Fine(y)
    BY <1>4 DEF Keeps
  <2>2. Keeps(y, SendAll(y, own.out))
    BY <1>1, <2>1, SendAllKeeps
  <2> QED BY <1>4, <2>2, KeepsTwo
<1>6. Keeps(x, z)
  BY <1>2, <1>3, <1>5
<1> QED BY <1>6 DEF z

\* Match keeps peer_fib_.
LEMMA MatchKeeps ==
  ASSUME NEW x, Fine(x), NEW ns, IsFiniteSet(ns)
  PROVE  Keeps(x, Match(x, ns))
<1> DEFINE b == BestOn(x, ns)
           y == AddSubscribeSourceNode(x, b)
           z == Match(x, ns)
<1>1. \A s \in Session : IsFiniteSet(b[s])
  <2> TAKE s \in Session
  <2>1. b[s] \in SUBSET ns
    BY DEF BestOn
  <2> QED BY <2>1, FS_Subset
<1> HIDE DEF b
<1>2. Keeps(x, y)
  BY <1>1, AddSubscribeKeeps
<1> HIDE DEF y
<1>3. z = [y EXCEPT !.attached = @ \/ ns # {}]
  BY DEF Match, b, y
<1>4. Fine(y)
  BY <1>2 DEF Keeps
<1>5. Flags(y, z)
  <2> HIDE DEF z
  <2> QED BY <1>3, <1>4 DEF Flags, Fine, IsState
<1> HIDE DEF z
<1>6. Keeps(y, z)
  BY <1>4, <1>5, FlagsKeep
<1>7. Keeps(x, z)
  BY <1>2, <1>6, KeepsTwo
<1> QED BY <1>7 DEF z

\* A subscription that is advertised.
LEMMA AdvertisedKeeps ==
  ASSUME NEW x, Fine(x), NEW s, NEW m
  PROVE  Keeps(x, Advertised(x, s, m))
<1> DEFINE known == Subs!Advertised(x.r, s, x.subs, x.st, m)
           info == [seq |-> m.seq, data |-> m.data]
           w == [x EXCEPT !.subs = known.subs]
           y == SendAll(w, known.out)
           n == m.key[2]
           z == Match(y, {n})
           a == Advertised(x, s, m)
<1>1. IsFiniteSet(DOMAIN known.subs) /\ Output(known.out)
  <2>1. /\ known.subs = Put(x.subs, m.key, info) \/ known.subs = x.subs
        /\ \/ known.out = Subs!Flood(x.r, x.st, m.key, info, FALSE, s)
           \/ known.out = NoOutput
    BY SubsNames DEF Subs!Advertised, Subs!Result, Subs!AddSubscribe
  <2>2. IsFiniteSet(DOMAIN x.subs) /\ IsFiniteSet(DOMAIN Put(x.subs, m.key, info))
    BY PutFinite DEF Fine
  <2>3. Output(Subs!Flood(x.r, x.st, m.key, info, FALSE, s)) /\ Output(NoOutput)
    BY FloodOutput, OutputNone
  <2> HIDE DEF known, info
  <2> QED BY <2>1, <2>2, <2>3
<1>2. \/ a = y \/ a = z
      \/ \E v : a = [z EXCEPT !.clientFib = v]
  BY DEF Advertised
<1> HIDE DEF known, a
<1>3. Keeps(x, w)
  BY <1>1, SubsKeeps
<1> HIDE DEF w
<1>4. Keeps(x, y)
  <2>1. Fine(w)
    BY <1>3 DEF Keeps
  <2>2. Keeps(w, y)
    BY <1>1, <2>1, SendAllKeeps
  <2> HIDE DEF y
  <2> QED BY <1>3, <2>2, KeepsTwo
<1> HIDE DEF y
<1>5. Keeps(x, z)
  <2>1. Fine(y) /\ IsFiniteSet({n})
    BY <1>4, FS_Singleton DEF Keeps
  <2>2. Keeps(y, z)
    BY <2>1, MatchKeeps
  <2> HIDE DEF z
  <2> QED BY <1>4, <2>2, KeepsTwo
<1> HIDE DEF z
<1>6. ASSUME NEW v PROVE Keeps(x, [z EXCEPT !.clientFib = v])
  <2> DEFINE u == [z EXCEPT !.clientFib = v]
  <2>1. Fine(z)
    BY <1>5 DEF Keeps
  <2>2. Flags(z, u)
    BY <2>1 DEF Flags, Fine, IsState
  <2> HIDE DEF u
  <2>3. Keeps(z, u)
    BY <2>1, <2>2, FlagsKeep
  <2>4. Keeps(x, u)
    BY <1>5, <2>3, KeepsTwo
  <2> QED BY <2>4 DEF u
<1>7. Keeps(x, a)
  BY <1>2, <1>4, <1>5, <1>6
<1> QED BY <1>7 DEF a

\* A subscription that is withdrawn.
LEMMA WithdrawnKeeps ==
  ASSUME NEW x, Fine(x), NEW s, NEW m
  PROVE  Keeps(x, Withdrawn(x, s, m))
<1> DEFINE info == [seq |-> m.seq, data |-> m.data]
           y == [x EXCEPT !.subs = Erase(@, {m.key})]
           o == Subs!Flood(x.r, x.st, m.key, info, TRUE, s)
           z == IF m.key \in DOMAIN x.subs THEN SendAll(y, o) ELSE y
           best == Best(x, m.key[2])
           w == RemoveSubscribeSourceNode(z, best, m.key[2])
           fib == Erase(w.clientFib, {s})
           last == z.subSns[best].nodes # {} /\ w.subSns[best].nodes = {}
           u == [w EXCEPT !.clientFib = fib, !.attached = @ /\ DOMAIN fib # {}]
           v == CASE best = NoSession -> z
                  [] best # NoSession /\ last -> u
                  [] OTHER -> w
           a == RemoveOrPausePublisherSubscribe(v)
<1>1. Keeps(x, y)
  <2>1. IsFiniteSet(DOMAIN Erase(x.subs, {m.key}))
    BY EraseFinite DEF Fine
  <2>2. Keeps(x, [x EXCEPT !.subs = Erase(x.subs, {m.key})])
    BY <2>1, SubsKeeps
  <2>3. y = [x EXCEPT !.subs = Erase(x.subs, {m.key})]
    BY DEF Fine, IsState
  <2> QED BY <2>2, <2>3
<1>2. a = Withdrawn(x, s, m)
  BY Zenon DEF Withdrawn
<1>3. Keeps(x, z)
  <2> HIDE DEF y
  <2>1. Output(o) /\ Fine(y)
    BY <1>1, FloodOutput DEF Keeps
  <2> HIDE DEF o
  <2>2. Keeps(y, SendAll(y, o))
    BY <2>1, SendAllKeeps
  <2>3. Keeps(x, SendAll(y, o))
    BY <1>1, <2>2, KeepsTwo
  <2> QED BY <1>1, <2>3
<1>4. Keeps(x, w)
  <2> HIDE DEF z
  <2>1. Fine(z)
    BY <1>3 DEF Keeps
  <2>2. Keeps(z, w)
    BY <2>1, RemoveSubscribeKeeps
  <2> HIDE DEF w
  <2> QED BY <1>3, <2>2, KeepsTwo
<1> HIDE DEF z, w
<1>5. Keeps(x, u)
  <2>1. Fine(w)
    BY <1>4 DEF Keeps
  <2> HIDE DEF fib
  <2>2. Flags(w, u)
    BY <2>1, FlagsSet, Zenon
  <2> HIDE DEF u
  <2>3. Keeps(w, u)
    BY <2>1, <2>2, FlagsKeep
  <2> QED BY <1>4, <2>3, KeepsTwo
<1> HIDE DEF u, best, last
<1>6. Keeps(x, v)
  BY <1>3, <1>4, <1>5
<1> HIDE DEF v
<1>7. Keeps(x, a)
  <2>1. Fine(v)
    BY <1>6 DEF Keeps
  <2>2. Keeps(v, a)
    BY <2>1, RemoveOrPauseKeeps
  <2> HIDE DEF a
  <2> QED BY <1>6, <2>2, KeepsTwo
<1> HIDE DEF a
<1> QED BY <1>2, <1>7

\* The publisher's announcement.
LEMMA ClientAnnounceKeeps ==
  ASSUME NEW x, Fine(x)
  PROVE  Keeps(x, ClientAnnounce(x))
<1> DEFINE w == [x EXCEPT !.handler = TRUE, !.announced = TRUE]
           o == [s \in Session |-> <<AnnounceMsg>>]
           y == SendAll(w, o)
           ns == {k[2] : k \in DOMAIN x.subs} \ {x.r}
           z == Match(y, ns)
           fib == [k \in DOMAIN z.clientFib \cup Changed(y, z) |->
                     IF k \in DOMAIN z.clientFib THEN z.clientFib[k]
                     ELSE Egress(k, z.subSns[k].id)]
           a == [z EXCEPT !.clientFib = fib]
<1>1. a = ClientAnnounce(x)
  BY Zenon DEF ClientAnnounce
<1>2. Keeps(x, w)
  <2>1. Flags(x, w)
    BY FlagsSet, Zenon
  <2> HIDE DEF w
  <2> QED BY <2>1, FlagsKeep
<1>3. Keeps(x, y)
  <2>1. Output(o)
    <3>1. News(AnnounceMsg)
      BY DEF News, Kinds, AnnounceMsg
    <3>2. Carries(<<AnnounceMsg>>, {})
      BY <3>1, CarriesOne
    <3> QED BY <3>2 DEF Output
  <2> HIDE DEF w, o
  <2>2. Fine(w)
    BY <1>2 DEF Keeps
  <2>3. Keeps(w, y)
    BY <2>1, <2>2, SendAllKeeps
  <2> HIDE DEF y
  <2> QED BY <1>2, <2>3, KeepsTwo
<1>4. IsFiniteSet(ns)
  <2> DEFINE D == DOMAIN x.subs
             I == {k[2] : k \in D}
             f == [k \in D |-> k[2]]
  <2>1. f \in Surjection(D, I)
    BY DEF Surjection
  <2>2. IsFiniteSet(D)
    BY DEF Fine
  <2> HIDE DEF D, I, f
  <2>3. IsFiniteSet(I)
    BY <2>1, <2>2, FS_Surjection
  <2>4. IsFiniteSet(I \ {x.r})
    BY <2>3, FS_RemoveElement
  <2> QED BY <2>4 DEF I, D
<1> HIDE DEF y, ns
<1>5. Keeps(x, z)
  <2>1. Fine(y)
    BY <1>3 DEF Keeps
  <2>2. Keeps(y, z)
    BY <1>4, <2>1, MatchKeeps
  <2> HIDE DEF z
  <2> QED BY <1>3, <2>2, KeepsTwo
<1> HIDE DEF z, fib
<1>6. Keeps(x, a)
  <2>1. Fine(z)
    BY <1>5 DEF Keeps
  <2>2. Flags(z, a)
    BY <2>1 DEF Flags, Fine, IsState
  <2> HIDE DEF a
  <2>3. Keeps(z, a)
    BY <2>1, <2>2, FlagsKeep
  <2> QED BY <1>5, <2>3, KeepsTwo
<1> HIDE DEF a
<1> QED BY <1>1, <1>6

\* An announcement of another relay.
LEMMA AnnouncedKeeps ==
  ASSUME NEW x, Fine(x), NEW s
  PROVE  Keeps(x, Announced(x, s))
<1> DEFINE w == [x EXCEPT !.announced = TRUE, !.handler = TRUE, !.attached = FALSE]
           o == [t \in Session |-> IF t = s THEN <<>> ELSE <<AnnounceMsg>>]
           y == SendAll(w, o)
<1>1. Announced(x, s) = IF x.announced THEN x ELSE y
  BY Zenon DEF Announced
<1>2. Keeps(x, w)
  <2>1. Flags(x, w)
    BY FlagsSet, Zenon
  <2> HIDE DEF w
  <2> QED BY <2>1, FlagsKeep
<1>3. Keeps(x, y)
  <2>1. Output(o)
    <3>1. News(AnnounceMsg)
      BY DEF News, Kinds, AnnounceMsg
    <3>2. Carries(<<AnnounceMsg>>, {}) /\ Carries(<<>>, {})
      BY <3>1, CarriesOne, CarriesNone
    <3> QED BY <3>2 DEF Output
  <2> HIDE DEF w, o
  <2>2. Fine(w)
    BY <1>2 DEF Keeps
  <2>3. Keeps(w, y)
    BY <2>1, <2>2, SendAllKeeps
  <2> HIDE DEF y
  <2> QED BY <1>2, <2>3, KeepsTwo
<1>4. Keeps(x, x)
  BY DEF Keeps
<1> HIDE DEF y
<1> QED BY <1>1, <1>3, <1>4

-----------------------------------------------------------------------------
(***************************************************************************)
(* Node sets                                                               *)
(***************************************************************************)

\* An operation from x to y adds no entry of peer_fib_ but those of new.
Adds(x, y, new) ==
    Fine(y) /\ y.r = x.r /\ DOMAIN y.peerFib \subseteq DOMAIN x.peerFib \cup new

\* peer_fib_ is assigned after operations that leave it alone.
LEMMA FibAdds ==
  ASSUME NEW x, NEW y, Keeps(x, y), NEW fib, NEW new,
         DOMAIN fib \subseteq DOMAIN x.peerFib \cup new
  PROVE  Adds(x, [y EXCEPT !.peerFib = fib], new)
<1> DEFINE z == [y EXCEPT !.peerFib = fib]
<1>1. /\ IsState(z) /\ z.out = y.out /\ z.r = y.r /\ z.peerFib = fib
      /\ z.table = y.table /\ z.subs = y.subs /\ z.subSns = y.subSns
      /\ z.peerSns = y.peerSns
  BY DEF Keeps, Fine, IsState
<1> HIDE DEF z
<1>2. Adds(x, z, new)
  BY <1>1 DEF Keeps, Adds, Fine
<1> QED BY <1>2 DEF z

\* A set that is advertised.
LEMMA SnsAdvertisedAdds ==
  ASSUME NEW x, Fine(x), NEW s, NEW m, IsFiniteSet(m.nodes)
  PROVE  Adds(x, SnsAdvertised(x, s, m), {<<s, m.id>>})
<1> DEFINE in == <<s, m.id>>
           old == IF in \in DOMAIN x.peerFib THEN x.peerFib[in] ELSE EmptyMap
           ns == BestOn(x, m.nodes \ {x.r})
           keys == {t \in Session : ns[t] # {}} \cup {k \in {Self} : x.r \in m.nodes}
           stale == {old[k].session : k \in DOMAIN old \ (keys \cup {Self})} \ {Expired}
           w == AddPeerSnsSourceNode(x, in, ns)
           y == RemovePeerSns(w, stale, [t \in Session |-> <<t, m.id>>])
           entry == [k \in keys |-> IF k = Self THEN Egress(Expired, NoId)
                                    ELSE Egress(k, PeerSnsId(k, in))]
           z == [y EXCEPT !.peerFib = Put(@, in, entry)]
<1>1. z = SnsAdvertised(x, s, m)
  BY Zenon DEF SnsAdvertised
<1>2. \A t \in Session : IsFiniteSet(ns[t])
  <2> TAKE t \in Session
  <2>1. ns[t] \in SUBSET m.nodes
    BY DEF BestOn
  <2> QED BY <2>1, FS_Subset
<1> HIDE DEF ns
<1>3. Keeps(x, w)
  BY <1>2, AddPeerSnsKeeps
<1> HIDE DEF w, stale
<1>4. Keeps(x, y)
  <2>1. Fine(w)
    BY <1>3 DEF Keeps
  <2>2. Keeps(w, y)
    BY <2>1, RemovePeerSnsKeeps
  <2> HIDE DEF y
  <2> QED BY <1>3, <2>2, KeepsTwo
<1> HIDE DEF y, entry
<1>5. DOMAIN Put(y.peerFib, in, entry) \subseteq DOMAIN x.peerFib \cup {in}
  BY <1>4 DEF Keeps, Put
<1>6. z = [y EXCEPT !.peerFib = Put(y.peerFib, in, entry)]
  BY <1>4 DEF Keeps, Fine, IsState
<1>7. Adds(x, [y EXCEPT !.peerFib = Put(y.peerFib, in, entry)], {in})
  BY <1>4, <1>5, FibAdds
<1> HIDE DEF z
<1> QED BY <1>1, <1>6, <1>7

\* A set that is withdrawn.
LEMMA SnsWithdrawnAdds ==
  ASSUME NEW x, Fine(x), NEW s, NEW m
  PROVE  Adds(x, SnsWithdrawn(x, s, m), {})
<1> DEFINE in == <<s, m.id>>
           entries == IF in \in DOMAIN x.peerFib THEN x.peerFib[in] ELSE EmptyMap
           sessions == {entries[k].session : k \in DOMAIN entries \ {Self}}
           w == [x EXCEPT !.failed = TRUE]
           y == RemovePeerSns(x, sessions, [t \in Session |-> in])
           z == [y EXCEPT !.peerFib = Erase(@, {in})]
<1>1. SnsWithdrawn(x, s, m) = IF Expired \in sessions THEN w ELSE z
  BY Zenon DEF SnsWithdrawn
<1>2. Keeps(x, w)
  <2>1. Flags(x, w)
    BY FlagsSet, Zenon
  <2> HIDE DEF w
  <2> QED BY <2>1, FlagsKeep
<1>3. Adds(x, w, {})
  <2> HIDE DEF w
  <2> QED BY <1>2 DEF Keeps, Adds
<1> HIDE DEF sessions
<1>4. Keeps(x, y)
  BY RemovePeerSnsKeeps
<1> HIDE DEF y
<1>5. DOMAIN Erase(y.peerFib, {in}) \subseteq DOMAIN x.peerFib \cup {}
  BY <1>4 DEF Keeps, Erase, Restrict
<1>6. z = [y EXCEPT !.peerFib = Erase(y.peerFib, {in})]
  BY <1>4 DEF Keeps, Fine, IsState
<1>7. Adds(x, [y EXCEPT !.peerFib = Erase(y.peerFib, {in})], {})
  BY <1>4, <1>5, FibAdds
<1> HIDE DEF w, z
<1> QED BY <1>1, <1>3, <1>6, <1>7

-----------------------------------------------------------------------------
(***************************************************************************)
(* Nodes and sessions                                                      *)
(***************************************************************************)

\* The table of nodes has finitely many entries.
Small(t) == IsFiniteSet(DOMAIN t.nodes)

\* Choosing a best session changes no entry.
LEMMA SelectSmall ==
  ASSUME NEW a, NEW b, NEW c, NEW n, IsFiniteSet(DOMAIN a)
  PROVE  Small(Nodes!SelectBestNode([nodes |-> a, best |-> b, bySession |-> c], n).table)
<1> DEFINE t == [nodes |-> a, best |-> b, bySession |-> c]
           u == Nodes!SelectBestNode(t, n).table
<1>1. \E v : u = [t EXCEPT !.best = v] \/ u = t
  BY DEF Nodes!SelectBestNode
<1> HIDE DEF u
<1>2. u.nodes = a
  BY <1>1
<1>3. Small(u)
  BY <1>2 DEF Small
<1> QED BY <1>3 DEF u

\* An entry that is added.
LEMMA AddNodeSmall ==
  ASSUME NEW t, Small(t), NEW s, NEW n, NEW info
  PROVE  Small(Nodes!AddNode(t, s, n, info).table)
<1>1. IsFiniteSet(DOMAIN Put(t.nodes, <<n, s>>, info))
  BY PutFinite DEF Small
<1>2. \E b, c : Nodes!AddNode(t, s, n, info) =
         Nodes!SelectBestNode([nodes |-> Put(t.nodes, <<n, s>>, info),
                               best |-> b, bySession |-> c], n)
  BY NodesNames DEF Nodes!AddNode
<1> QED BY <1>1, <1>2, SelectSmall

\* An entry that is removed.
LEMMA RemoveNodeSmall ==
  ASSUME NEW t, Small(t), NEW s, NEW n
  PROVE  Small(Nodes!RemoveNode(t, s, n))
<1> DEFINE a == Erase(t.nodes, {<<n, s>>})
           u == Nodes!RemoveNode(t, s, n)
<1>1. IsFiniteSet(DOMAIN a)
  BY EraseFinite DEF Small
<1>2. \E b, c : \/ u = [nodes |-> a, best |-> b, bySession |-> c]
                \/ u = Nodes!SelectBestNode([nodes |-> a, best |-> b,
                                             bySession |-> c], n).table
  BY NodesNames DEF Nodes!RemoveNode
<1> HIDE DEF a, u
<1>3. Small(u)
  BY <1>1, <1>2, SelectSmall DEF Small
<1> QED BY <1>3 DEF u

\* The entries of a session are purged.
LEMMA PurgeSmall ==
  ASSUME NEW t, Small(t), NEW s
  PROVE  Small(Nodes!PurgePeerSessionInfo(t, s))
<1> DEFINE K == Nodes!IdsOf(t, s) \X {s}
           a == Erase(t.nodes, K)
           u == Nodes!PurgePeerSessionInfo(t, s)
<1>1. IsFiniteSet(DOMAIN a)
  <2> HIDE DEF K
  <2> QED BY EraseFinite DEF Small
<1>2. \E b, c : u = [nodes |-> a, best |-> b, bySession |-> c]
  BY NodesNames DEF Nodes!PurgePeerSessionInfo
<1> HIDE DEF a, u
<1>3. Small(u)
  BY <1>1, <1>2 DEF Small
<1> QED BY <1>3 DEF u

\* Node information goes out as news.
LEMMA PropagateNews ==
  ASSUME NEW rem, NEW n, NEW info, NEW withdraw
  PROVE  Output(Nodes!PropagateNodeInfo(rem, n, info, withdraw))
<1> DEFINE o == Nodes!PropagateNodeInfo(rem, n, info, withdraw)
           m == Nodes!NodeMsg(withdraw, n, info)
<1>1. o = [s \in Session |-> o[s]]
  BY NodesNames DEF Nodes!PropagateNodeInfo
<1>2. \A s \in Session : o[s] = <<>> \/ o[s] = <<m>>
  BY NodesNames DEF Nodes!PropagateNodeInfo
<1>3. News(m)
  BY DEF News, Kinds, Nodes!NodeMsg
<1> HIDE DEF o, m
<1>4. Output(o)
  BY <1>1, <1>2, <1>3, CarriesNone, CarriesOne DEF Output
<1> QED BY <1>4 DEF o

\* NodeReceived of NodeNetwork.
LEMMA NodeReceivedResult ==
  ASSUME NEW r, Small(table[r]), NEW s, NEW rem, NEW n, NEW info, NEW withdraw \in BOOLEAN
  PROVE  LET res == Nodes!NodeReceived(r, s, rem, n, info, withdraw)
         IN  Small(res.table) /\ Output(res.out)
<1> DEFINE res == Nodes!NodeReceived(r, s, rem, n, info, withdraw)
           p(i) == Nodes!PropagateNodeInfo(rem, n, i, withdraw)
           A == Nodes!AddNode(table[r], s, n, info).table
           R == Nodes!RemoveNode(table[r], s, n)
<1>1. Small(A) /\ Small(R)
  BY AddNodeSmall, RemoveNodeSmall
<1>2. Output(NoOutput) /\ \A i : Output(p(i))
  BY OutputNone, PropagateNews
<1>3. res.table = A \/ res.table = R
  BY DEF Nodes!NodeReceived
<1>4. res.out = NoOutput \/ \E i : res.out = p(i)
  BY NodesNames DEF Nodes!NodeReceived
<1> HIDE DEF res, A, R, p
<1>5. Small(res.table) /\ Output(res.out)
  BY <1>1, <1>2, <1>3, <1>4
<1> QED BY <1>5 DEF res

\* SessionLost of NodeNetwork.
LEMMA NodesLostResult ==
  ASSUME NEW r, Small(table[r]), NEW s
  PROVE  LET res == Nodes!SessionLost(r, s)
         IN  Small(res.table) /\ Output(res.out)
<1> DEFINE res == Nodes!SessionLost(r, s)
           P == Nodes!PurgePeerSessionInfo(table[r], s)
<1>1. Small(P)
  BY PurgeSmall
<1>2. res.table = P
  BY DEF Nodes!SessionLost
<1>3. \/ res.out = NoOutput
      \/ \E n, i, w : res.out = Nodes!PropagateNodeInfo(remote[r], n, i, w)
  BY NodesNames DEF Nodes!SessionLost
<1> HIDE DEF res, P
<1>4. Small(res.table) /\ Output(res.out)
  BY <1>1, <1>2, <1>3, OutputNone, PropagateNews
<1> QED BY <1>4 DEF res

\* The nodes that a new peer is told of.
LEMMA NodeSyncCarries ==
  ASSUME NEW r, NEW s, NEW t, Small(t), NEW n
  PROVE  Carries(Nodes!InfoBaseSyncPeer(r, s, t, n), {})
<1> DEFINE keys == {k \in DOMAIN t.nodes :
                      /\ k[1] \notin {r, n} /\ k[2] # s
                      /\ n \notin Nodes!ToSet(t.nodes[k].path)}
           c == Cardinality(keys)
           q == Nodes!InfoBaseSyncPeer(r, s, t, n)
<1>1. c \in Nat
  <2>1. keys \in SUBSET DOMAIN t.nodes
    OBVIOUS
  <2> HIDE DEF keys
  <2>2. IsFiniteSet(keys)
    BY <2>1, FS_Subset DEF Small
  <2> QED BY <2>2, FS_CardinalityType
<1>2. /\ q = [i \in 1..c |-> q[i]]
      /\ \A i \in 1..c : \E k, v : q[i] = Nodes!NodeMsg(FALSE, k, v)
  <2> DEFINE Before(x, y) == x[1] < y[1] \/ (x[1] = y[1] /\ x[2] < y[2])
             Key(i) == CHOOSE k \in keys :
                          Nodes!Cardinality({j \in keys : Before(j, k)}) = i - 1
             id(i) == Key(i)[1]
             via(i) == Nodes!Via(t.nodes[Key(i)], r, s)
  <2>1. q = [i \in 1..Nodes!Cardinality(keys) |-> Nodes!NodeMsg(FALSE, id(i), via(i))]
    BY Zenon DEF Nodes!InfoBaseSyncPeer
  <2>2. Nodes!Cardinality(keys) = c
    <3> HIDE DEF keys
    <3> QED BY NodesNames
  <2> HIDE DEF q, c, id, via
  <2> QED BY <2>1, <2>2
<1>3. \A k, v : News(Nodes!NodeMsg(FALSE, k, v))
  BY DEF News, Kinds, Nodes!NodeMsg
<1> HIDE DEF c, q
<1>4. Carries(q, {})
  BY <1>1, <1>2, <1>3, CarriesFcn
<1> QED BY <1>4 DEF q

\* The subscriptions that a new peer is told of.
LEMMA SubSyncResult ==
  ASSUME NEW r, NEW s, NEW sb, IsFiniteSet(DOMAIN sb), NEW n
  PROVE  LET res == Subs!InfoBaseSyncPeer(r, s, sb, n)
         IN  IsFiniteSet(DOMAIN res.subs) /\ Carries(res.out, {})
<1> DEFINE keys == {k \in DOMAIN sb : k[2] # n}
           c == Cardinality(keys)
           res == Subs!InfoBaseSyncPeer(r, s, sb, n)
           q == res.out
<1>1. c \in Nat
  <2>1. keys \in SUBSET DOMAIN sb
    OBVIOUS
  <2> HIDE DEF keys
  <2>2. IsFiniteSet(keys)
    BY <2>1, FS_Subset
  <2> QED BY <2>2, FS_CardinalityType
<1>2. /\ q = [i \in 1..c |-> q[i]]
      /\ \A i \in 1..c : \E k, v : q[i] = Subs!SubMsg(FALSE, k, v)
      /\ DOMAIN res.subs = DOMAIN sb
  <2> DEFINE bump(k) == IF k \in keys /\ k[2] = r
                        THEN [sb[k] EXCEPT !.seq = (@ + 1) % SeqModulus] ELSE sb[k]
             bumped == [k \in DOMAIN sb |-> bump(k)]
             Less(x, y) == x[1] < y[1] \/ (x[1] = y[1] /\ x[2] < y[2])
             Key(i) == CHOOSE k \in keys :
                          Subs!Cardinality({j \in keys : Less(j, k)}) = i - 1
             now(i) == bumped[Key(i)]
             o == [i \in 1..Subs!Cardinality(keys) |-> Subs!SubMsg(FALSE, Key(i), now(i))]
  <2>1. res = [subs |-> bumped, out |-> o]
    BY Zenon DEF Subs!InfoBaseSyncPeer, Subs!Result
  <2>2. Subs!Cardinality(keys) = c
    <3> HIDE DEF keys
    <3> QED BY SubsNames
  <2>3. DOMAIN bumped = DOMAIN sb
    <3> HIDE DEF bump
    <3> QED OBVIOUS
  <2> HIDE DEF res, c, bumped, Key, now
  <2>4. q = o /\ res.subs = bumped
    <3> HIDE DEF o
    <3> QED BY <2>1
  <2> QED BY <2>2, <2>3, <2>4
<1>3. \A k, v : News(Subs!SubMsg(FALSE, k, v))
  BY DEF News, Kinds, Subs!SubMsg
<1> HIDE DEF c, res, q
<1>4. Carries(q, {})
  BY <1>1, <1>2, <1>3, CarriesFcn
<1>5. IsFiniteSet(DOMAIN res.subs)
  BY <1>2
<1> QED BY <1>4, <1>5 DEF res, q

\* Another table of nodes.
LEMMA TableKeeps ==
  ASSUME NEW x, Fine(x), NEW t, Small(t)
  PROVE  Keeps(x, [x EXCEPT !.table = t])
<1> DEFINE y == [x EXCEPT !.table = t]
<1>1. /\ IsState(y) /\ y.out = x.out /\ y.r = x.r /\ y.peerFib = x.peerFib
      /\ y.table = t /\ y.subs = x.subs /\ y.subSns = x.subSns
      /\ y.peerSns = x.peerSns
  BY DEF Fine, IsState
<1> HIDE DEF y
<1>2. Keeps(x, y)
  BY <1>1 DEF Keeps, Fine, Small
<1> QED BY <1>2 DEF y

\* A table and a message about it.
LEMMA TableSendKeeps ==
  ASSUME NEW x, Fine(x), NEW t, Small(t), NEW out, Output(out)
  PROVE  Keeps(x, SendAll([x EXCEPT !.table = t], out))
<1> DEFINE y == [x EXCEPT !.table = t]
<1>1. Keeps(x, y)
  BY TableKeeps
<1> HIDE DEF y
<1>2. Fine(y)
  BY <1>1 DEF Keeps
<1>3. Keeps(y, SendAll(y, out))
  BY <1>2, SendAllKeeps
<1>4. Keeps(x, SendAll(y, out))
  BY <1>1, <1>3, KeepsTwo
<1> QED BY <1>4 DEF y

\* Node information.
LEMMA NodeReceivedKeeps ==
  ASSUME NEW x, Fine(x), Small(table[x.r]), NEW s, NEW n, NEW info, NEW withdraw \in BOOLEAN
  PROVE  Keeps(x, NodeReceived(x, s, n, info, withdraw))
<1> DEFINE res == Nodes!NodeReceived(x.r, s, x.rem, n, info, withdraw)
<1>1. Small(res.table) /\ Output(res.out)
  BY NodeReceivedResult
<1>2. NodeReceived(x, s, n, info, withdraw) =
         SendAll([x EXCEPT !.table = res.table], res.out)
  BY Zenon DEF NodeReceived
<1> HIDE DEF res
<1>3. Keeps(x, SendAll([x EXCEPT !.table = res.table], res.out))
  BY <1>1, TableSendKeeps
<1> QED BY <1>2, <1>3

\* A handshake message.
LEMMA HandshakeKeeps ==
  ASSUME NEW x, Fine(x), Small(table[x.r]), NEW s, NEW m
  PROVE  Keeps(x, Handshake(x, s, m))
<1> DEFINE y == NodeReceived(x, s, m.id, Nodes!SelfInfo, FALSE)
           sync == Subs!InfoBaseSyncPeer(x.r, s, y.subs, m.id)
           a == Nodes!InfoBaseSyncPeer(x.r, s, y.table, m.id)
           b == IF y.announced /\ m.id # Origin THEN <<AnnounceMsg>> ELSE <<>>
           o == [NoOutput EXCEPT ![s] = a \o b \o sync.out]
           w == [y EXCEPT !.subs = sync.subs]
<1>1. Handshake(x, s, m) = SendAll(w, o)
  BY Zenon DEF Handshake
<1>2. Keeps(x, y)
  BY NodeReceivedKeeps
<1> HIDE DEF y
<1>3. Fine(y) /\ Small(y.table) /\ IsFiniteSet(DOMAIN y.subs)
  BY <1>2 DEF Keeps, Fine, Small
<1>4. Carries(a, {})
  BY <1>3, NodeSyncCarries
<1>5. Carries(b, {})
  <2>1. News(AnnounceMsg)
    BY DEF News, Kinds, AnnounceMsg
  <2>2. Carries(<<AnnounceMsg>>, {}) /\ Carries(<<>>, {})
    BY <2>1, CarriesOne, CarriesNone
  <2> QED BY <2>2
<1>6. Carries(sync.out, {}) /\ IsFiniteSet(DOMAIN sync.subs)
  BY <1>3, SubSyncResult
<1> HIDE DEF a, b, sync
<1>7. Carries(a \o b \o sync.out, {})
  <2>1. Carries(a \o b, {})
    BY <1>4, <1>5, CarriesConcat
  <2> QED BY <1>6, <2>1, CarriesConcat
<1>8. Output(o)
  <2> DEFINE q == a \o b \o sync.out
  <2>1. Carries(q, {}) /\ o = [NoOutput EXCEPT ![s] = q]
    BY <1>7
  <2> HIDE DEF q, o
  <2> QED BY <2>1, CarriesNone DEF Output, NoOutput
<1>9. Keeps(y, w)
  BY <1>3, <1>6, SubsKeeps
<1> HIDE DEF w, o
<1>10. Fine(w)
  BY <1>9 DEF Keeps
<1>11. Keeps(w, SendAll(w, o))
  BY <1>8, <1>10, SendAllKeeps
<1>12. Keeps(x, w)
  BY <1>2, <1>9, KeepsTwo
<1>13. Keeps(x, SendAll(w, o))
  BY <1>11, <1>12, KeepsTwo
<1> QED BY <1>1, <1>13

\* An operation from x to y leaves no entry of session s in peer_fib_.
Loses(x, y, s) ==
    /\ Fine(y) /\ y.r = x.r
    /\ DOMAIN y.peerFib \subseteq {in \in DOMAIN x.peerFib : in[1] # s}

\* Nothing comes back.
LEMMA LosesKeeps ==
  ASSUME NEW x, NEW y, NEW z, NEW s, Loses(x, y, s), Keeps(y, z)
  PROVE  Loses(x, z, s)
  BY DEF Loses, Keeps

\* The part of PurgePeerSessionInfo on peer_fib_.
LEMMA PurgeLoses ==
  ASSUME NEW x, NEW y, Keeps(x, y), NEW s
  PROVE  Loses(x, PurgePeerFib(y, s), s)
<1> DEFINE fib == Erase(y.peerFib, {in \in DOMAIN y.peerFib : in[1] = s})
           z == PurgePeerFib(y, s)
<1>1. z = [y EXCEPT !.peerFib = fib]
  BY DEF PurgePeerFib, Keeps, Fine, IsState
<1>2. DOMAIN fib \subseteq {in \in DOMAIN x.peerFib : in[1] # s}
  BY DEF Keeps, Erase, Restrict
<1> HIDE DEF fib, z
<1>3. /\ IsState(z) /\ z.out = y.out /\ z.r = y.r /\ z.peerFib = fib
      /\ z.table = y.table /\ z.subs = y.subs /\ z.subSns = y.subSns
      /\ z.peerSns = y.peerSns
  BY <1>1 DEF Keeps, Fine, IsState
<1>4. Loses(x, z, s)
  BY <1>2, <1>3 DEF Loses, Keeps, Fine
<1> QED BY <1>4 DEF z

\* A session that is lost leaves no entry, whether or not the callback returns.
LEMMA SessionLostLoses ==
  ASSUME NEW x, Fine(x), Small(table[x.r]), NEW s
  PROVE  Loses(x, SessionLost(x, s), s)
<1> DEFINE n == x.rem[s]
           lost == Nodes!SessionLost(x.r, s)
           v == SendAll([x EXCEPT !.table = lost.table], lost.out)
           y == PurgePeerFib(v, s)
           key == <<TheTrack, n>>
           m == Subs!SubMsg(TRUE, key, y.subs[key])
           z == IF key \in DOMAIN y.subs THEN Withdrawn(y, s, m) ELSE y
           alone == \A t \in Session : z.st[t] # "connected"
           hung == [y EXCEPT !.failed = TRUE, !.clientFib = Erase(@, {s})]
           done == [z EXCEPT !.announced = @ /\ ~alone]
           C == key \notin DOMAIN y.subs /\ DOMAIN y.subs # {} /\ s \in DOMAIN y.clientFib
<1>1. SessionLost(x, s) = IF C THEN hung ELSE done
  BY Zenon DEF SessionLost
<1>2. Small(lost.table) /\ Output(lost.out)
  BY NodesLostResult
<1> HIDE DEF lost
<1>3. Keeps(x, v)
  BY <1>2, TableSendKeeps
<1> HIDE DEF v
<1>4. Loses(x, y, s)
  BY <1>3, PurgeLoses
<1> HIDE DEF y
<1>5. Fine(y)
  BY <1>4 DEF Loses
<1>6. Keeps(y, z)
  <2>1. Keeps(y, Withdrawn(y, s, m))
    BY <1>5, WithdrawnKeeps
  <2>2. Keeps(y, y)
    BY <1>5 DEF Keeps
  <2> HIDE DEF key, m
  <2> QED BY <2>1, <2>2
<1> HIDE DEF z
<1>7. Fine(z) /\ Loses(x, z, s)
  BY <1>4, <1>6, LosesKeeps DEF Keeps
<1>8. Loses(x, hung, s)
  <2> DEFINE fib == Erase(y.clientFib, {s})
  <2>1. Flags(y, [y EXCEPT !.failed = TRUE, !.clientFib = fib])
    <3> HIDE DEF fib
    <3> QED BY <1>5, FlagsSet, Zenon
  <2>2. hung = [y EXCEPT !.failed = TRUE, !.clientFib = fib]
    BY <1>5 DEF Fine, IsState
  <2> HIDE DEF hung
  <2>3. Flags(y, hung)
    BY <2>1, <2>2, Zenon
  <2>4. Keeps(y, hung)
    BY <1>5, <2>3, FlagsKeep
  <2> QED BY <1>4, <2>4, LosesKeeps
<1>9. Loses(x, done, s)
  <2> HIDE DEF alone
  <2>1. Flags(z, done)
    BY <1>7, FlagsSet, Zenon
  <2> HIDE DEF done
  <2>2. Keeps(z, done)
    BY <1>7, <2>1, FlagsKeep
  <2> QED BY <1>7, <2>2, LosesKeeps
<1> HIDE DEF hung, done, C
<1> QED BY <1>1, <1>8, <1>9

-----------------------------------------------------------------------------
(***************************************************************************)
(* Sessions                                                                *)
(***************************************************************************)
Calls == [kind : {"connect"}, id : Node]
Replies == [kind : {"connectResponse"}, id : Node]

AllNews(M) == \A m \in M : News(m)

\* A session: M are the messages on their way that are none of the handshake.
\* Nothing is on its way unless the transport is up, and then the server's end
\* is connected; until the client's end is, the first message for it is the
\* answer to its Connect.
Live(M, s) ==
    /\ chan[Client[s]][s] \in Seq(M \cup Replies)
    /\ chan[Server[s]][s] \in Seq(M \cup Calls)
    /\ transport[s] # "up" => chan[Client[s]][s] = <<>> /\ chan[Server[s]][s] = <<>>
    /\ \A q \in Node : q \notin Ends(s) => chan[q][s] = <<>>
    /\ transport[s] \in {"accepted", "up"} => status[Server[s]][s] = "connected"
    /\ transport[s] \in {"idle", "open", "accepted"} => remote[Server[s]][s] = NoNode
    /\ transport[s] = "idle" => status[Client[s]][s] # "connected"
    /\ transport[s] \in {"open", "accepted", "up"} =>
          status[Client[s]][s] \in {"connecting", "connected"}
    /\ transport[s] = "up" /\ status[Client[s]][s] = "connecting" =>
          \/ chan[Client[s]][s] = <<>> /\ remote[Server[s]][s] = NoNode
          \/ chan[Client[s]][s] # <<>> /\ IsHello(Head(chan[Client[s]][s]))
    /\ \A q \in Node : status[q][s] = "disconnected" => transport[s] = "down"

Sessions(M) == AllNews(M) /\ SessionTypes(M) /\ \A s \in Session : Live(M, s)

\* The messages of an output.
LEMMA OutputSet ==
  ASSUME NEW out, Output(out)
  PROVE  \E M : AllNews(M) /\ out \in Outputs(M)
<1> DEFINE M == UNION {{out[s][i] : i \in 1..Len(out[s])} : s \in Session}
<1>1. ASSUME NEW s \in Session
      PROVE  out[s] \in Seq(M) /\ \A i \in 1..Len(out[s]) : News(out[s][i])
  <2> DEFINE q == out[s]
             n == Len(q)
  <2>1. Carries(q, {})
    BY DEF Output
  <2>2. PICK S : q \in Seq(S) /\ \A m \in S : News(m) \/ m.kind \in {}
    BY <2>1 DEF Carries
  <2>3. n \in Nat /\ q \in [1..n -> S]
    BY <2>2
  <2>4. \A i \in 1..n : q[i] \in M
    OBVIOUS
  <2> HIDE DEF M
  <2>5. q \in [1..n -> M]
    <3> HIDE DEF q, n
    <3> QED BY <2>3, <2>4
  <2>6. q \in Seq(M)
    <3> HIDE DEF q, n
    <3> QED BY <2>3, <2>5, SeqDef
  <2> QED BY <2>2, <2>3, <2>6
<1>2. AllNews(M)
  <2> SUFFICES ASSUME NEW m \in M PROVE News(m)
    BY DEF AllNews
  <2>1. PICK s \in Session : \E i \in 1..Len(out[s]) : m = out[s][i]
    OBVIOUS
  <2> QED BY <1>1, <2>1
<1> HIDE DEF M
<1>3. out \in Outputs(M)
  BY <1>1 DEF Outputs, Output
<1> QED BY <1>2, <1>3

\* An output of some messages is one of more.
LEMMA OutputsMore ==
  ASSUME NEW N, NEW out \in Outputs(N), NEW M
  PROVE  out \in Outputs(M \cup N)
<1>1. \A s \in Session : out[s] \in Seq(M \cup N)
  <2> TAKE s \in Session
  <2>1. out[s] \in Seq(N)
    BY DEF Outputs
  <2> QED BY <2>1
<1> QED BY <1>1 DEF Outputs

\* More messages.
LEMMA SessionsWider ==
  ASSUME NEW M, Sessions(M), NEW N, AllNews(N)
  PROVE  Sessions(M \cup N) /\ NoHellos(M \cup N)
<1>1. AllNews(M \cup N)
  BY DEF AllNews, Sessions
<1>2. NoHellos(M \cup N)
  BY <1>1, NewsNoHello DEF AllNews, NoHellos
<1>3. SessionTypes(M \cup N)
  <2>1. chan \in [Node -> [Session -> Seq((M \cup N) \cup Hellos)]]
    <3>1. chan \in [Node -> [Session -> Seq(M \cup Hellos)]]
      BY DEF Sessions, SessionTypes
    <3>2. \A q \in Node, s \in Session : chan[q][s] \in Seq((M \cup N) \cup Hellos)
      <4> TAKE q \in Node, s \in Session
      <4>1. chan[q][s] \in Seq(M \cup Hellos)
        BY <3>1
      <4> QED BY <4>1
    <3> QED BY <3>1, <3>2
  <2> QED BY <2>1 DEF Sessions, SessionTypes
<1>4. ASSUME NEW s \in Session PROVE Live(M \cup N, s)
  <2>1. Live(M, s)
    BY DEF Sessions
  <2>2. /\ chan[Client[s]][s] \in Seq((M \cup N) \cup Replies)
        /\ chan[Server[s]][s] \in Seq((M \cup N) \cup Calls)
    BY <2>1 DEF Live
  <2> QED BY <2>1, <2>2 DEF Live
<1> QED BY <1>1, <1>2, <1>3, <1>4 DEF Sessions

\* No session has been opened.
LEMMA InitSessions ==
  ASSUME SessionsInit
  PROVE  Sessions({})
<1>1. SessionTypes({})
  BY InitTypes
<1>2. ASSUME NEW s \in Session PROVE Live({}, s)
  <2>1. Client[s] \in Node /\ Server[s] \in Node
    BY TopologyAssumption
  <2>2. <<>> \in Seq({} \cup Replies) /\ <<>> \in Seq({} \cup Calls)
    OBVIOUS
  <2> QED BY <2>1, <2>2 DEF SessionsInit, Live
<1> QED BY <1>1, <1>2 DEF Sessions, AllNews

\* A session of which nothing changes.
LEMMA LiveStays ==
  ASSUME NEW M, NEW s \in Session, Live(M, s), transport'[s] = transport[s],
         \A q \in Node : /\ status'[q][s] = status[q][s]
                         /\ remote'[q][s] = remote[q][s]
                         /\ chan'[q][s] = chan[q][s]
  PROVE  Live(M, s)'
<1>1. Client[s] \in Node /\ Server[s] \in Node
  BY TopologyAssumption
<1> QED BY <1>1 DEF Live

\* Opening a session.
LEMMA OpeningSessions ==
  ASSUME NEW M, Sessions(M), NEW s \in Session,
         Connect(s) \/ OnNewConnection(s) \/ OnReady(s)
  PROVE  Sessions(M)'
<1> DEFINE c == Client[s]
           v == Server[s]
<1>1. SessionTypes(M) /\ SessionTypes(M)' /\ AllNews(M) /\ Live(M, s)
  BY OpeningTypes DEF Sessions
<1>2. c \in Node /\ v \in Node /\ c # v
  BY TopologyAssumption
<1>3. CASE Connect(s)
  <2>1. ASSUME NEW x \in Session PROVE Live(M, x)'
    <3>1. Live(M, x) /\ Client[x] \in Node /\ Server[x] \in Node
      BY TopologyAssumption DEF Sessions
    <3>2. CASE x = s
      <4>1. transport[s] = "idle"
        BY <1>3 DEF Connect
      <4>2. s # Prev[s]
        BY <1>1, <1>2, <1>3, <4>1 DEF Connect, Live, NoSession, Session
      <4>3. /\ transport'[s] = "open" /\ status'[c][s] = "connecting" /\ chan' = chan
            /\ \A q \in Node : q # c => /\ status'[q][s] = status[q][s]
                                        /\ remote'[q][s] = remote[q][s]
        BY <1>1, <1>2, <1>3, <4>2 DEF Connect, SessionTypes
      <4> QED BY <1>1, <1>2, <3>2, <4>1, <4>3 DEF Live
    <3>3. CASE x # s /\ x = Prev[s]
      <4>1. status[c][x] = "disconnected"
        BY <1>3, <3>3 DEF Connect, NoSession, Session
      <4>2. transport[x] = "down"
        BY <1>2, <3>1, <4>1 DEF Live
      <4>3. transport'[x] = "down" /\ chan' = chan
        BY <1>1, <1>3, <3>3, <4>2 DEF Connect, SessionTypes
      <4> QED BY <3>1, <4>2, <4>3 DEF Live
    <3>4. CASE x # s /\ x # Prev[s]
      <4>1. /\ transport'[x] = transport[x] /\ chan' = chan
            /\ \A q \in Node : /\ status'[q][x] = status[q][x]
                               /\ remote'[q][x] = remote[q][x]
        BY <1>1, <1>2, <1>3, <3>4 DEF Connect, SessionTypes
      <4> QED BY <3>1, <4>1, LiveStays
    <3> QED BY <3>2, <3>3, <3>4
  <2> QED BY <1>1, <2>1 DEF Sessions
<1>4. CASE OnNewConnection(s)
  <2>1. /\ transport' = [transport EXCEPT ![s] = "accepted"] /\ transport[s] = "open"
        /\ status' = [status EXCEPT ![v][s] = "connected"]
        /\ remote' = remote /\ chan' = chan
    BY <1>4 DEF OnNewConnection
  <2>2. ASSUME NEW x \in Session PROVE Live(M, x)'
    <3>1. Live(M, x)
      BY DEF Sessions
    <3>2. CASE x = s
      <4>1. /\ transport'[s] = "accepted" /\ status'[v][s] = "connected"
            /\ \A q \in Node : q # v => status'[q][s] = status[q][s]
        BY <1>1, <1>2, <2>1 DEF SessionTypes
      <4> QED BY <1>1, <1>2, <2>1, <3>2, <4>1 DEF Live
    <3>3. CASE x # s
      <4>1. /\ transport'[x] = transport[x]
            /\ \A q \in Node : status'[q][x] = status[q][x]
        BY <1>1, <1>2, <2>1, <3>3 DEF SessionTypes
      <4> QED BY <2>1, <3>1, <4>1, LiveStays
    <3> QED BY <3>2, <3>3
  <2> QED BY <1>1, <2>2 DEF Sessions
<1>5. CASE OnReady(s)
  <2> DEFINE h == Hello("connect", c)
  <2>1. /\ transport' = [transport EXCEPT ![s] = "up"] /\ transport[s] = "accepted"
        /\ chan' = [chan EXCEPT ![v][s] = Append(@, h)]
        /\ status' = status /\ remote' = remote
    BY <1>5 DEF OnReady
  <2>2. h \in Calls
    BY <1>2 DEF Hello, Calls
  <2> HIDE DEF h
  <2>3. ASSUME NEW x \in Session PROVE Live(M, x)'
    <3>1. Live(M, x)
      BY DEF Sessions
    <3>2. CASE x = s
      <4>1. /\ transport'[s] = "up" /\ chan'[v][s] = Append(chan[v][s], h)
            /\ \A q \in Node : q # v => chan'[q][s] = chan[q][s]
        BY <1>1, <1>2, <2>1 DEF SessionTypes
      <4>2. chan[v][s] = <<>> /\ chan[c][s] = <<>>
        BY <1>1, <2>1 DEF Live
      <4>3. chan'[v][s] \in Seq(M \cup Calls)
        <5>1. chan[v][s] \in Seq(M \cup Calls)
          BY <1>1 DEF Live
        <5> QED BY <2>2, <4>1, <5>1
      <4>4. v \in Ends(s) /\ c \in Ends(s)
        BY DEF Ends
      <4> QED BY <1>1, <1>2, <2>1, <3>2, <4>1, <4>2, <4>3, <4>4 DEF Live
    <3>3. CASE x # s
      <4>1. /\ transport'[x] = transport[x]
            /\ \A q \in Node : chan'[q][x] = chan[q][x]
        BY <1>1, <1>2, <2>1, <3>3 DEF SessionTypes
      <4> QED BY <2>1, <3>1, <4>1, LiveStays
    <3> QED BY <3>2, <3>3
  <2> QED BY <1>1, <2>3 DEF Sessions
<1> QED BY <1>3, <1>4, <1>5

\* A transport is lost.
LEMMA BreakSessions ==
  ASSUME NEW M, Sessions(M), NEW s \in Session, Break(s)
  PROVE  Sessions(M)'
<1>1. SessionTypes(M) /\ SessionTypes(M)' /\ AllNews(M)
  BY BreakTypes DEF Sessions
<1>2. /\ transport' = [transport EXCEPT ![s] = "down"] /\ transport[s] # "idle"
      /\ chan' = [r \in Node |-> [chan[r] EXCEPT ![s] = <<>>]]
      /\ status' = status /\ remote' = remote
  BY DEF Break
<1>3. ASSUME NEW x \in Session PROVE Live(M, x)'
  <2>1. Live(M, x) /\ Client[x] \in Node /\ Server[x] \in Node
    BY TopologyAssumption DEF Sessions
  <2>2. CASE x = s
    <3>1. transport'[x] = "down" /\ \A q \in Node : chan'[q][x] = <<>>
      BY <1>1, <1>2, <2>2 DEF SessionTypes
    <3>2. <<>> \in Seq(M \cup Replies) /\ <<>> \in Seq(M \cup Calls)
      OBVIOUS
    <3> QED BY <1>2, <2>1, <3>1, <3>2 DEF Live
  <2>3. CASE x # s
    <3>1. transport'[x] = transport[x] /\ \A q \in Node : chan'[q][x] = chan[q][x]
      BY <1>1, <1>2, <2>3 DEF SessionTypes
    <3> QED BY <1>2, <2>1, <3>1, LiveStays
  <2> QED BY <2>2, <2>3
<1> QED BY <1>1, <1>3 DEF Sessions

\* What is first stays first.
LEMMA HeadStays ==
  ASSUME NEW S, NEW a \in Seq(S), NEW b \in Seq(S)
  PROVE  a \o b \in Seq(S) /\ (a # <<>> => a \o b # <<>> /\ Head(a \o b) = Head(a))
<1>1. a \o b \in Seq(S)
  OBVIOUS
<1>2. ASSUME a # <<>> PROVE a \o b # <<>> /\ Head(a \o b) = Head(a)
  <2>1. Len(a) \in Nat \ {0} /\ Len(b) \in Nat /\ Len(a \o b) = Len(a) + Len(b)
    BY <1>2
  <2>2. (a \o b)[1] = a[1]
    BY <2>1
  <2> QED BY <2>1, <2>2
<1> QED BY <1>1, <1>2

\* Sending on a session of which nothing else changes.
LEMMA SentLive ==
  ASSUME NEW M, SessionTypes(M), NEW s \in Session, Live(M, s),
         NEW r \in Node, NEW out \in Outputs(M), NEW st, NEW rem,
         st[s] = status[r][s], rem[s] = remote[r][s],
         transport'[s] = transport[s],
         \A q \in Node : /\ status'[q][s] = status[q][s]
                         /\ remote'[q][s] = remote[q][s]
                         /\ chan'[q][s] = Sent(chan, r, st, rem, out)[q][s]
  PROVE  Live(M, s)'
<1> DEFINE c == Client[s]
           v == Server[s]
           sends == /\ r \in Ends(s) /\ st[s] = "connected" /\ transport[s] = "up"
                    /\ r = c \/ rem[s] # NoNode
<1>1. c \in Node /\ v \in Node /\ c # v /\ Ends(s) = {c, v}
  BY TopologyAssumption DEF Ends
<1>2. \A q \in Node : chan'[q][s] = IF sends /\ q = Peer(r, s) THEN chan[q][s] \o out[s]
                                    ELSE chan[q][s]
  <2> TAKE q \in Node
  <2> QED BY SentIs
<1>3. CASE ~ sends
  BY <1>2, <1>3, LiveStays
<1>4. CASE sends /\ r = c
  <2>1. chan'[v][s] = chan[v][s] \o out[s] /\ \A q \in Node : q # v => chan'[q][s] = chan[q][s]
    BY <1>1, <1>2, <1>4 DEF Peer
  <2>2. chan'[v][s] \in Seq(M \cup Calls)
    <3>1. chan[v][s] \in Seq(M \cup Calls) /\ out[s] \in Seq(M)
      BY DEF Live, Outputs
    <3>2. out[s] \in Seq(M \cup Calls)
      BY <3>1
    <3> QED BY <2>1, <3>1, <3>2
  <2> HIDE DEF sends
  <2>3. transport[s] = "up"
    BY <1>4 DEF sends
  <2> QED BY <1>1, <2>1, <2>2, <2>3 DEF Live
<1>5. CASE sends /\ r = v
  <2>1. chan'[c][s] = chan[c][s] \o out[s] /\ \A q \in Node : q # c => chan'[q][s] = chan[q][s]
    BY <1>1, <1>2, <1>5 DEF Peer
  <2>2. /\ chan'[c][s] \in Seq(M \cup Replies)
        /\ chan[c][s] # <<>> => chan'[c][s] # <<>> /\ Head(chan'[c][s]) = Head(chan[c][s])
    <3>1. chan[c][s] \in Seq(M \cup Replies) /\ out[s] \in Seq(M)
      BY DEF Live, Outputs
    <3>2. out[s] \in Seq(M \cup Replies)
      BY <3>1
    <3> DEFINE S == M \cup Replies
               a == chan[c][s]
               b == out[s]
    <3>3. a \o b \in Seq(S) /\ (a # <<>> => a \o b # <<>> /\ Head(a \o b) = Head(a))
      <4> HIDE DEF S, a, b
      <4> QED BY <3>1, <3>2, HeadStays DEF S, a, b
    <3> QED BY <2>1, <3>3
  <2>3. transport[s] = "up" /\ remote[v][s] # NoNode
    BY <1>1, <1>5
  <2> HIDE DEF sends
  <2> QED BY <1>1, <2>1, <2>2, <2>3 DEF Live
<1> QED BY <1>1, <1>3, <1>4, <1>5

\* A relay sends something of its own accord.
LEMMA SendSessions ==
  ASSUME NEW M, Sessions(M), NEW r \in Node, NEW out \in Outputs(M),
         chan' = Sent(chan, r, status[r], remote[r], out),
         UNCHANGED <<status, remote, transport, drops>>
  PROVE  Sessions(M)'
<1>1. SessionTypes(M) /\ SessionTypes(M)' /\ AllNews(M)
  BY SendTypes DEF Sessions
<1>2. ASSUME NEW s \in Session PROVE Live(M, s)'
  <2>1. Live(M, s)
    BY DEF Sessions
  <2> QED BY <1>1, <2>1, SentLive
<1> QED BY <1>1, <1>2 DEF Sessions

\* An end learns that the transport is lost.
LEMMA DisconnectSessions ==
  ASSUME NEW M, Sessions(M), NEW s \in Session, NEW out \in Outputs(M),
         ClientDisconnected(s, out) \/ ServerDisconnected(s, out)
  PROVE  /\ Sessions(M)'
         /\ \E r \in Ends(s) : /\ ClientDisconnected(s, out) => r = Client[s]
                               /\ ServerDisconnected(s, out) => r = Server[s]
                               /\ \A q \in Node, x \in Session :
                                     q # r \/ x # s => status'[q][x] = status[q][x]
<1>1. SessionTypes(M) /\ SessionTypes(M)' /\ AllNews(M)
  BY DisconnectTypes DEF Sessions
<1>2. Client[s] \in Node /\ Server[s] \in Node /\ Client[s] # Server[s]
  BY TopologyAssumption
<1>3. PICK r, st, rem :
         /\ r \in Ends(s)
         /\ chan' = Sent(chan, r, st, rem, out)
         /\ ClientDisconnected(s, out) => r = Client[s]
         /\ ServerDisconnected(s, out) => r = Server[s]
         /\ transport' = transport /\ transport[s] = "down"
         /\ status'[r][s] = "disconnected" \/ status'[r][s] = "none"
         /\ \A q \in Node, x \in Session : q # r \/ x # s =>
               status'[q][x] = status[q][x] /\ remote'[q][x] = remote[q][x]
         /\ \A x \in Session : x # s => st[x] = status[r][x] /\ rem[x] = remote[r][x]
  <2>1. CASE ClientDisconnected(s, out)
    <3> DEFINE r == Client[s]
               st == [status[r] EXCEPT ![s] = "disconnected"]
    <3>1. ~ ServerDisconnected(s, out)
      <4>1. status'[r][s] = "disconnected"
        BY <1>1, <1>2, <2>1 DEF ClientDisconnected, SessionTypes
      <4>2. ServerDisconnected(s, out) => status'[r][s] = status[r][s] /\ transport[s] = "down"
        BY <1>1, <1>2 DEF ServerDisconnected, SessionTypes
      <4>3. status[r][s] # "disconnected"
        BY <2>1 DEF ClientDisconnected
      <4> QED BY <4>1, <4>2, <4>3
    <3>2. /\ chan' = Sent(chan, r, st, remote[r], out)
          /\ transport' = transport /\ transport[s] = "down"
          /\ remote' = remote /\ status' = [status EXCEPT ![r] = st]
      BY <2>1 DEF ClientDisconnected
    <3>3. /\ status'[r][s] = "disconnected"
          /\ \A q \in Node, x \in Session : q # r \/ x # s => status'[q][x] = status[q][x]
          /\ \A x \in Session : x # s => st[x] = status[r][x]
      BY <1>1, <1>2, <3>2 DEF SessionTypes
    <3>4. r \in Ends(s)
      BY DEF Ends
    <3> HIDE DEF r, st
    <3> QED BY <2>1, <3>1, <3>2, <3>3, <3>4 DEF r
  <2>2. CASE ServerDisconnected(s, out)
    <3> DEFINE r == Server[s]
    <3>1. ~ ClientDisconnected(s, out)
      <4>1. status'[Client[s]][s] = status[Client[s]][s]
        BY <1>1, <1>2, <2>2 DEF ServerDisconnected, SessionTypes
      <4>2. ClientDisconnected(s, out) =>
               status'[Client[s]][s] = "disconnected" /\ status[Client[s]][s] # "disconnected"
        BY <1>1, <1>2 DEF ClientDisconnected, SessionTypes
      <4> QED BY <4>1, <4>2
    <3>2. /\ chan' = Sent(chan, r, status[r], remote[r], out)
          /\ transport' = transport /\ transport[s] = "down"
          /\ remote' = [remote EXCEPT ![r][s] = NoNode]
          /\ status' = [status EXCEPT ![r][s] = "none"]
      BY <2>2 DEF ServerDisconnected
    <3>3. /\ status'[r][s] = "none"
          /\ \A q \in Node, x \in Session : q # r \/ x # s =>
                status'[q][x] = status[q][x] /\ remote'[q][x] = remote[q][x]
      BY <1>1, <1>2, <3>2 DEF SessionTypes
    <3>4. r \in Ends(s)
      BY DEF Ends
    <3> HIDE DEF r
    <3> QED BY <2>2, <3>1, <3>2, <3>3, <3>4 DEF r
  <2> QED BY <2>1, <2>2
<1>4. r \in Node
  BY <1>2, <1>3 DEF Ends
<1>5. ASSUME NEW x \in Session PROVE Live(M, x)'
  <2>1. Live(M, x) /\ transport'[x] = transport[x]
    BY <1>3 DEF Sessions
  <2>2. CASE x = s
    <3>1. \A q \in Node : chan'[q][s] = chan[q][s]
      <4> TAKE q \in Node
      <4>1. chan'[q][s] = Sent(chan, r, st, rem, out)[q][s] /\ transport[s] # "up"
        BY <1>3
      <4> QED BY <4>1, SentIs
    <3> QED BY <1>2, <1>3, <2>1, <2>2, <3>1 DEF Live
  <2>3. CASE x # s
    <3>1. /\ st[x] = status[r][x] /\ rem[x] = remote[r][x]
          /\ \A q \in Node : /\ status'[q][x] = status[q][x]
                             /\ remote'[q][x] = remote[q][x]
                             /\ chan'[q][x] = Sent(chan, r, st, rem, out)[q][x]
      BY <1>3, <1>4, <2>3
    <3> QED BY <1>1, <1>4, <2>1, <3>1, SentLive
  <2> QED BY <2>2, <2>3
<1> QED BY <1>1, <1>3, <1>5 DEF Sessions

\* A relay takes a message: the end of its session is connected then, and it was
\* before unless the message is of the handshake.
LEMMA TakeSessions ==
  ASSUME NEW M, NoHellos(M), Sessions(M), NEW r \in Node, NEW s \in Session,
         chan[r][s] # <<>>, NEW m, NEW out \in Outputs(M), Take(r, s, m, out)
  PROVE  /\ Sessions(M)' /\ m \in M \cup Hellos /\ (IsHello(m) <=> m \in Hellos)
         /\ status'[r][s] = "connected"
         /\ \A q \in Node, x \in Session : q # r \/ x # s => status'[q][x] = status[q][x]
<1> DEFINE c == Client[s]
           v == Server[s]
           st == StatusAfter(r, s, m)
           rem == RemoteAfter(r, s, m)
           rest == [chan EXCEPT ![r][s] = Tail(@)]
           answer == IF m.kind = "connect" THEN <<Hello("connectResponse", r)>> ELSE <<>>
           full == [out EXCEPT ![s] = answer \o @]
<1>1. /\ SessionTypes(M) /\ SessionTypes(M)' /\ AllNews(M) /\ Live(M, s)
      /\ m \in M \cup Hellos /\ (IsHello(m) <=> m \in Hellos)
  BY TakeTypes DEF Sessions
<1>2. c \in Node /\ v \in Node /\ c # v /\ Ends(s) = {c, v} /\ NoNode \notin Node
  BY TopologyAssumption DEF Ends, NoNode
<1>3. /\ m = Head(chan[r][s]) /\ chan' = Sent(rest, r, st, rem, full)
      /\ status' = [status EXCEPT ![r] = st] /\ remote' = [remote EXCEPT ![r] = rem]
      /\ transport' = transport
  BY DEF Take
<1>4. r \in {c, v} /\ transport[s] = "up"
  BY <1>1, <1>2 DEF Live
<1>5. /\ st[s] = IF IsHello(m) THEN "connected" ELSE status[r][s]
      /\ rem[s] = IF IsHello(m) THEN m.id ELSE remote[r][s]
      /\ \A x \in Session : x # s => st[x] = status[r][x] /\ rem[x] = remote[r][x]
      /\ status'[r] = st /\ remote'[r] = rem
      /\ \A q \in Node : q # r => status'[q] = status[q] /\ remote'[q] = remote[q]
  BY <1>1, <1>3 DEF SessionTypes, StatusAfter, RemoteAfter
<1>6. /\ rest[r][s] = Tail(chan[r][s])
      /\ \A q \in Node, x \in Session : q # r \/ x # s => rest[q][x] = chan[q][x]
  BY <1>1 DEF SessionTypes
<1>7. /\ full[s] = answer \o out[s]
      /\ \A x \in Session : x # s => full[x] = out[x]
  BY DEF Outputs
<1>8. \A q \in Node, x \in Session : chan'[q][x] =
         IF /\ r \in Ends(x) /\ q = Peer(r, x) /\ st[x] = "connected"
            /\ transport[x] = "up" /\ (r = Client[x] \/ rem[x] # NoNode)
         THEN rest[q][x] \o full[x] ELSE rest[q][x]
  <2> TAKE q \in Node, x \in Session
  <2> HIDE DEF st, rem, rest, full
  <2> QED BY <1>3, SentIs
<1> HIDE DEF st, rem, rest, full
<1>9. ASSUME NEW x \in Session, x # s PROVE Live(M, x)'
  <2>1. \A q \in Node : chan'[q][x] = Sent(chan, r, st, rem, out)[q][x]
    <3> TAKE q \in Node
    <3>1. rest[q][x] = chan[q][x] /\ full[x] = out[x]
      BY <1>6, <1>7, <1>9
    <3>2. Sent(chan, r, st, rem, out)[q][x] =
         IF /\ r \in Ends(x) /\ q = Peer(r, x) /\ st[x] = "connected"
            /\ transport[x] = "up" /\ (r = Client[x] \/ rem[x] # NoNode)
         THEN chan[q][x] \o out[x] ELSE chan[q][x]
      BY SentIs
    <3> QED BY <1>8, <3>1, <3>2
  <2>2. \A q \in Node : status'[q][x] = status[q][x] /\ remote'[q][x] = remote[q][x]
    BY <1>5, <1>9
  <2>3. st[x] = status[r][x] /\ rem[x] = remote[r][x] /\ transport'[x] = transport[x]
    BY <1>3, <1>5, <1>9
  <2>4. Live(M, x)
    BY DEF Sessions
  <2> QED BY <1>1, <2>1, <2>2, <2>3, <2>4, SentLive
<1>10. ASSUME r = c PROVE Live(M, s)' /\ status'[r][s] = "connected"
  <2>1. chan[c][s] \in Seq(M \cup Replies) /\ chan[v][s] \in Seq(M \cup Calls)
    BY <1>1 DEF Live
  <2>2. Tail(chan[c][s]) \in Seq(M \cup Replies) /\ m \in M \cup Replies
    BY <1>3, <1>10, <2>1
  <2>3. m.kind # "connect"
    BY <2>2, NewsNoHello, <1>1 DEF AllNews, Replies, IsHello
  <2>4. st[s] = "connected"
    <3>1. status[c][s] \in {"connecting", "connected"}
      BY <1>1, <1>4 DEF Live
    <3>2. status[c][s] = "connecting" => IsHello(m)
      BY <1>1, <1>3, <1>4, <1>10 DEF Live
    <3> QED BY <1>5, <1>10, <3>1, <3>2
  <2>5. out[s] \in Seq(M \cup Calls)
    <3>1. out[s] \in Seq(M)
      BY DEF Outputs
    <3> QED BY <3>1
  <2>6. full[s] \in Seq(M \cup Calls)
    <3>1. answer = <<>>
      BY <2>3
    <3> HIDE DEF answer
    <3> QED BY <1>7, <2>5, <3>1
  <2>7. chan'[v][s] = chan[v][s] \o full[s] /\ chan'[c][s] = Tail(chan[c][s])
    BY <1>2, <1>4, <1>6, <1>8, <1>10, <2>4 DEF Peer
  <2>8. \A q \in Node : q \notin Ends(s) => chan'[q][s] = <<>>
    <3> SUFFICES ASSUME NEW q \in Node, q \notin Ends(s) PROVE chan'[q][s] = <<>>
      OBVIOUS
    <3>1. q # Peer(r, s) /\ q # r
      BY <1>2, <1>10 DEF Peer
    <3>2. chan'[q][s] = chan[q][s]
      BY <1>6, <1>8, <3>1
    <3> QED BY <1>1, <3>2 DEF Live
  <2>9. chan'[v][s] \in Seq(M \cup Calls)
    BY <2>1, <2>6, <2>7
  <2>10. status'[c][s] = "connected" /\ \A q \in Node : q # c => /\ status'[q][s] = status[q][s]
                                                               /\ remote'[q][s] = remote[q][s]
    BY <1>2, <1>5, <1>10, <2>4
  <2> QED BY <1>1, <1>2, <1>3, <1>4, <1>10, <2>2, <2>7, <2>8, <2>9, <2>10 DEF Live
<1>11. ASSUME r = v PROVE Live(M, s)' /\ status'[r][s] = "connected"
  <2>1. chan[c][s] \in Seq(M \cup Replies) /\ chan[v][s] \in Seq(M \cup Calls)
    BY <1>1 DEF Live
  <2>2. Tail(chan[v][s]) \in Seq(M \cup Calls) /\ m \in M \cup Calls
    BY <1>3, <1>11, <2>1
  <2>3. st[s] = "connected"
    <3>1. status[v][s] = "connected"
      BY <1>1, <1>4 DEF Live
    <3> QED BY <1>5, <1>11, <3>1
  <2>4. /\ chan'[v][s] = Tail(chan[v][s])
        /\ chan'[c][s] = IF rem[s] # NoNode THEN chan[c][s] \o full[s] ELSE chan[c][s]
    BY <1>2, <1>4, <1>6, <1>8, <1>11, <2>3 DEF Peer
  <2>5. \A q \in Node : q \notin Ends(s) => chan'[q][s] = <<>>
    <3> SUFFICES ASSUME NEW q \in Node, q \notin Ends(s) PROVE chan'[q][s] = <<>>
      OBVIOUS
    <3>1. q # Peer(r, s) /\ q # r
      BY <1>2, <1>11 DEF Peer
    <3>2. chan'[q][s] = chan[q][s]
      BY <1>6, <1>8, <3>1
    <3> QED BY <1>1, <3>2 DEF Live
  <2>6. status'[v][s] = "connected" /\ \A q \in Node : q # v => /\ status'[q][s] = status[q][s]
                                                              /\ remote'[q][s] = remote[q][s]
    BY <1>2, <1>5, <1>11, <2>3
  <2>7. out[s] \in Seq(M \cup Replies)
    <3>1. out[s] \in Seq(M)
      BY DEF Outputs
    <3> QED BY <3>1
  <2>8. CASE IsHello(m)
    <3> DEFINE h == Hello("connectResponse", r)
    <3>1. m \in Calls
      BY <1>1, <2>2, <2>8, NewsNoHello DEF AllNews
    <3>2. m.kind = "connect" /\ m.id \in Node
      BY <3>1 DEF Calls
    <3>3. rem[s] # NoNode
      BY <1>2, <1>5, <2>8, <3>2
    <3>4. h \in Replies /\ IsHello(h)
      BY DEF Hello, Replies, IsHello
    <3>5. answer = <<h>>
      BY <3>2
    <3> HIDE DEF h, answer
    <3>6. /\ full[s] \in Seq(M \cup Replies) /\ full[s] # <<>> /\ Head(full[s]) = h
      <4>1. <<h>> \in Seq(M \cup Replies) /\ <<h>> # <<>> /\ Head(<<h>>) = h
        BY <3>4
      <4>2. full[s] = <<h>> \o out[s]
        BY <1>7, <3>5
      <4> DEFINE a == <<h>>
      <4> HIDE DEF a
      <4> QED BY <2>7, <4>1, <4>2, HeadStays DEF a
    <3>7. /\ chan'[c][s] \in Seq(M \cup Replies) /\ chan'[c][s] # <<>>
          /\ chan[c][s] # <<>> => Head(chan'[c][s]) = Head(chan[c][s])
          /\ chan[c][s] = <<>> => Head(chan'[c][s]) = h
      <4>1. chan'[c][s] = chan[c][s] \o full[s]
        BY <2>4, <3>3
      <4>2. chan[c][s] = <<>> => chan'[c][s] = full[s]
        BY <3>6, <4>1
      <4>3. chan[c][s] # <<>> => chan'[c][s] # <<>> /\ Head(chan'[c][s]) = Head(chan[c][s])
        <5> DEFINE S == M \cup Replies
                   a == chan[c][s]
                   b == full[s]
        <5>1. a # <<>> => a \o b # <<>> /\ Head(a \o b) = Head(a)
          <6> HIDE DEF S, a, b
          <6> QED BY <2>1, <3>6, HeadStays DEF S, a, b
        <5> QED BY <4>1, <5>1
      <4>4. chan'[c][s] \in Seq(M \cup Replies)
        BY <2>1, <3>6, <4>1
      <4> QED BY <3>6, <4>2, <4>3, <4>4
    <3> QED BY <1>1, <1>2, <1>3, <1>4, <1>11, <2>2, <2>4, <2>5, <2>6, <3>4, <3>7 DEF Live
  <2>9. CASE ~ IsHello(m)
    <3>1. rem[s] = remote[v][s] /\ remote'[v][s] = remote[v][s]
      BY <1>5, <1>11, <2>9
    <3>2. full[s] \in Seq(M \cup Replies)
      <4>1. answer = <<>>
        BY <2>9 DEF IsHello
      <4> HIDE DEF answer
      <4> QED BY <1>7, <2>7, <4>1
    <3>3. /\ chan'[c][s] \in Seq(M \cup Replies)
          /\ chan[c][s] # <<>> => chan'[c][s] # <<>> /\ Head(chan'[c][s]) = Head(chan[c][s])
          /\ rem[s] = NoNode => chan'[c][s] = chan[c][s]
      <4>1. CASE rem[s] = NoNode
        BY <2>1, <2>4, <4>1
      <4>2. CASE rem[s] # NoNode
        <5>1. chan'[c][s] = chan[c][s] \o full[s]
          BY <2>4, <4>2
        <5> DEFINE S == M \cup Replies
                   a == chan[c][s]
                   b == full[s]
        <5>2. a \o b \in Seq(S) /\ (a # <<>> => a \o b # <<>> /\ Head(a \o b) = Head(a))
          <6> HIDE DEF S, a, b
          <6> QED BY <2>1, <3>2, HeadStays DEF S, a, b
        <5> QED BY <4>2, <5>1, <5>2
      <4> QED BY <4>1, <4>2
    <3> QED BY <1>1, <1>2, <1>3, <1>4, <1>11, <2>2, <2>4, <2>5, <2>6, <3>1, <3>3 DEF Live
  <2> QED BY <2>8, <2>9
<1>12. \A q \in Node, x \in Session : q # r \/ x # s => status'[q][x] = status[q][x]
  BY <1>5
<1> QED BY <1>1, <1>4, <1>9, <1>10, <1>11, <1>12 DEF Sessions

-----------------------------------------------------------------------------
(***************************************************************************)
(* The invariant                                                           *)
(***************************************************************************)
Tables ==
    /\ DOMAIN table = Node /\ DOMAIN subs = Node /\ DOMAIN subSns = Node
    /\ DOMAIN peerSns = Node /\ DOMAIN peerFib = Node
    /\ \A r \in Node : /\ Small(table[r]) /\ IsFiniteSet(DOMAIN subs[r])
                       /\ SubSets(subSns[r]) /\ PeerSets(peerSns[r])

FibLive ==
    \A r \in Node : \A in \in DOMAIN peerFib[r] :
        in[1] \in Session /\ status[r][in[1]] = "connected"

IInv == (\E M : Sessions(M)) /\ Tables /\ FibLive

\* The state that a callback starts from.
LEMMA StateFine ==
  ASSUME Tables, NEW r \in Node
  PROVE  Fine(State(r)) /\ State(r).r = r /\ State(r).peerFib = peerFib[r]
<1> DEFINE x == State(r)
<1>1. /\ IsState(x) /\ x.out = NoOutput /\ x.r = r /\ x.peerFib = peerFib[r]
      /\ x.table = table[r] /\ x.subs = subs[r] /\ x.subSns = subSns[r]
      /\ x.peerSns = peerSns[r]
  BY DEF State, IsState
<1> HIDE DEF x
<1>2. Fine(x)
  BY <1>1, OutputNone DEF Tables, Fine, Small
<1> QED BY <1>1, <1>2 DEF x

\* What a callback knows of its sessions and clients is no concern of Keeps.
LEMMA KnowsKeeps ==
  ASSUME NEW x, Fine(x), NEW a, NEW b
  PROVE  /\ Keeps(x, [x EXCEPT !.st = a, !.rem = b])
         /\ Keeps(x, [x EXCEPT !.st = a])
         /\ Keeps(x, [x EXCEPT !.local = a])
<1> DEFINE y == [x EXCEPT !.st = a]
           z == [y EXCEPT !.rem = b]
           w == [x EXCEPT !.local = a]
<1>1. Flags(x, y) /\ Flags(x, w)
  BY DEF Fine, Flags, IsState
<1>2. z = [x EXCEPT !.st = a, !.rem = b]
  OBVIOUS
<1>3. Keeps(x, y) /\ Keeps(x, w)
  <2> HIDE DEF y, w
  <2> QED BY <1>1, FlagsKeep
<1>4. Flags(y, z)
  <2> HIDE DEF y
  <2> QED BY <1>3 DEF Keeps, Fine, Flags, IsState
<1>5. Keeps(x, z)
  <2> HIDE DEF y, z
  <2>1. Fine(y)
    BY <1>3 DEF Keeps
  <2>2. Keeps(y, z)
    BY <1>4, <2>1, FlagsKeep
  <2> QED BY <1>3, <2>2, KeepsTwo
<1> HIDE DEF z
<1> QED BY <1>2, <1>3, <1>5

\* The tables after a callback.
LEMMA TablesStep ==
  ASSUME Tables, NEW y, NEW z, Fine(y), Fine(z), y.r \in Node, z.r = y.r,
         Becomes(y), Forwards(z)
  PROVE  /\ Tables'
         /\ peerFib'[y.r] = z.peerFib
         /\ \A q \in Node : q # y.r => peerFib'[q] = peerFib[q]
<1>1. /\ table' = [table EXCEPT ![y.r] = y.table]
      /\ subs' = [subs EXCEPT ![y.r] = y.subs]
      /\ subSns' = [subSns EXCEPT ![y.r] = z.subSns]
      /\ peerSns' = [peerSns EXCEPT ![y.r] = z.peerSns]
      /\ peerFib' = [peerFib EXCEPT ![y.r] = z.peerFib]
  BY DEF Becomes, Forwards
<1>2. /\ Small(y.table) /\ IsFiniteSet(DOMAIN y.subs)
      /\ SubSets(z.subSns) /\ PeerSets(z.peerSns)
  BY DEF Fine, Small
<1>3. /\ DOMAIN table = Node /\ DOMAIN subs = Node /\ DOMAIN subSns = Node
      /\ DOMAIN peerSns = Node /\ DOMAIN peerFib = Node
  BY DEF Tables
<1>4. ASSUME NEW q \in Node
      PROVE  /\ Small(table'[q]) /\ IsFiniteSet(DOMAIN subs'[q])
             /\ SubSets(subSns'[q]) /\ PeerSets(peerSns'[q])
  <2>1. CASE q = y.r
    <3>1. /\ table'[q] = y.table /\ subs'[q] = y.subs /\ subSns'[q] = z.subSns
          /\ peerSns'[q] = z.peerSns
      BY <1>1, <1>3, <2>1
    <3> QED BY <1>2, <3>1
  <2>2. CASE q # y.r
    <3>1. /\ table'[q] = table[q] /\ subs'[q] = subs[q] /\ subSns'[q] = subSns[q]
          /\ peerSns'[q] = peerSns[q]
      BY <1>1, <1>3, <2>2
    <3> QED BY <3>1 DEF Tables
  <2> QED BY <2>1, <2>2
<1>5. /\ DOMAIN table' = Node /\ DOMAIN subs' = Node /\ DOMAIN subSns' = Node
      /\ DOMAIN peerSns' = Node /\ DOMAIN peerFib' = Node
  BY <1>1, <1>3
<1>6. /\ peerFib'[y.r] = z.peerFib
      /\ \A q \in Node : q # y.r => peerFib'[q] = peerFib[q]
  BY <1>1, <1>3
<1>7. Tables'
  BY <1>4, <1>5 DEF Tables, Small, SubSets, PeerSets
<1> QED BY <1>6, <1>7

\* A relay acts on its own: an operation of a client.
LEMMA OperationKeepsInvariant ==
  ASSUME IInv, NEW r \in Node, NEW x, Keeps(State(r), x), Operation(r, x)
  PROVE  IInv'
<1>1. /\ Fine(x) /\ x.r = r /\ x.peerFib = peerFib[r]
  BY StateFine DEF Keeps, IInv
<1>2. /\ chan' = Sent(chan, r, status[r], remote[r], x.out) /\ Becomes(x) /\ Forwards(x)
      /\ UNCHANGED <<status, remote, transport, drops>>
  BY DEF Operation
<1>3. \E M : Sessions(M)'
  <2>1. PICK M : Sessions(M)
    BY DEF IInv
  <2>2. PICK N : AllNews(N) /\ x.out \in Outputs(N)
    BY <1>1, OutputSet DEF Fine
  <2>3. Sessions(M \cup N)
    BY <2>1, <2>2, SessionsWider
  <2>4. x.out \in Outputs(M \cup N)
    BY <2>2, OutputsMore
  <2>5. Sessions(M \cup N)'
    <3> DEFINE K == M \cup N
               o == x.out
    <3>1. Sessions(K) /\ o \in Outputs(K)
          /\ chan' = Sent(chan, r, status[r], remote[r], o)
      BY <1>2, <2>3, <2>4
    <3> HIDE DEF K, o
    <3>2. Sessions(K)'
      BY <1>2, <3>1, SendSessions
    <3> QED BY <3>2 DEF K
  <2> QED BY <2>5
<1>4. Tables' /\ \A q \in Node : DOMAIN peerFib'[q] = DOMAIN peerFib[q]
  BY <1>1, <1>2, TablesStep DEF IInv
<1>5. FibLive'
  BY <1>2, <1>4 DEF IInv, FibLive
<1> QED BY <1>3, <1>4, <1>5 DEF IInv

\* No session has been opened.
LEMMA InitInvariant == Init => IInv
<1> SUFFICES ASSUME Init PROVE IInv
  OBVIOUS
<1>1. Sessions({})
  <2>1. SessionsInit
    BY NodesNames DEF Init, Nodes!Init, Nodes!SessionsInit, SessionsInit,
                      Nodes!NoNode, NoNode
  <2> QED BY <2>1, InitSessions
<1>2. Tables
  <2>1. /\ table = [r \in Node |-> Nodes!EmptyTable]
        /\ subs = [r \in Node |-> EmptyMap]
        /\ subSns = [r \in Node |-> [s \in Session |-> NoSns]]
        /\ peerSns = [r \in Node |-> [s \in Session |-> EmptyMap]]
        /\ peerFib = [r \in Node |-> EmptyMap]
    BY DEF Init, Nodes!Init
  <2>2. Small(Nodes!EmptyTable) /\ DOMAIN EmptyMap = {}
    BY FS_EmptySet DEF Small, Nodes!EmptyTable, Nodes!EmptyMap, EmptyMap
  <2>3. SubSets([s \in Session |-> NoSns])
    BY FS_EmptySet DEF SubSets, NoSns
  <2>4. PeerSets([s \in Session |-> EmptyMap])
    BY <2>2 DEF PeerSets
  <2> QED BY <2>1, <2>2, <2>3, <2>4, FS_EmptySet DEF Tables
<1>3. FibLive
  BY DEF Init, FibLive, EmptyMap
<1> QED BY <1>1, <1>2, <1>3 DEF IInv

\* CheckThread opens a session, or replaces one.
LEMMA ReconnectKeepsInvariant ==
  ASSUME IInv, NEW s \in Session, Reconnect(s)
  PROVE  IInv'
<1> DEFINE c == Client[s]
           p == Prev[s]
<1>1. PICK M : Sessions(M)
  BY DEF IInv
<1>2. Connect(s)
  BY DEF Reconnect
<1>3. Sessions(M)'
  BY <1>1, <1>2, OpeningSessions
<1>4. SessionTypes(M) /\ Live(M, s) /\ c \in Node
  BY <1>1, TopologyAssumption DEF Sessions
<1>5. /\ DOMAIN table = Node /\ DOMAIN subs = Node /\ DOMAIN subSns = Node
      /\ DOMAIN peerSns = Node /\ DOMAIN peerFib = Node
      /\ \A r \in Node : SubSets(subSns[r]) /\ PeerSets(peerSns[r])
  BY DEF IInv, Tables
<1>6. /\ \A r \in Node : DOMAIN peerFib'[r] = DOMAIN peerFib[r]
      /\ DOMAIN peerFib' = Node
  <2>1. peerFib' = [peerFib EXCEPT ![c] = IF p = NoSession THEN @ ELSE RepointAll(@, p, s)]
    BY DEF Reconnect
  <2>2. \A fib : DOMAIN RepointAll(fib, p, s) = DOMAIN fib
    BY DEF RepointAll
  <2> QED BY <1>5, <2>1, <2>2
<1>7. DOMAIN subSns' = Node /\ \A r \in Node : SubSets(subSns'[r])
  <2> DEFINE f == [t \in Session |-> IF t = s /\ p # NoSession THEN subSns[c][p]
                                     ELSE IF t = p THEN NoSns ELSE subSns[c][t]]
  <2>1. subSns' = [subSns EXCEPT ![c] = f]
    BY DEF Reconnect
  <2>2. p # NoSession => p \in Session
    BY TopologyAssumption
  <2>3. SubSets(f)
    <3>1. SubSets(subSns[c])
      BY <1>4, <1>5
    <3> QED BY <2>2, <3>1, FS_EmptySet DEF SubSets, NoSns
  <2> HIDE DEF f
  <2> QED BY <1>5, <2>1, <2>3
<1>8. DOMAIN peerSns' = Node /\ \A r \in Node : PeerSets(peerSns'[r])
  <2> DEFINE f == [t \in Session |-> IF t \in {s, p} THEN EmptyMap ELSE peerSns[c][t]]
  <2>1. peerSns' = [peerSns EXCEPT ![c] = f]
    BY DEF Reconnect
  <2>2. PeerSets(f)
    <3>1. PeerSets(peerSns[c]) /\ DOMAIN EmptyMap = {}
      BY <1>4, <1>5 DEF EmptyMap
    <3> QED BY <3>1 DEF PeerSets
  <2> HIDE DEF f
  <2> QED BY <1>5, <2>1, <2>2
<1>9. Tables'
  <2>1. table' = table /\ subs' = subs
    BY DEF Reconnect, nodeVars, subVars
  <2>2. \A r \in Node : Small(table[r]) /\ IsFiniteSet(DOMAIN subs[r])
    BY DEF IInv, Tables
  <2> QED BY <1>5, <1>6, <1>7, <1>8, <2>1, <2>2 DEF Tables
<1>10. FibLive'
  <2> SUFFICES ASSUME NEW r \in Node, NEW in \in DOMAIN peerFib'[r]
               PROVE  in[1] \in Session /\ status'[r][in[1]] = "connected"
    BY DEF FibLive
  <2>1. in[1] \in Session /\ status[r][in[1]] = "connected"
    BY <1>6 DEF IInv, FibLive
  <2>2. ~ (r = c /\ in[1] \in {s, p})
    BY <1>2, <1>4, <2>1 DEF Connect, Live, NoSession, Session
  <2>3. status'[r][in[1]] = status[r][in[1]]
    BY <1>2, <1>4, <2>1, <2>2 DEF Connect, SessionTypes
  <2> QED BY <2>1, <2>3
<1> QED BY <1>3, <1>9, <1>10 DEF IInv

\* The other steps of a session that leave the tables alone.
LEMMA SessionKeepsInvariant ==
  ASSUME IInv, NEW s \in Session, OnNewConnection(s) \/ OnReady(s) \/ Break(s),
         UNCHANGED <<nodeVars, subVars, fwdVars>>
  PROVE  IInv'
<1>1. PICK M : Sessions(M)
  BY DEF IInv
<1>2. Sessions(M)'
  BY <1>1, OpeningSessions, BreakSessions
<1>3. /\ table' = table /\ subs' = subs /\ subSns' = subSns /\ peerSns' = peerSns
      /\ peerFib' = peerFib
  BY DEF nodeVars, subVars, fwdVars
<1>4. Tables'
  BY <1>3 DEF IInv, Tables
<1>5. SessionTypes(M) /\ Server[s] \in Node
  BY <1>1, TopologyAssumption DEF Sessions
<1>6. \A q \in Node, x \in Session :
         status[q][x] = "connected" => status'[q][x] = "connected"
  <2>1. status' = status \/ status' = [status EXCEPT ![Server[s]][s] = "connected"]
    BY DEF OnNewConnection, OnReady, Break
  <2>2. status \in [Node -> [Session ->
                     {"none", "connecting", "connected", "disconnected"}]]
    BY <1>5 DEF SessionTypes
  <2> QED BY <1>5, <2>1, <2>2
<1>7. FibLive'
  BY <1>3, <1>6 DEF IInv, FibLive
<1> QED BY <1>2, <1>4, <1>7 DEF IInv

\* ProcessControlMessage: what a message makes of the state x.
Processed(x, s, m) ==
    CASE IsHello(m)            -> Handshake(x, s, m)
      [] m.kind = "node"       -> NodeReceived(x, s, m.id, m.info, FALSE)
      [] m.kind = "withdraw"   -> NodeReceived(x, s, m.id, m.info, TRUE)
      [] m.kind = "announce"   -> Announced(x, s)
      [] m.kind = "sub"        -> Advertised(x, s, m)
      [] m.kind = "unsub"      -> Withdrawn(x, s, m)
      [] m.kind = "sns"        -> SnsAdvertised(x, s, m)
      [] m.kind = "unsns"      -> SnsWithdrawn(x, s, m)

\* A message adds no entry of peer_fib_ but one of its own session.
LEMMA ProcessedAdds ==
  ASSUME NEW x, Fine(x), Small(table[x.r]), NEW s, NEW m, News(m) \/ IsHello(m)
  PROVE  Adds(x, Processed(x, s, m), {<<s, m.id>>})
<1>1. \A y : Keeps(x, y) => Adds(x, y, {<<s, m.id>>})
  BY DEF Keeps, Adds
<1>2. CASE IsHello(m)
  <2>1. Processed(x, s, m) = Handshake(x, s, m)
    BY <1>2 DEF Processed, IsHello
  <2> QED BY <1>1, <2>1, HandshakeKeeps
<1>3. CASE m.kind = "node"
  <2>1. Processed(x, s, m) = NodeReceived(x, s, m.id, m.info, FALSE)
    BY <1>3 DEF Processed, IsHello
  <2> QED BY <1>1, <2>1, NodeReceivedKeeps
<1>4. CASE m.kind = "withdraw"
  <2>1. Processed(x, s, m) = NodeReceived(x, s, m.id, m.info, TRUE)
    BY <1>4 DEF Processed, IsHello
  <2> QED BY <1>1, <2>1, NodeReceivedKeeps
<1>5. CASE m.kind = "announce"
  <2>1. Processed(x, s, m) = Announced(x, s)
    BY <1>5 DEF Processed, IsHello
  <2> QED BY <1>1, <2>1, AnnouncedKeeps
<1>6. CASE m.kind = "sub"
  <2>1. Processed(x, s, m) = Advertised(x, s, m)
    BY <1>6 DEF Processed, IsHello
  <2> QED BY <1>1, <2>1, AdvertisedKeeps
<1>7. CASE m.kind = "unsub"
  <2>1. Processed(x, s, m) = Withdrawn(x, s, m)
    BY <1>7 DEF Processed, IsHello
  <2> QED BY <1>1, <2>1, WithdrawnKeeps
<1>8. CASE m.kind = "sns"
  <2>1. Processed(x, s, m) = SnsAdvertised(x, s, m)
    BY <1>8 DEF Processed, IsHello
  <2>2. IsFiniteSet(m.nodes)
    BY <1>8 DEF News, IsHello
  <2> QED BY <2>1, <2>2, SnsAdvertisedAdds
<1>9. CASE m.kind = "unsns"
  <2>1. Processed(x, s, m) = SnsWithdrawn(x, s, m)
    BY <1>9 DEF Processed, IsHello
  <2>2. Adds(x, SnsWithdrawn(x, s, m), {})
    BY SnsWithdrawnAdds
  <2> QED BY <2>1, <2>2 DEF Adds
<1> QED BY <1>2, <1>3, <1>4, <1>5, <1>6, <1>7, <1>8, <1>9 DEF News, Kinds

\* A message is delivered.
LEMMA DeliverKeepsInvariant ==
  ASSUME IInv, NEW r \in Node, NEW s \in Session, Deliver(r, s)
  PROVE  IInv'
<1> DEFINE m == Head(chan[r][s])
           x == [State(r) EXCEPT !.st = StatusAfter(r, s, m), !.rem = RemoteAfter(r, s, m)]
           y == Processed(x, s, m)
<1>1. chan[r][s] # <<>> /\ Take(r, s, m, y.out) /\ Becomes(y) /\ Forwards(y)
  BY Zenon DEF Deliver, Processed
<1>2. PICK M : Sessions(M)
  BY DEF IInv
<1>3. News(m) \/ IsHello(m)
  <2>1. chan[r][s] \in Seq(M \cup Hellos)
    BY <1>2 DEF Sessions, SessionTypes
  <2>2. m \in M \cup Hellos
    BY <1>1, <2>1
  <2> QED BY <1>2, <2>2 DEF Sessions, AllNews, Hellos, IsHello
<1>4. /\ Fine(State(r)) /\ State(r).r = r /\ State(r).peerFib = peerFib[r]
      /\ Small(table[r])
  BY StateFine DEF IInv, Tables
<1>5. Fine(x) /\ x.r = r /\ x.peerFib = peerFib[r]
  <2> DEFINE z == State(r)
             a == StatusAfter(r, s, m)
             b == RemoteAfter(r, s, m)
  <2> HIDE DEF z, a, b
  <2>1. Keeps(z, [z EXCEPT !.st = a, !.rem = b])
    BY <1>4, KnowsKeeps DEF z
  <2>2. x = [z EXCEPT !.st = a, !.rem = b]
    BY DEF z, a, b
  <2> HIDE DEF x
  <2> QED BY <1>4, <2>1, <2>2 DEF Keeps, z
<1> HIDE DEF x, m
<1>6. Adds(x, y, {<<s, m.id>>})
  BY <1>3, <1>4, <1>5, ProcessedAdds
<1> HIDE DEF y
<1>7. /\ Fine(y) /\ y.r = r
      /\ DOMAIN y.peerFib \subseteq DOMAIN peerFib[r] \cup {<<s, m.id>>}
  BY <1>5, <1>6 DEF Adds
<1>8. PICK N : AllNews(N) /\ y.out \in Outputs(N)
  BY <1>7, OutputSet DEF Fine
<1> DEFINE K == M \cup N
           o == y.out
<1>9. Sessions(K) /\ NoHellos(K) /\ o \in Outputs(K) /\ Take(r, s, m, o)
  BY <1>1, <1>2, <1>8, SessionsWider, OutputsMore
<1> HIDE DEF K, o
<1>10. /\ Sessions(K)' /\ status'[r][s] = "connected"
       /\ \A q \in Node, t \in Session : q # r \/ t # s => status'[q][t] = status[q][t]
  BY <1>1, <1>9, TakeSessions
<1>11. /\ Tables' /\ peerFib'[r] = y.peerFib
       /\ \A q \in Node : q # r => peerFib'[q] = peerFib[q]
  BY <1>1, <1>7, TablesStep DEF IInv
<1>12. FibLive'
  <2> SUFFICES ASSUME NEW q \in Node, NEW in \in DOMAIN peerFib'[q]
               PROVE  in[1] \in Session /\ status'[q][in[1]] = "connected"
    BY DEF FibLive
  <2>1. in \in DOMAIN peerFib[q] \/ (q = r /\ in = <<s, m.id>>)
    BY <1>7, <1>11
  <2>2. CASE in \in DOMAIN peerFib[q]
    BY <1>10, <2>2 DEF IInv, FibLive
  <2>3. CASE q = r /\ in = <<s, m.id>>
    BY <1>10, <2>3
  <2> QED BY <2>1, <2>2, <2>3
<1> QED BY <1>10, <1>11, <1>12 DEF IInv

\* The server's PeerSession goes with its sets, and pointers to it expire.
LEMMA ExpiredFine ==
  ASSUME NEW y, Fine(y), NEW s
  PROVE  LET z == [y EXCEPT !.subSns[s] = NoSns, !.peerSns[s] = EmptyMap,
                            !.clientFib = Repoint(@, s, Expired),
                            !.peerFib = RepointAll(@, s, Expired)]
         IN  Fine(z) /\ z.r = y.r /\ DOMAIN z.peerFib = DOMAIN y.peerFib
<1> DEFINE f == [y.subSns EXCEPT ![s] = NoSns]
           g == [y.peerSns EXCEPT ![s] = EmptyMap]
           h == Repoint(y.clientFib, s, Expired)
           k == RepointAll(y.peerFib, s, Expired)
           z == [y EXCEPT !.subSns = f, !.peerSns = g, !.clientFib = h, !.peerFib = k]
           w == [y EXCEPT !.subSns[s] = NoSns, !.peerSns[s] = EmptyMap,
                          !.clientFib = Repoint(@, s, Expired),
                          !.peerFib = RepointAll(@, s, Expired)]
<1>1. w = z
  BY DEF Fine, IsState
<1>2. SubSets(f)
  BY FS_EmptySet DEF Fine, SubSets, NoSns
<1>3. PeerSets(g)
  BY DEF Fine, PeerSets, EmptyMap
<1>4. DOMAIN k = DOMAIN y.peerFib
  BY DEF RepointAll
<1> HIDE DEF f, g, h, k
<1>5. /\ IsState(z) /\ z.out = y.out /\ z.r = y.r /\ z.peerFib = k
      /\ z.table = y.table /\ z.subs = y.subs /\ z.subSns = f /\ z.peerSns = g
  <2> DEFINE a == [y EXCEPT !.subSns = f]
             b == [a EXCEPT !.peerSns = g]
             c == [b EXCEPT !.clientFib = h]
  <2>1. IsState(a) /\ a.out = y.out /\ a.r = y.r /\ a.table = y.table /\ a.subs = y.subs
        /\ a.subSns = f
    BY DEF Fine, IsState
  <2>2. z = [c EXCEPT !.peerFib = k]
    OBVIOUS
  <2> HIDE DEF a, z
  <2>3. IsState(b) /\ b.out = y.out /\ b.r = y.r /\ b.table = y.table /\ b.subs = y.subs
        /\ b.subSns = f /\ b.peerSns = g
    BY <2>1 DEF IsState
  <2> HIDE DEF b
  <2>4. IsState(c) /\ c.out = y.out /\ c.r = y.r /\ c.table = y.table /\ c.subs = y.subs
        /\ c.subSns = f /\ c.peerSns = g
    BY <2>3 DEF IsState
  <2> HIDE DEF c
  <2> QED BY <2>2, <2>4 DEF IsState
<1> HIDE DEF z
<1>6. Fine(z) /\ z.r = y.r /\ DOMAIN z.peerFib = DOMAIN y.peerFib
  BY <1>2, <1>3, <1>4, <1>5 DEF Fine
<1> HIDE DEF w
<1>7. Fine(w) /\ w.r = y.r /\ DOMAIN w.peerFib = DOMAIN y.peerFib
  BY <1>1, <1>6
<1> QED BY <1>7 DEF w

\* An end learns that its session is gone: the entries of the session are.
LEMMA LostKeepsInvariant ==
  ASSUME IInv, NEW r \in Node, NEW s \in Session, NEW x, Keeps(State(r), x), NEW y,
         y = SessionLost(x, s), NEW z, Fine(z), z.r = y.r,
         DOMAIN z.peerFib = DOMAIN y.peerFib,
         \/ r = Client[s] /\ ClientDisconnected(s, y.out)
         \/ r = Server[s] /\ ServerDisconnected(s, y.out),
         Becomes(y), Forwards(z)
  PROVE  IInv'
<1>1. /\ Fine(x) /\ x.r = r /\ x.peerFib = peerFib[r] /\ Small(table[r])
  BY StateFine DEF Keeps, IInv, Tables
<1>2. Loses(x, y, s)
  BY <1>1, SessionLostLoses
<1>3. /\ Fine(y) /\ y.r = r
      /\ DOMAIN y.peerFib \subseteq {in \in DOMAIN peerFib[r] : in[1] # s}
  BY <1>1, <1>2 DEF Loses
<1>4. PICK M : Sessions(M)
  BY DEF IInv
<1>5. PICK N : AllNews(N) /\ y.out \in Outputs(N)
  BY <1>3, OutputSet DEF Fine
<1> DEFINE K == M \cup N
           o == y.out
<1>6. Sessions(K) /\ o \in Outputs(K)
  BY <1>4, <1>5, SessionsWider, OutputsMore
<1>7. \/ r = Client[s] /\ ClientDisconnected(s, o)
      \/ r = Server[s] /\ ServerDisconnected(s, o)
  OBVIOUS
<1> HIDE DEF K, o
<1>8. /\ Sessions(K)'
      /\ \A q \in Node, t \in Session : q # r \/ t # s => status'[q][t] = status[q][t]
  BY <1>6, <1>7, DisconnectSessions
<1>9. /\ Tables' /\ peerFib'[r] = z.peerFib
      /\ \A q \in Node : q # r => peerFib'[q] = peerFib[q]
  BY <1>3, TablesStep DEF IInv
<1>10. FibLive'
  <2> SUFFICES ASSUME NEW q \in Node, NEW in \in DOMAIN peerFib'[q]
               PROVE  in[1] \in Session /\ status'[q][in[1]] = "connected"
    BY DEF FibLive
  <2>1. in \in DOMAIN peerFib[q] /\ (q = r => in[1] # s)
    BY <1>3, <1>9
  <2>2. in[1] \in Session /\ status[q][in[1]] = "connected"
    BY <2>1 DEF IInv, FibLive
  <2> QED BY <1>8, <2>1, <2>2
<1> QED BY <1>8, <1>9, <1>10 DEF IInv

\* The client's end.
LEMMA ClientLostKeepsInvariant ==
  ASSUME IInv, NEW s \in Session, ClientLost(s)
  PROVE  IInv'
<1> DEFINE r == Client[s]
           w == State(r)
           x == [w EXCEPT !.st[s] = "disconnected"]
           y == SessionLost(x, s)
<1>1. r \in Node
  BY TopologyAssumption
<1>2. ClientDisconnected(s, y.out) /\ Becomes(y) /\ Forwards(y)
  BY Zenon DEF ClientLost
<1>3. Fine(w)
  BY <1>1, StateFine DEF IInv
<1>4. Keeps(w, x)
  <2> HIDE DEF w
  <2> DEFINE a == [w.st EXCEPT ![s] = "disconnected"]
  <2>1. x = [w EXCEPT !.st = a]
    BY <1>3 DEF Fine, IsState
  <2> HIDE DEF a
  <2>2. Keeps(w, [w EXCEPT !.st = a])
    BY <1>3, KnowsKeeps
  <2> HIDE DEF x
  <2> QED BY <2>1, <2>2
<1> HIDE DEF x
<1>5. Fine(y)
  <2>1. Fine(x) /\ x.r = r /\ Small(table[r])
    BY <1>1, <1>4, StateFine DEF Keeps, IInv, Tables
  <2>2. Loses(x, y, s)
    BY <2>1, SessionLostLoses
  <2> HIDE DEF y
  <2> QED BY <2>2 DEF Loses
<1>6. y = SessionLost(x, s)
  OBVIOUS
<1> HIDE DEF y
<1> QED BY <1>1, <1>2, <1>4, <1>5, <1>6, LostKeepsInvariant

\* The server's end.
LEMMA ServerLostKeepsInvariant ==
  ASSUME IInv, NEW s \in Session, ServerLost(s)
  PROVE  IInv'
<1> DEFINE r == Server[s]
           x == State(r)
           y == SessionLost(x, s)
           e == [y EXCEPT !.subSns[s] = NoSns, !.peerSns[s] = EmptyMap,
                          !.clientFib = Repoint(@, s, Expired),
                          !.peerFib = RepointAll(@, s, Expired)]
           z == IF y.failed THEN y ELSE e
<1>1. r \in Node
  BY TopologyAssumption
<1>2. ServerDisconnected(s, y.out) /\ Becomes(y) /\ Forwards(z)
  BY Zenon DEF ServerLost
<1>3. Fine(x) /\ x.r = r /\ Small(table[r])
  BY <1>1, StateFine DEF IInv, Tables
<1>4. Keeps(x, x)
  BY <1>3 DEF Keeps
<1> HIDE DEF x
<1>5. Fine(y)
  <2>1. Loses(x, y, s)
    BY <1>3, SessionLostLoses
  <2> HIDE DEF y
  <2> QED BY <2>1 DEF Loses
<1>6. y = SessionLost(x, s)
  OBVIOUS
<1> HIDE DEF y
<1>7. Fine(e) /\ e.r = y.r /\ DOMAIN e.peerFib = DOMAIN y.peerFib
  BY <1>5, ExpiredFine
<1> HIDE DEF e
<1>8. Fine(z) /\ z.r = y.r /\ DOMAIN z.peerFib = DOMAIN y.peerFib
  BY <1>5, <1>7
<1> HIDE DEF z
<1>9. Keeps(State(r), x)
  BY <1>4 DEF x
<1> QED BY <1>1, <1>2, <1>6, <1>8, <1>9, LostKeepsInvariant

\* The publisher's PUBLISH.
LEMMA PublishKeepsInvariant ==
  ASSUME IInv, Publish
  PROVE  IInv'
<1> DEFINE x == ClientAnnounce(State(Origin))
<1>1. Origin \in Node
  BY ForwardingAssumption
<1>2. Fine(State(Origin))
  BY <1>1, StateFine DEF IInv
<1>3. Keeps(State(Origin), x) /\ Operation(Origin, x)
  BY <1>2, ClientAnnounceKeeps DEF Publish
<1> HIDE DEF x
<1> QED BY <1>1, <1>3, OperationKeepsInvariant

\* A client unsubscribes.
LEMMA UnsubscribeKeepsInvariant ==
  ASSUME IInv, NEW r \in Node, UnsubscribeReceived(r)
  PROVE  IInv'
<1> DEFINE w == State(r)
           x == [w EXCEPT !.local = @ - 1]
           y == RemoveOrPausePublisherSubscribe(x)
<1>1. Fine(w)
  BY StateFine DEF IInv
<1>2. Operation(r, y)
  BY Zenon DEF UnsubscribeReceived
<1>3. Keeps(w, x)
  <2> HIDE DEF w
  <2> DEFINE a == w.local - 1
  <2>1. x = [w EXCEPT !.local = a]
    BY <1>1 DEF Fine, IsState
  <2> HIDE DEF a
  <2>2. Keeps(w, [w EXCEPT !.local = a])
    BY <1>1, KnowsKeeps
  <2> HIDE DEF x
  <2> QED BY <2>1, <2>2
<1> HIDE DEF x
<1>4. Keeps(w, y)
  <2> HIDE DEF w
  <2>1. Fine(x)
    BY <1>3 DEF Keeps
  <2>2. Keeps(x, y)
    BY <2>1, RemoveOrPauseKeeps
  <2> HIDE DEF y
  <2> QED BY <1>3, <2>2, KeepsTwo
<1> HIDE DEF y
<1> QED BY <1>2, <1>4, OperationKeepsInvariant

\* A client subscribes.
LEMMA SubscribeKeepsInvariant ==
  ASSUME IInv, NEW r \in Node, NEW p, ClientSubscribe(r, p)
  PROVE  IInv'
<1> DEFINE info == [seq |-> 0, data |-> [priority |-> p, newGroup |-> FALSE]]
           key == <<TheTrack, r>>
           out == Subs!Flood(r, status[r], key, info, FALSE, NoSession)
           sb == Subs!AddSubscribe(subs[r], key, info)
<1>1. /\ subs' = [subs EXCEPT ![r] = sb]
      /\ chan' = Subs!Sent(chan, r, status[r], remote[r], out)
      /\ UNCHANGED <<status, remote, transport, drops>>
      /\ UNCHANGED <<nodeVars, fwdVars>>
  BY SubsNames DEF ClientSubscribe, Subs!ClientSubscribe, Subs!Operation, Subs!Result
<1>2. IsFiniteSet(DOMAIN subs[r]) /\ DOMAIN subs = Node
  BY DEF IInv, Tables
<1>3. IsFiniteSet(DOMAIN sb)
  <2>1. sb = Put(subs[r], key, info) \/ sb = subs[r]
    BY SubsNames DEF Subs!AddSubscribe
  <2>2. IsFiniteSet(DOMAIN Put(subs[r], key, info))
    BY <1>2, PutFinite
  <2> HIDE DEF sb, key, info
  <2> QED BY <1>2, <2>1, <2>2
<1>4. Output(out)
  BY FloodOutput
<1> HIDE DEF out, sb
<1>5. chan' = Sent(chan, r, status[r], remote[r], out)
  BY <1>1, SubsNames DEF Subs!Sent, Sent, Subs!Peer, Peer, Subs!NoNode, NoNode
<1>6. PICK M : Sessions(M)
  BY DEF IInv
<1>7. PICK N : AllNews(N) /\ out \in Outputs(N)
  BY <1>4, OutputSet
<1> DEFINE K == M \cup N
<1>8. Sessions(K) /\ out \in Outputs(K)
  BY <1>6, <1>7, SessionsWider, OutputsMore
<1> HIDE DEF K
<1>9. Sessions(K)'
  BY <1>1, <1>5, <1>8, SendSessions
<1>10. /\ table' = table /\ subSns' = subSns /\ peerSns' = peerSns /\ peerFib' = peerFib
  BY <1>1 DEF nodeVars, fwdVars
<1>11. Tables'
  <2>1. DOMAIN subs' = Node /\ \A q \in Node : IsFiniteSet(DOMAIN subs'[q])
    BY <1>1, <1>2, <1>3 DEF IInv, Tables
  <2> QED BY <1>10, <2>1 DEF IInv, Tables
<1>12. FibLive'
  BY <1>1, <1>10 DEF IInv, FibLive
<1> QED BY <1>9, <1>11, <1>12 DEF IInv

\* Every step keeps the invariant.
LEMMA NextInvariant == IInv /\ [Next]_vars => IInv'
<1> SUFFICES ASSUME IInv, [Next]_vars PROVE IInv'
  OBVIOUS
<1>1. ASSUME NEW s \in Session, Reconnect(s) PROVE IInv'
  BY <1>1, ReconnectKeepsInvariant
<1>2. ASSUME NEW s \in Session, ClientLost(s) PROVE IInv'
  BY <1>2, ClientLostKeepsInvariant
<1>3. ASSUME NEW s \in Session, ServerLost(s) PROVE IInv'
  BY <1>3, ServerLostKeepsInvariant
<1>4. ASSUME NEW s \in Session, OnNewConnection(s) \/ OnReady(s) \/ Break(s),
             UNCHANGED <<nodeVars, subVars, fwdVars>>
      PROVE  IInv'
  BY <1>4, SessionKeepsInvariant
<1>5. ASSUME NEW s \in Session, NEW r \in Node, Deliver(r, s) PROVE IInv'
  BY <1>5, DeliverKeepsInvariant
<1>6. CASE Publish
  BY <1>6, PublishKeepsInvariant
<1>7. ASSUME NEW r \in Node, NEW p \in Priority, ClientSubscribe(r, p) PROVE IInv'
  BY <1>7, SubscribeKeepsInvariant
<1>8. ASSUME NEW r \in Node, UnsubscribeReceived(r) PROVE IInv'
  BY <1>8, UnsubscribeKeepsInvariant
<1>9. CASE UNCHANGED vars
  <2>1. /\ UNCHANGED <<status, remote, transport, chan, drops>>
        /\ UNCHANGED <<table, subs, subSns, peerSns, peerFib>>
    BY <1>9 DEF vars, sessionVars, nodeVars, subVars, fwdVars
  <2>2. PICK M : Sessions(M)
    BY DEF IInv
  <2>3. Sessions(M)'
    BY <2>1, <2>2 DEF Sessions, SessionTypes, Live
  <2>4. Tables' /\ FibLive'
    BY <2>1 DEF IInv, Tables, FibLive
  <2> QED BY <2>3, <2>4 DEF IInv
<1>10. CASE Idle
  BY <1>9, <1>10 DEF Idle
<1> QED BY <1>1, <1>2, <1>3, <1>4, <1>5, <1>6, <1>7, <1>8, <1>9, <1>10 DEF Next

\* Data that comes in on a session finds entries of peer_fib_ only while the
\* relay has that session: PurgePeerSessionInfo leaves none, and SnsReceived
\* never makes one for a session that is not connected.
THEOREM ForwardingIngressLive == Spec => []IngressLive
<1>1. IInv => IngressLive
  BY DEF IInv, FibLive, IngressLive
<1> QED BY <1>1, InitInvariant, NextInvariant, PTL DEF Spec
=============================================================================
