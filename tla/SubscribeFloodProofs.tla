------------------------- MODULE SubscribeFloodProofs -------------------------
(***************************************************************************)
(* Proofs about SubscribeFlood.  The types hold for every network, with    *)
(* failures and reconnections.  That a relay is never told about its own   *)
(* subscription, and that all relays end up knowing the same ones, holds   *)
(* for every tree of relays while no transport fails; in a ring it does    *)
(* not.                                                                    *)
(***************************************************************************)
EXTENDS SubscribeFlood, PeeringProofs

Keys == Track \X Node

Data == [priority : Priority, newGroup : BOOLEAN]

Msgs == [kind : {"sub", "unsub"}, key : Keys, seq : 0..(SeqModulus - 1), data : Data]

Bases == UNION {[D -> Infos] : D \in SUBSET Keys}

\* The types of the state.
Types ==
    /\ subs \in [Node -> Bases]
    /\ local \in [Node -> [Track -> Nat]]
    /\ \A r \in Node, t \in Track : local[r][t] <= Clients[r]
    /\ ops \in 0..MaxOps
    /\ SessionTypes(Msgs)

-----------------------------------------------------------------------------
(***************************************************************************)
(* What a relay keeps and sends                                            *)
(***************************************************************************)

\* A key is a pair of naturals.
LEMMA KeyIs ==
  ASSUME NEW a \in Keys
  PROVE  /\ a[1] \in Track /\ a[2] \in Node /\ a = <<a[1], a[2]>>
         /\ a[1] \in Nat /\ a[2] \in Nat
<1>1. PICK t \in Track, n \in Node : a = <<t, n>>
  BY DEF Keys
<1>2. t \in Nat /\ n \in Nat
  BY SubscribeAssumption, TopologyAssumption
<1> QED BY <1>1, <1>2

\* A map of subscriptions.
LEMMA BaseIs ==
  ASSUME NEW sb
  PROVE  sb \in Bases <=> sb \in [DOMAIN sb -> Infos] /\ DOMAIN sb \subseteq Keys
  BY DEF Bases

\* No message of this module is one of the handshake.
LEMMA MsgsNoHello == NoHellos(Msgs)
  BY DEF NoHellos, Msgs, IsHello

\* A message for a key has its type.
LEMMA SubMsgType ==
  ASSUME NEW w \in BOOLEAN, NEW key \in Keys, NEW info \in Infos
  PROVE  /\ SubMsg(w, key, info) \in Msgs
         /\ SubMsg(w, key, info).key = key
         /\ SubMsg(w, key, info).kind = IF w THEN "unsub" ELSE "sub"
  BY DEF SubMsg, Msgs, Infos, Data

\* A remainder is in range.
LEMMA SeqInRange ==
  ASSUME NEW i \in Nat
  PROVE  i % SeqModulus \in 0..(SeqModulus - 1)
  BY SubscribeAssumption

\* One message about the key on every connected session but one.
Floods(out, st, key, w, except) ==
    /\ out \in Outputs(Msgs)
    /\ \A s \in Session :
          /\ st[s] = "connected" /\ s # except =>
                \E m \in Msgs : /\ out[s] = <<m>> /\ m.key = key
                               /\ m.kind = IF w THEN "unsub" ELSE "sub"
          /\ ~ (st[s] = "connected" /\ s # except) => out[s] = <<>>

\* That is what Flood puts out.
LEMMA FloodIs ==
  ASSUME NEW r, NEW st, NEW key \in Keys, NEW info \in Infos, NEW w \in BOOLEAN,
         NEW except
  PROVE  Floods(Flood(r, st, key, info, w, except), st, key, w, except)
<1> DEFINE out == Flood(r, st, key, info, w, except)
           targets == {s \in Session : st[s] = "connected" /\ s # except}
           rank(s) == Cardinality({x \in targets : Before(r, x, s)}) + 1
           seq(s)  == IF key[2] = r THEN (info.seq + rank(s)) % SeqModulus
                      ELSE info.seq
           msg(s) == SubMsg(w, key, [info EXCEPT !.seq = seq(s)])
<1>1. out = [s \in Session |-> IF s \in targets THEN <<msg(s)>> ELSE <<>>]
  BY DEF Flood
<1>2. IsFiniteSet(Session)
  BY MaxSessionAssumption, FS_Interval DEF Session
<1>3. ASSUME NEW s \in Session
      PROVE  msg(s) \in Msgs /\ msg(s).key = key
             /\ msg(s).kind = IF w THEN "unsub" ELSE "sub"
  <2>1. info.seq \in 0..(SeqModulus - 1)
    BY DEF Infos
  <2>2. rank(s) \in Nat
    <3> DEFINE T == {x \in targets : Before(r, x, s)}
    <3>1. T \in SUBSET Session
      OBVIOUS
    <3> HIDE DEF T
    <3>2. Cardinality(T) \in Nat
      BY <1>2, <3>1, FS_Subset, FS_CardinalityType
    <3> QED BY <3>2 DEF T
  <2> HIDE DEF rank
  <2>3. seq(s) \in 0..(SeqModulus - 1)
    <3>1. info.seq + rank(s) \in Nat
      BY <2>1, <2>2, SubscribeAssumption
    <3> QED BY <2>1, <3>1, SeqInRange
  <2> HIDE DEF seq
  <2>4. [info EXCEPT !.seq = seq(s)] \in Infos
    BY <2>3 DEF Infos
  <2> DEFINE i == [info EXCEPT !.seq = seq(s)]
  <2> HIDE DEF i
  <2>5. i \in Infos
    BY <2>4 DEF i
  <2> QED BY <2>5, SubMsgType DEF i
<1> HIDE DEF msg
<1>4. \A s \in Session : out[s] \in Seq(Msgs)
  <2> TAKE s \in Session
  <2>1. <<msg(s)>> \in Seq(Msgs) /\ <<>> \in Seq(Msgs)
    BY <1>3
  <2> QED BY <1>1, <2>1
<1>5. out \in Outputs(Msgs)
  <2> HIDE DEF out
  <2>1. DOMAIN out = Session /\ out = [s \in Session |-> out[s]]
    BY <1>1
  <2> QED BY <1>4, <2>1 DEF Outputs
<1>6. ASSUME NEW s \in Session
      PROVE  /\ st[s] = "connected" /\ s # except =>
                \E m \in Msgs : /\ out[s] = <<m>> /\ m.key = key
                               /\ m.kind = IF w THEN "unsub" ELSE "sub"
             /\ ~ (st[s] = "connected" /\ s # except) => out[s] = <<>>
  BY <1>1, <1>3
<1> HIDE DEF out
<1>7. Floods(out, st, key, w, except)
  BY <1>5, <1>6 DEF Floods
<1> QED BY <1>7 DEF out

\* Two outputs after each other.
LEMMA BothIs ==
  ASSUME NEW a \in Outputs(Msgs), NEW b \in Outputs(Msgs)
  PROVE  /\ Both(a, b) \in Outputs(Msgs)
         /\ \A s \in Session : Both(a, b)[s] = a[s] \o b[s]
<1>1. \A s \in Session : a[s] \o b[s] \in Seq(Msgs)
  <2> TAKE s \in Session
  <2>1. a[s] \in Seq(Msgs) /\ b[s] \in Seq(Msgs)
    BY DEF Outputs
  <2> QED BY <2>1
<1> QED BY <1>1 DEF Both, Outputs

-----------------------------------------------------------------------------
(***************************************************************************)
(* What a relay's result tells its peers                                   *)
(***************************************************************************)
Pos(key) == {m \in Msgs : m.kind = "sub" /\ m.key = key}

Neg(key) == {m \in Msgs : m.kind = "unsub" /\ m.key = key}

\* Output o takes a peer that knows what is in D to what is in E, as far as
\* the key is concerned.
Tells(o, key, D, E) == Leads(o, Pos(key), Neg(key), key \in D, key \in E)

\* A result of relay r that holds sb, upon a message about source src over
\* session e: it tells of r's own subscriptions everywhere and of src's
\* everywhere but on e.
Speaks(r, sb, st, e, src, res) ==
    /\ res.subs \in Bases
    /\ res.out \in Outputs(Msgs)
    /\ \A s \in Session : \A i \in 1..Len(res.out[s]) :
          \/ res.out[s][i].key[2] = r
          \/ res.out[s][i].key[2] = src /\ s # e
    /\ \A s \in Session, key \in Keys :
          st[s] = "connected" /\ (s # e \/ key[2] # src) =>
             Tells(res.out[s], key, DOMAIN sb, DOMAIN res.subs)

\* Saying nothing tells nothing.
LEMMA NothingTells ==
  ASSUME NEW key, NEW D, NEW E, key \in D <=> key \in E
  PROVE  Tells(<<>>, key, D, E)
  BY LeadsNowhere DEF Tells

\* One message.
LEMMA MessageTells ==
  ASSUME NEW m \in Msgs, NEW key, NEW D, NEW E,
         IF m.key = key THEN key \in E <=> m.kind = "sub"
         ELSE key \in D <=> key \in E
  PROVE  Tells(<<m>>, key, D, E)
<1>1. m \in Pos(key) \cup Neg(key) <=> m.key = key
  BY DEF Pos, Neg, Msgs
<1>2. m \in Pos(key) <=> m.key = key /\ m.kind = "sub"
  BY DEF Pos
<1> QED BY <1>1, <1>2, LeadsOne DEF Tells

\* One output after the other.
LEMMA TellsTwice ==
  ASSUME NEW a \in Seq(Msgs), NEW b \in Seq(Msgs), NEW key, NEW D, NEW E, NEW F,
         Tells(a, key, D, E), Tells(b, key, E, F)
  PROVE  Tells(a \o b, key, D, F)
  BY LeadsConcat DEF Tells

\* Key k has gone from D, or come to it.
Changes(w, k, D, E) == E = IF w THEN D \ {k} ELSE D \cup {k}

\* A flood about key k tells that k has come or gone, and nothing else.
LEMMA FloodTells ==
  ASSUME NEW out, NEW st, NEW k, NEW w, NEW e, w \in BOOLEAN, Floods(out, st, k, w, e),
         NEW D, NEW E, Changes(w, k, D, E), NEW s \in Session
  PROVE  /\ \A i \in 1..Len(out[s]) : out[s][i].key = k /\ s # e
         /\ \A key \in Keys : st[s] = "connected" /\ (s # e \/ key # k) =>
                Tells(out[s], key, D, E)
<1> USE DEF Changes
<1>1. CASE st[s] = "connected" /\ s # e
  <2>1. PICK m \in Msgs : out[s] = <<m>> /\ m.key = k /\ m.kind = IF w THEN "unsub" ELSE "sub"
    BY <1>1 DEF Floods
  <2>2. \A key \in Keys : Tells(<<m>>, key, D, E)
    BY <2>1, MessageTells
  <2>3. \A i \in 1..Len(<<m>>) : <<m>>[i] = m
    OBVIOUS
  <2> QED BY <1>1, <2>1, <2>2, <2>3
<1>2. CASE ~ (st[s] = "connected" /\ s # e)
  <2>1. out[s] = <<>> /\ Len(<<>>) = 0
    BY <1>2 DEF Floods
  <2>2. ASSUME NEW key, key # k PROVE Tells(<<>>, key, D, E)
    <3>1. key \in D <=> key \in E
      BY <2>2
    <3> QED BY <3>1, NothingTells
  <2>3. \A key \in Keys : st[s] = "connected" /\ (s # e \/ key # k) =>
           Tells(out[s], key, D, E)
    BY <1>2, <2>1, <2>2
  <2>4. \A i \in 1..0 : FALSE
    OBVIOUS
  <2>5. \A i \in 1..Len(out[s]) : out[s][i].key = k /\ s # e
    BY <2>1, <2>4
  <2> QED BY <2>3, <2>5
<1> QED BY <1>1, <1>2

\* Taking a key out of a map.
LEMMA RemoveIs ==
  ASSUME NEW sb \in Bases, NEW key
  PROVE  /\ RemoveSubscribe(sb, key) \in Bases
         /\ DOMAIN RemoveSubscribe(sb, key) = DOMAIN sb \ {key}
         /\ \A k \in DOMAIN sb \ {key} : RemoveSubscribe(sb, key)[k] = sb[k]
<1> DEFINE new == RemoveSubscribe(sb, key)
<1>1. new = [k \in DOMAIN sb \ {key} |-> sb[k]]
  BY DEF RemoveSubscribe, Erase, Restrict
<1>2. sb \in [DOMAIN sb -> Infos] /\ DOMAIN sb \subseteq Keys
  BY BaseIs
<1> HIDE DEF new
<1>3. new \in [DOMAIN new -> Infos] /\ DOMAIN new = DOMAIN sb \ {key}
  BY <1>1, <1>2
<1>4. new \in Bases
  BY <1>2, <1>3, BaseIs
<1> QED BY <1>1, <1>3, <1>4 DEF new

\* Putting a key into a map.
LEMMA AddIs ==
  ASSUME NEW sb \in Bases, NEW key \in Keys, NEW info \in Infos
  PROVE  /\ AddSubscribe(sb, key, info) \in Bases
         /\ DOMAIN AddSubscribe(sb, key, info) = DOMAIN sb \cup {key}
<1> DEFINE new == Put(sb, key, info)
<1>1. new = [k \in DOMAIN sb \cup {key} |-> IF k = key THEN info ELSE sb[k]]
  BY DEF Put
<1>2. sb \in [DOMAIN sb -> Infos] /\ DOMAIN sb \subseteq Keys
  BY BaseIs
<1> HIDE DEF new
<1>3. new \in [DOMAIN new -> Infos] /\ DOMAIN new = DOMAIN sb \cup {key}
  BY <1>1, <1>2
<1>4. new \in Bases
  BY <1>2, <1>3, BaseIs
<1>5. AddSubscribe(sb, key, info) = IF IsNews(sb, key, info.seq) THEN new ELSE sb
  BY DEF AddSubscribe, new
<1>6. ~ IsNews(sb, key, info.seq) => key \in DOMAIN sb
  BY DEF IsNews
<1> QED BY <1>3, <1>4, <1>5, <1>6

\* Relay r, which holds sb, withdraws its own subscription to t, if it has one,
\* and tells everybody.
OwnGone(r, sb, st, t, res) ==
    /\ res.subs \in Bases /\ DOMAIN res.subs = DOMAIN sb \ {<<t, r>>}
    /\ \A k \in DOMAIN res.subs : res.subs[k] = sb[k]
    /\ res.out \in Outputs(Msgs)
    /\ \A s \in Session : \A i \in 1..Len(res.out[s]) : res.out[s][i].key[2] = r
    /\ \A s \in Session, key \in Keys :
          st[s] = "connected" => Tells(res.out[s], key, DOMAIN sb, DOMAIN res.subs)

\* That is what ClientUnsubscribe does.
LEMMA ClientUnsubscribeIs ==
  ASSUME NEW r \in Node, NEW sb \in Bases, NEW st, NEW t \in Track
  PROVE  OwnGone(r, sb, st, t, ClientUnsubscribe(r, sb, st, t))
<1> DEFINE res == ClientUnsubscribe(r, sb, st, t)
<1>1. PICK k : k = <<t, r>>
  OBVIOUS
<1> DEFINE out == Flood(r, st, k, sb[k], TRUE, NoSession)
<1>2. CASE k \notin DOMAIN sb
  <2>1. res.subs = sb /\ res.out = NoOutput
    BY <1>1, <1>2 DEF ClientUnsubscribe, Result
  <2>2. /\ NoOutput \in Outputs(Msgs)
        /\ \A s \in Session : NoOutput[s] = <<>> /\ Len(NoOutput[s]) = 0
    BY NoOutputType DEF NoOutput
  <2> HIDE DEF res
  <2>3. \A s \in Session, key \in Keys : Tells(res.out[s], key, DOMAIN sb, DOMAIN res.subs)
    BY <2>1, <2>2, NothingTells
  <2>4. DOMAIN res.subs = DOMAIN sb \ {<<t, r>>}
    BY <1>1, <1>2, <2>1
  <2>5. \A s \in Session : \A i \in 1..Len(res.out[s]) : res.out[s][i].key[2] = r
    <3>1. \A i \in 1..0 : FALSE
      OBVIOUS
    <3> QED BY <2>1, <2>2, <3>1
  <2>6. res.subs \in Bases /\ \A x \in DOMAIN res.subs : res.subs[x] = sb[x]
    BY <2>1
  <2>7. res.out \in Outputs(Msgs)
    BY <2>1, <2>2
  <2>8. OwnGone(r, sb, st, t, res)
    BY <2>3, <2>4, <2>5, <2>6, <2>7 DEF OwnGone
  <2> QED BY <2>8 DEF res
<1>3. CASE k \in DOMAIN sb
  <2>1. res.subs = RemoveSubscribe(sb, k) /\ res.out = out
    BY <1>1, <1>3 DEF ClientUnsubscribe, Result
  <2>2. k \in Keys /\ sb[k] \in Infos
    <3>1. sb \in [DOMAIN sb -> Infos] /\ DOMAIN sb \subseteq Keys
      BY BaseIs
    <3> QED BY <1>3, <3>1
  <2>3. Floods(out, st, k, TRUE, NoSession)
    BY <2>2, FloodIs
  <2> HIDE DEF res, out
  <2>4. /\ res.subs \in Bases /\ DOMAIN res.subs = DOMAIN sb \ {k}
        /\ \A x \in DOMAIN res.subs : res.subs[x] = sb[x]
    <3> DEFINE new == RemoveSubscribe(sb, k)
    <3>1. /\ new \in Bases /\ DOMAIN new = DOMAIN sb \ {k}
          /\ \A x \in DOMAIN sb \ {k} : new[x] = sb[x]
      BY RemoveIs
    <3> HIDE DEF new
    <3>2. res.subs = new
      BY <2>1 DEF new
    <3> QED BY <3>1, <3>2
  <2>5. ASSUME NEW s \in Session
        PROVE  /\ \A i \in 1..Len(out[s]) : out[s][i].key = k
               /\ \A key \in Keys : st[s] = "connected" =>
                     Tells(out[s], key, DOMAIN sb, DOMAIN res.subs)
    <3>1. s # NoSession
      BY DEF Session, NoSession
    <3> DEFINE D == DOMAIN sb
               E == DOMAIN res.subs
               w == TRUE
    <3>2. Changes(w, k, D, E) /\ w \in BOOLEAN /\ Floods(out, st, k, w, NoSession)
      BY <2>3, <2>4 DEF Changes
    <3> HIDE DEF D, E, w
    <3>3. /\ \A i \in 1..Len(out[s]) : out[s][i].key = k /\ s # NoSession
          /\ \A key \in Keys : st[s] = "connected" /\ (s # NoSession \/ key # k) =>
                Tells(out[s], key, D, E)
      BY <3>2, FloodTells
    <3> QED BY <3>1, <3>3 DEF D, E
  <2>6. out \in Outputs(Msgs)
    BY <2>3 DEF Floods
  <2>7. OwnGone(r, sb, st, t, res)
    BY <1>1, <2>1, <2>4, <2>5, <2>6 DEF OwnGone
  <2> QED BY <2>7 DEF res
<1> QED BY <1>2, <1>3

\* A flood about k by a relay whose map changes accordingly.
LEMMA FloodSpeaks ==
  ASSUME NEW r, NEW sb \in Bases, NEW st, NEW e, NEW k \in Keys, NEW w, w \in BOOLEAN,
         NEW res, res.subs \in Bases, Floods(res.out, st, k, w, e),
         Changes(w, k, DOMAIN sb, DOMAIN res.subs)
  PROVE  Speaks(r, sb, st, e, k[2], res)
<1> DEFINE D == DOMAIN sb
           E == DOMAIN res.subs
           out == res.out
<1>1. Changes(w, k, D, E) /\ Floods(out, st, k, w, e)
  OBVIOUS
<1> HIDE DEF D, E, out
<1>2. ASSUME NEW s \in Session
      PROVE  /\ \A i \in 1..Len(out[s]) : out[s][i].key = k /\ s # e
             /\ \A key \in Keys : st[s] = "connected" /\ (s # e \/ key # k) =>
                   Tells(out[s], key, D, E)
  BY <1>1, FloodTells
<1>3. out \in Outputs(Msgs)
  BY <1>1 DEF Floods
<1>4. \A s \in Session, key \in Keys :
          st[s] = "connected" /\ (s # e \/ key[2] # k[2]) => Tells(out[s], key, D, E)
  BY <1>2
<1>5. \A s \in Session : \A i \in 1..Len(out[s]) : out[s][i].key[2] = k[2] /\ s # e
  BY <1>2
<1> QED BY <1>3, <1>4, <1>5 DEF Speaks, D, E, out

\* A relay that sends nothing and whose map keeps its keys.
LEMMA SilenceSpeaks ==
  ASSUME NEW r, NEW sb \in Bases, NEW st, NEW e, NEW src, NEW res,
         res.subs \in Bases, DOMAIN res.subs = DOMAIN sb, res.out = NoOutput
  PROVE  Speaks(r, sb, st, e, src, res)
<1>1. /\ NoOutput \in Outputs(Msgs)
      /\ \A s \in Session : NoOutput[s] = <<>> /\ Len(NoOutput[s]) = 0
  BY NoOutputType DEF NoOutput
<1>2. \A s \in Session, key \in Keys : Tells(res.out[s], key, DOMAIN sb, DOMAIN res.subs)
  <2> TAKE s \in Session, key \in Keys
  <2> DEFINE D == DOMAIN sb
             E == DOMAIN res.subs
  <2>1. key \in D <=> key \in E
    OBVIOUS
  <2> HIDE DEF D, E
  <2>2. Tells(<<>>, key, D, E)
    BY <2>1, NothingTells
  <2> QED BY <1>1, <2>2 DEF D, E
<1>3. \A s \in Session : \A i \in 1..Len(res.out[s]) : FALSE
  <2>1. \A i \in 1..0 : FALSE
    OBVIOUS
  <2> QED BY <1>1, <2>1
<1> QED BY <1>1, <1>2, <1>3 DEF Speaks

\* Withdrawing an own subscription speaks of nothing else.
LEMMA OwnGoneSpeaks ==
  ASSUME NEW r, NEW sb \in Bases, NEW st, NEW e, NEW src, NEW t, NEW res,
         OwnGone(r, sb, st, t, res)
  PROVE  Speaks(r, sb, st, e, src, res)
  BY DEF OwnGone, Speaks

\* One result after the other.
LEMMA SpeaksTwice ==
  ASSUME NEW r, NEW sb \in Bases, NEW st, NEW e, NEW src, NEW a, NEW b, NEW res,
         Speaks(r, sb, st, e, src, a), Speaks(r, a.subs, st, e, src, b),
         res.subs = b.subs, res.out = Both(a.out, b.out)
  PROVE  Speaks(r, sb, st, e, src, res)
<1>1. a.out \in Outputs(Msgs) /\ b.out \in Outputs(Msgs) /\ b.subs \in Bases
  BY DEF Speaks
<1>2. /\ res.out \in Outputs(Msgs)
      /\ \A s \in Session : res.out[s] = a.out[s] \o b.out[s]
  <2> DEFINE x == a.out
             y == b.out
  <2>1. x \in Outputs(Msgs) /\ y \in Outputs(Msgs) /\ res.out = Both(x, y)
    BY <1>1
  <2> HIDE DEF x, y
  <2>2. /\ Both(x, y) \in Outputs(Msgs)
        /\ \A s \in Session : Both(x, y)[s] = x[s] \o y[s]
    BY <2>1, BothIs
  <2> QED BY <2>1, <2>2 DEF x, y
<1>3. ASSUME NEW s \in Session
      PROVE  /\ a.out[s] \in Seq(Msgs) /\ b.out[s] \in Seq(Msgs)
             /\ \A i \in 1..Len(res.out[s]) :
                  \/ res.out[s][i].key[2] = r
                  \/ res.out[s][i].key[2] = src /\ s # e
  <2>1. a.out[s] \in Seq(Msgs) /\ b.out[s] \in Seq(Msgs)
    BY <1>1 DEF Outputs
  <2> DEFINE x == a.out[s]
             y == b.out[s]
  <2>2. /\ \A i \in 1..Len(x) : x[i].key[2] = r \/ (x[i].key[2] = src /\ s # e)
        /\ \A i \in 1..Len(y) : y[i].key[2] = r \/ (y[i].key[2] = src /\ s # e)
    BY DEF Speaks
  <2>3. x \in Seq(Msgs) /\ y \in Seq(Msgs) /\ res.out[s] = x \o y
    BY <1>2, <2>1
  <2> HIDE DEF x, y
  <2>4. /\ Len(x) \in Nat /\ Len(y) \in Nat /\ Len(x \o y) = Len(x) + Len(y)
        /\ \A i \in 1..Len(x \o y) :
              (x \o y)[i] = IF i <= Len(x) THEN x[i] ELSE y[i - Len(x)]
    BY <2>3
  <2>5. \A i \in 1..Len(x \o y) :
           (x \o y)[i].key[2] = r \/ ((x \o y)[i].key[2] = src /\ s # e)
    <3> TAKE i \in 1..Len(x \o y)
    <3>1. CASE i <= Len(x)
      BY <2>2, <2>4, <3>1
    <3>2. CASE ~ (i <= Len(x))
      <4>1. i - Len(x) \in 1..Len(y)
        BY <2>4, <3>2
      <4> QED BY <2>2, <2>4, <3>2, <4>1
    <3> QED BY <3>1, <3>2
  <2> QED BY <2>1, <2>3, <2>5
<1>4. ASSUME NEW s \in Session, NEW key \in Keys, st[s] = "connected",
             s # e \/ key[2] # src
      PROVE  Tells(res.out[s], key, DOMAIN sb, DOMAIN res.subs)
  <2> DEFINE D == DOMAIN sb
             E == DOMAIN a.subs
             F == DOMAIN b.subs
  <2>1. Tells(a.out[s], key, D, E) /\ Tells(b.out[s], key, E, F)
    BY <1>4 DEF Speaks
  <2> HIDE DEF D, E, F
  <2>2. Tells(a.out[s] \o b.out[s], key, D, F)
    BY <1>3, <2>1, TellsTwice
  <2> QED BY <1>2, <2>2 DEF D, F
<1> QED BY <1>1, <1>2, <1>3, <1>4 DEF Speaks

\* An advertisement.
LEMMA AdvertisedIs ==
  ASSUME NEW r, NEW s, NEW sb \in Bases, NEW st, NEW m \in Msgs
  PROVE  /\ Speaks(r, sb, st, s, m.key[2], Advertised(r, s, sb, st, m))
         /\ DOMAIN Advertised(r, s, sb, st, m).subs = DOMAIN sb \cup {m.key}
<1> DEFINE res == Advertised(r, s, sb, st, m)
           info == [seq |-> m.seq, data |-> m.data]
           new == AddSubscribe(sb, m.key, info)
<1>1. info \in Infos /\ m.key \in Keys /\ info.seq = m.seq
  BY DEF Msgs, Infos, Data
<1>2. /\ res.subs = new
      /\ res.out = IF IsNews(sb, m.key, m.seq)
                   THEN Flood(r, st, m.key, info, FALSE, s) ELSE NoOutput
  BY DEF Advertised, Result
<1> HIDE DEF info, res
<1>3. new \in Bases /\ DOMAIN new = DOMAIN sb \cup {m.key}
  BY <1>1, AddIs
<1> HIDE DEF new
<1>4. CASE IsNews(sb, m.key, m.seq)
  <2> DEFINE w == FALSE
             k == m.key
  <2>1. /\ Changes(w, k, DOMAIN sb, DOMAIN res.subs) /\ w \in BOOLEAN
        /\ res.out = Flood(r, st, k, info, w, s) /\ k \in Keys
    BY <1>1, <1>2, <1>3, <1>4 DEF Changes
  <2> HIDE DEF w, k
  <2>2. Floods(res.out, st, k, w, s)
    BY <1>1, <2>1, FloodIs
  <2>3. Speaks(r, sb, st, s, k[2], res)
    BY <1>2, <1>3, <2>1, <2>2, FloodSpeaks
  <2> QED BY <1>2, <1>3, <2>3 DEF k, res
<1>5. CASE ~ IsNews(sb, m.key, m.seq)
  <2>1. m.key \in DOMAIN sb
    BY <1>5 DEF IsNews
  <2>2. DOMAIN res.subs = DOMAIN sb /\ res.out = NoOutput /\ res.subs \in Bases
    BY <1>2, <1>3, <1>5, <2>1
  <2>3. Speaks(r, sb, st, s, m.key[2], res)
    BY <2>2, SilenceSpeaks
  <2> QED BY <1>2, <1>3, <2>3 DEF res
<1> QED BY <1>4, <1>5

\* A withdrawal.
LEMMA WithdrawnIs ==
  ASSUME NEW r \in Node, NEW s, NEW sb \in Bases, NEW st, NEW m \in Msgs
  PROVE  /\ Speaks(r, sb, st, s, m.key[2], Withdrawn(r, s, sb, st, m))
         /\ DOMAIN Withdrawn(r, s, sb, st, m).subs =
               DOMAIN sb \ {m.key, <<m.key[1], r>>}
<1> DEFINE res == Withdrawn(r, s, sb, st, m)
           info == [seq |-> m.seq, data |-> m.data]
           k == m.key
           t == m.key[1]
           flood == IF k \in DOMAIN sb THEN Flood(r, st, k, info, TRUE, s) ELSE NoOutput
           new == RemoveSubscribe(sb, k)
           a == Result(new, flood)
           b == ClientUnsubscribe(r, new, st, t)
<1>1. info \in Infos /\ k \in Keys /\ t \in Track
  BY DEF Msgs, Infos, Data, Keys
<1>2. res.subs = b.subs /\ res.out = Both(flood, b.out)
  BY DEF Withdrawn, Result
<1>3. a.subs = new /\ a.out = flood
  BY DEF Result
<1> HIDE DEF info, res, a, b
<1>4. new \in Bases /\ DOMAIN new = DOMAIN sb \ {k}
  BY RemoveIs
<1>5. OwnGone(r, new, st, t, b)
  BY <1>1, <1>4, ClientUnsubscribeIs DEF b
<1> HIDE DEF new
<1>6. Speaks(r, sb, st, s, k[2], a)
  <2>1. CASE k \in DOMAIN sb
    <3> DEFINE w == TRUE
               x == m.key
    <3>1. /\ Changes(w, x, DOMAIN sb, DOMAIN a.subs) /\ w \in BOOLEAN
          /\ a.out = Flood(r, st, x, info, w, s) /\ x \in Keys
      BY <1>1, <1>3, <1>4, <2>1 DEF Changes
    <3> HIDE DEF w, x
    <3>2. Floods(a.out, st, x, w, s)
      BY <1>1, <3>1, FloodIs
    <3>3. Speaks(r, sb, st, s, x[2], a)
      BY <1>3, <1>4, <3>1, <3>2, FloodSpeaks
    <3> QED BY <3>3 DEF x
  <2>2. CASE k \notin DOMAIN sb
    <3>1. DOMAIN a.subs = DOMAIN sb /\ a.out = NoOutput /\ a.subs \in Bases
      BY <1>3, <1>4, <2>2
    <3> QED BY <3>1, SilenceSpeaks
  <2> QED BY <2>1, <2>2
<1>7. Speaks(r, a.subs, st, s, k[2], b)
  BY <1>3, <1>4, <1>5, OwnGoneSpeaks
<1>8. Speaks(r, sb, st, s, k[2], res)
  BY <1>2, <1>3, <1>6, <1>7, SpeaksTwice
<1>9. DOMAIN res.subs = DOMAIN sb \ {k, <<t, r>>}
  BY <1>2, <1>4, <1>5 DEF OwnGone
<1> QED BY <1>8, <1>9 DEF res

\* A client subscribes, or asks for a new group.
LEMMA SubscribeIs ==
  ASSUME NEW r \in Node, NEW sb \in Bases, NEW st, NEW t \in Track, NEW info \in Infos,
         NEW res, res.subs \in Bases, DOMAIN res.subs = DOMAIN sb \cup {<<t, r>>},
         res.out = Flood(r, st, <<t, r>>, info, FALSE, NoSession)
  PROVE  Speaks(r, sb, st, NoSession, r, res)
<1> DEFINE w == FALSE
           k == <<t, r>>
<1>1. /\ Changes(w, k, DOMAIN sb, DOMAIN res.subs) /\ w \in BOOLEAN
      /\ res.out = Flood(r, st, k, info, w, NoSession) /\ k \in Keys /\ k[2] = r
  BY DEF Changes, Keys
<1> HIDE DEF w, k
<1>2. Floods(res.out, st, k, w, NoSession)
  BY <1>1, FloodIs
<1>3. Speaks(r, sb, st, NoSession, k[2], res)
  BY <1>1, <1>2, FloodSpeaks
<1> QED BY <1>1, <1>3

\* What relay r, which holds sb, tells the peer n that has just said hello:
\* all it knows but n's own subscriptions, each with one advertisement.
Synchronises(sb, n, res) ==
    /\ res.subs \in Bases /\ DOMAIN res.subs = DOMAIN sb
    /\ res.out \in Seq(Msgs)
    /\ \A i \in 1..Len(res.out) :
          /\ res.out[i].key \in DOMAIN sb /\ res.out[i].key[2] # n
          /\ res.out[i].kind = "sub"
    /\ \A key \in Keys : key[2] # n => Tells(res.out, key, {}, DOMAIN res.subs)

\* That is what InfoBaseSyncPeer returns.
LEMMA SyncIs ==
  ASSUME NEW r, NEW s, NEW sb \in Bases, NEW n
  PROVE  Synchronises(sb, n, InfoBaseSyncPeer(r, s, sb, n))
<1> DEFINE res == InfoBaseSyncPeer(r, s, sb, n)
           keys == {k \in DOMAIN sb : k[2] # n}
           bumped == [k \in DOMAIN sb |->
                     IF k \in keys /\ k[2] = r
                     THEN [sb[k] EXCEPT !.seq = (@ + 1) % SeqModulus] ELSE sb[k]]
           Less(a, b) == a[1] < b[1] \/ (a[1] = b[1] /\ a[2] < b[2])
           Key(i) == CHOOSE k \in keys : Cardinality({j \in keys : Less(j, k)}) = i - 1
           out == [i \in 1..Cardinality(keys) |-> SubMsg(FALSE, Key(i), bumped[Key(i)])]
           rel == {p \in Keys \X Keys : Less(p[1], p[2])}
<1>1. res.subs = bumped /\ res.out = out
  BY DEF InfoBaseSyncPeer, Result
<1> HIDE DEF res
<1>2. sb \in [DOMAIN sb -> Infos] /\ DOMAIN sb \subseteq Keys
  BY BaseIs
<1>3. bumped \in [DOMAIN sb -> Infos] /\ DOMAIN bumped = DOMAIN sb
  <2>1. ASSUME NEW k \in DOMAIN sb
        PROVE  bumped[k] \in Infos
    <3>1. sb[k] \in Infos
      BY <1>2
    <3> DEFINE i == sb[k]
    <3> HIDE DEF i
    <3>2. i \in Infos /\ i.seq \in 0..(SeqModulus - 1)
      BY <3>1 DEF i, Infos
    <3>3. i.seq + 1 \in Nat
      BY <3>2, SubscribeAssumption
    <3>4. (i.seq + 1) % SeqModulus \in 0..(SeqModulus - 1)
      BY <3>3, SeqInRange
    <3>5. [i EXCEPT !.seq = (@ + 1) % SeqModulus] \in Infos
      BY <3>2, <3>4 DEF Infos
    <3> QED BY <3>2, <3>5 DEF i
  <2> QED BY <2>1
<1> HIDE DEF bumped
<1>4. bumped \in Bases
  BY <1>2, <1>3, BaseIs
<1>5. keys \subseteq Keys /\ IsFiniteSet(keys)
  <2>1. IsFiniteSet(Keys)
    BY SubscribeAssumption, TopologyAssumption, FS_Product DEF Keys
  <2>2. keys \subseteq Keys
    BY <1>2
  <2> QED BY <2>1, <2>2, FS_Subset
<1>6. Orders(rel, keys)
  <2>1. \A a \in Keys : a[1] \in Nat /\ a[2] \in Nat /\ a = <<a[1], a[2]>>
    BY KeyIs
  <2>2. \A a, b \in Keys : <<a, b>> \in rel <=> Less(a, b)
    OBVIOUS
  <2> HIDE DEF rel, keys
  <2>3. \A a \in Keys : ~ Less(a, a)
    BY <2>1
  <2>4. \A a, b \in Keys : a # b => Less(a, b) \/ Less(b, a)
    BY <2>1
  <2>5. \A a, b, c \in Keys : Less(a, b) /\ Less(b, c) => Less(a, c)
    BY <2>1
  <2> HIDE DEF Less
  <2> QED BY <1>5, <2>2, <2>3, <2>4, <2>5 DEF Orders
<1>7. \A k \in keys : {j \in keys : Less(j, k)} = Below(keys, rel, k)
  <2> TAKE k \in keys
  <2>1. \A j \in keys : Less(j, k) <=> <<j, k>> \in rel
    BY <1>5
  <2> HIDE DEF rel, Less
  <2> QED BY <2>1 DEF Below
<1> DEFINE c == Cardinality(keys)
           At(k) == Cardinality(Below(keys, rel, k))
<1>8. /\ c \in Nat
      /\ \A i \in 1..c : \E k \in keys : At(k) = i - 1
      /\ \A k \in keys : At(k) + 1 \in 1..c
      /\ \A a, b \in keys : At(a) = At(b) => a = b
  <2> HIDE DEF keys, rel
  <2> QED BY <1>5, <1>6, Ranks
<1>9. ASSUME NEW i \in 1..c PROVE Key(i) \in keys /\ At(Key(i)) = i - 1
  <2>1. PICK k \in keys : At(k) = i - 1
    BY <1>8
  <2>2. Cardinality({j \in keys : Less(j, k)}) = i - 1
    BY <1>7, <2>1
  <2> DEFINE Q(x) == Cardinality({j \in keys : Less(j, x)}) = i - 1
  <2>3. Key(i) = CHOOSE x \in keys : Q(x)
    OBVIOUS
  <2>4. Q(k)
    BY <2>2
  <2> HIDE DEF Q, Key, keys, Less
  <2>5. Key(i) \in keys /\ Q(Key(i))
    BY <2>3, <2>4
  <2> QED BY <1>7, <2>5 DEF Q
<1> HIDE DEF Key
<1>10. ASSUME NEW k \in keys PROVE \E i \in 1..c : Key(i) = k
  <2> DEFINE i == At(k) + 1
  <2>1. i \in 1..c /\ At(k) = i - 1
    <3>1. i \in 1..c
      BY <1>8
    <3>2. At(k) \in Nat
      BY <1>5, FS_Subset, FS_CardinalityType DEF Below
    <3> QED BY <3>1, <3>2
  <2> HIDE DEF i
  <2>2. Key(i) \in keys /\ At(Key(i)) = At(k)
    BY <1>9, <2>1
  <2>3. Key(i) = k
    BY <1>8, <2>2
  <2> QED BY <2>1, <2>3
<1>11. ASSUME NEW i \in 1..c
       PROVE  /\ out[i] \in Msgs /\ out[i].key = Key(i) /\ out[i].kind = "sub"
  <2>1. Key(i) \in Keys /\ bumped[Key(i)] \in Infos
    BY <1>3, <1>5, <1>9
  <2> DEFINE w == FALSE
  <2>2. w \in BOOLEAN /\ out[i] = SubMsg(w, Key(i), bumped[Key(i)])
    OBVIOUS
  <2> DEFINE k == Key(i)
             info == bumped[k]
  <2> HIDE DEF w, out, k, info
  <2>3. k \in Keys /\ info \in Infos /\ out[i] = SubMsg(w, k, info)
    BY <2>1, <2>2 DEF k, info
  <2>4. /\ SubMsg(w, k, info) \in Msgs
        /\ SubMsg(w, k, info).key = k
        /\ SubMsg(w, k, info).kind = IF w THEN "unsub" ELSE "sub"
    BY <2>2, <2>3, SubMsgType
  <2> QED BY <2>3, <2>4 DEF w, k
<1>12. out \in Seq(Msgs) /\ Len(out) = c
  <2>1. DOMAIN out = 1..c /\ out = [i \in 1..c |-> out[i]]
    OBVIOUS
  <2> HIDE DEF out
  <2>2. out \in [1..c -> Msgs]
    BY <1>11, <2>1
  <2> HIDE DEF c
  <2> QED BY <1>8, <2>1, <2>2
<1> HIDE DEF out
<1>13. ASSUME NEW key \in Keys, key[2] # n
       PROVE  Tells(out, key, {}, DOMAIN bumped)
  <2>1. \A i \in 1..c : out[i] \in Pos(key) \cup Neg(key) <=> Key(i) = key
    BY <1>11 DEF Pos, Neg
  <2>2. \A i \in 1..c : Key(i) = key => out[i] \in Pos(key)
    BY <1>11 DEF Pos
  <2>3. key \in keys <=> key \in DOMAIN bumped
    BY <1>3, <1>13
  <2>4. key \in keys <=> \E i \in 1..c : Key(i) = key
    BY <1>9, <1>10
  <2> HIDE DEF keys
  <2> QED BY <1>12, <2>1, <2>2, <2>3, <2>4 DEF Tells, Leads
<1>14. \A i \in 1..c : out[i].key \in DOMAIN sb /\ out[i].key[2] # n
  BY <1>9, <1>11
<1>15. Synchronises(sb, n, res)
  BY <1>1, <1>3, <1>4, <1>11, <1>12, <1>13, <1>14 DEF Synchronises
<1> QED BY <1>15 DEF res

-----------------------------------------------------------------------------
(***************************************************************************)
(* The loop of SessionChanged                                              *)
(***************************************************************************)

\* h is a run of k rounds over the keys keyAt, from the result b.
LossRun(h, r, s, st, b, keyAt, k) ==
    /\ h = [i \in 0..k |-> h[i]]
    /\ h[0] = b
    /\ \A i \in 1..k : h[i] = WithdrawnByLoss(r, s, h[i - 1], st, keyAt[i])

\* There is one of any length.
LEMMA LossRunExists ==
  ASSUME NEW r, NEW s, NEW st, NEW b, NEW keyAt, NEW k \in Nat
  PROVE  \E h : LossRun(h, r, s, st, b, keyAt, k)
<1> DEFINE R(j) == \E h : LossRun(h, r, s, st, b, keyAt, j)
           T == {j \in Nat : ~ R(j)}
<1> SUFFICES ASSUME T # {} PROVE FALSE
  OBVIOUS
<1>1. PICK m \in T : \A j \in T : m <= j
  <2>1. T \subseteq Nat
    OBVIOUS
  <2> HIDE DEF T
  <2> QED BY <2>1, LeastElement
<1>2. m \in Nat /\ ~ R(m) /\ \A j \in Nat : j < m => R(j)
  <2> HIDE DEF R
  <2> QED BY <1>1
<1>3. CASE m = 0
  <2> DEFINE g == [i \in 0..0 |-> b]
  <2>1. g = [i \in 0..0 |-> g[i]] /\ g[0] = b
    OBVIOUS
  <2> HIDE DEF g
  <2>2. LossRun(g, r, s, st, b, keyAt, 0)
    BY <2>1 DEF LossRun
  <2> QED BY <1>2, <1>3, <2>2
<1>4. CASE m # 0
  <2>1. m - 1 \in Nat /\ m - 1 < m
    BY <1>2, <1>4
  <2>2. PICK h : LossRun(h, r, s, st, b, keyAt, m - 1)
    BY <1>2, <2>1
  <2> DEFINE last == WithdrawnByLoss(r, s, h[m - 1], st, keyAt[m])
             g == [i \in 0..m |-> IF i # m THEN h[i] ELSE last]
  <2>3. /\ h[0] = b
        /\ \A i \in 1..(m - 1) : h[i] = WithdrawnByLoss(r, s, h[i - 1], st, keyAt[i])
    BY <2>2 DEF LossRun
  <2>4. g = [i \in 0..m |-> g[i]] /\ g[0] = b
    BY <2>1, <2>3
  <2>5. ASSUME NEW i \in 1..m
        PROVE  g[i] = WithdrawnByLoss(r, s, g[i - 1], st, keyAt[i])
    <3>1. g[i - 1] = h[i - 1]
      BY <2>1
    <3>2. CASE i = m
      BY <2>1, <3>1, <3>2
    <3>3. CASE i # m
      <4>1. i \in 1..(m - 1) /\ g[i] = h[i]
        BY <2>1, <3>3
      <4> HIDE DEF g
      <4> QED BY <2>3, <3>1, <4>1
    <3> QED BY <3>2, <3>3
  <2> HIDE DEF g
  <2>6. LossRun(g, r, s, st, b, keyAt, m)
    BY <2>4, <2>5 DEF LossRun
  <2> QED BY <1>2, <2>6
<1> QED BY <1>3, <1>4

\* One round.
LEMMA LossRoundIs ==
  ASSUME NEW r \in Node, NEW s, NEW st, NEW acc, acc.subs \in Bases,
         acc.out \in Outputs(Msgs), NEW key, key \in DOMAIN acc.subs
  PROVE  /\ WithdrawnByLoss(r, s, acc, st, key).subs \in Bases
         /\ WithdrawnByLoss(r, s, acc, st, key).out \in Outputs(Msgs)
         /\ DOMAIN WithdrawnByLoss(r, s, acc, st, key).subs =
               DOMAIN acc.subs \ {key, <<key[1], r>>}
<1> DEFINE sb == acc.subs
           m == SubMsg(TRUE, key, sb[key])
           w == Withdrawn(r, s, sb, st, m)
           new == WithdrawnByLoss(r, s, acc, st, key)
<1>1. new.subs = w.subs /\ new.out = Both(acc.out, w.out)
  BY DEF WithdrawnByLoss, Result
<1>2. sb \in Bases /\ key \in Keys /\ sb[key] \in Infos
  BY BaseIs
<1>3. m \in Msgs /\ m.key = key
  <2> DEFINE i == sb[key]
             x == TRUE
  <2>1. m = SubMsg(x, key, i) /\ x \in BOOLEAN /\ i \in Infos
    BY <1>2
  <2> HIDE DEF i, m, x
  <2> QED BY <1>2, <2>1, SubMsgType
<1> HIDE DEF m, sb
<1>4. /\ Speaks(r, sb, st, s, m.key[2], w)
      /\ DOMAIN w.subs = DOMAIN sb \ {m.key, <<m.key[1], r>>}
  BY <1>2, <1>3, WithdrawnIs
<1> HIDE DEF w, new
<1>5. w.subs \in Bases /\ w.out \in Outputs(Msgs)
  BY <1>4 DEF Speaks
<1>6. Both(acc.out, w.out) \in Outputs(Msgs)
  <2> DEFINE x == acc.out
             y == w.out
  <2>1. x \in Outputs(Msgs) /\ y \in Outputs(Msgs)
    BY <1>5
  <2> HIDE DEF x, y
  <2>2. Both(x, y) \in Outputs(Msgs)
    BY <2>1, BothIs
  <2> QED BY <2>2 DEF x, y
<1> QED BY <1>1, <1>3, <1>4, <1>5, <1>6 DEF new, sb

\* The whole loop keeps the types: a round takes away no key of a later one.
LEMMA SessionLostIs ==
  ASSUME NEW r \in Node, NEW s, NEW st, subs[r] \in Bases
  PROVE  /\ SessionLost(r, s, st).subs \in Bases
         /\ SessionLost(r, s, st).out \in Outputs(Msgs)
<1> DEFINE n == remote[r][s]
           tracks == {t \in Track : <<t, n>> \in DOMAIN subs[r]}
           c == Cardinality(tracks)
           Nth(i) == CHOOSE t \in tracks : Cardinality({u \in tracks : u < t}) = i - 1
           keyAt == [i \in 1..c |-> <<Nth(i), n>>]
           b == Result(subs[r], NoOutput)
           after == CHOOSE f : f = [i \in 0..c |->
                       IF i = 0 THEN b
                       ELSE WithdrawnByLoss(r, s, f[i - 1], st, <<Nth(i), n>>)]
           rel == {p \in Nat \X Nat : p[1] < p[2]}
           At(t) == Cardinality(Below(tracks, rel, t))
<1>1. SessionLost(r, s, st) = after[c]
  BY DEF SessionLost
<1>2. tracks \subseteq Nat /\ IsFiniteSet(tracks)
  <2>1. tracks \subseteq Track
    OBVIOUS
  <2> QED BY <2>1, SubscribeAssumption, FS_Subset
<1>3. \A t \in tracks : {u \in tracks : u < t} = Below(tracks, rel, t)
  BY <1>2 DEF Below
<1>4. Orders(rel, tracks)
  <2>1. \A x, y \in Nat : <<x, y>> \in rel <=> x < y
    OBVIOUS
  <2> HIDE DEF rel, tracks
  <2>2. /\ \A x \in Nat : ~ (x < x)
        /\ \A x, y \in Nat : x # y => x < y \/ y < x
        /\ \A x, y, z \in Nat : x < y /\ y < z => x < z
    OBVIOUS
  <2> QED BY <1>2, <2>1, <2>2 DEF Orders
<1>5. /\ c \in Nat
      /\ \A i \in 1..c : \E t \in tracks : At(t) = i - 1
  <2> HIDE DEF tracks, rel
  <2>1. /\ Cardinality(tracks) \in Nat
        /\ \A i \in 1..Cardinality(tracks) :
              \E k \in tracks : Cardinality(Below(tracks, rel, k)) = i - 1
        /\ \A k \in tracks : Cardinality(Below(tracks, rel, k)) + 1 \in 1..Cardinality(tracks)
        /\ \A x, y \in tracks :
              Cardinality(Below(tracks, rel, x)) = Cardinality(Below(tracks, rel, y)) => x = y
    BY <1>2, <1>4, Ranks
  <2> QED BY <2>1
<1>6. ASSUME NEW i \in 1..c PROVE Nth(i) \in tracks /\ At(Nth(i)) = i - 1
  <2>1. PICK t \in tracks : At(t) = i - 1
    BY <1>5
  <2> DEFINE Q(x) == Cardinality({u \in tracks : u < x}) = i - 1
  <2>2. Nth(i) = CHOOSE x \in tracks : Q(x)
    OBVIOUS
  <2>3. Q(t)
    BY <1>3, <2>1
  <2> HIDE DEF Q, Nth, tracks
  <2>4. Nth(i) \in tracks /\ Q(Nth(i))
    BY <2>2, <2>3
  <2> QED BY <1>3, <2>4 DEF Q
<1>7. \A i, j \in 1..c : i # j => Nth(i) # Nth(j)
  <2> HIDE DEF Nth, At, tracks
  <2> QED BY <1>5, <1>6
<1>8. LossRun(after, r, s, st, b, keyAt, c)
  <2> DEFINE Eq(f) == f = [i \in 0..c |->
                       IF i = 0 THEN b
                       ELSE WithdrawnByLoss(r, s, f[i - 1], st, <<Nth(i), n>>)]
  <2> HIDE DEF Nth, b, n
  <2>1. \A i \in 1..c : keyAt[i] = <<Nth(i), n>>
    OBVIOUS
  <2> HIDE DEF tracks, keyAt
  <2>2. PICK h : LossRun(h, r, s, st, b, keyAt, c)
    BY <1>5, LossRunExists
  <2> HIDE DEF c
  <2>3. Eq(h)
    <3>1. /\ h = [i \in 0..c |-> h[i]] /\ h[0] = b
          /\ \A i \in 1..c : h[i] = WithdrawnByLoss(r, s, h[i - 1], st, <<Nth(i), n>>)
      BY <2>1, <2>2 DEF LossRun
    <3>2. \A i \in 0..c : h[i] = IF i = 0 THEN b
               ELSE WithdrawnByLoss(r, s, h[i - 1], st, <<Nth(i), n>>)
      <4> TAKE i \in 0..c
      <4>1. i # 0 => i \in 1..c
        BY <1>5
      <4> QED BY <3>1, <4>1
    <3> QED BY <3>1, <3>2
  <2>4. after = CHOOSE f : Eq(f)
    OBVIOUS
  <2> HIDE DEF after
  <2>5. Eq(after)
    <3> HIDE DEF Eq
    <3> QED BY <2>3, <2>4
  <2> DEFINE w == [i \in 0..c |-> IF i = 0 THEN b
                       ELSE WithdrawnByLoss(r, s, after[i - 1], st, <<Nth(i), n>>)]
  <2>6. after = w
    BY <2>5
  <2>7. \A i \in 0..c : w[i] = IF i = 0 THEN b
                       ELSE WithdrawnByLoss(r, s, after[i - 1], st, <<Nth(i), n>>)
    OBVIOUS
  <2>8. w = [i \in 0..c |-> w[i]]
    OBVIOUS
  <2> HIDE DEF w
  <2>9. after[0] = b
    <3>1. 0 \in 0..c
      BY <1>5
    <3> QED BY <2>6, <2>7, <3>1
  <2>10. \A i \in 1..c : after[i] = WithdrawnByLoss(r, s, after[i - 1], st, keyAt[i])
    <3> TAKE i \in 1..c
    <3>1. i \in 0..c /\ i # 0
      BY <1>5
    <3>2. after[i] = WithdrawnByLoss(r, s, after[i - 1], st, <<Nth(i), n>>)
      BY <2>6, <2>7, <3>1
    <3> QED BY <2>1, <3>2
  <2> QED BY <2>6, <2>8, <2>9, <2>10 DEF LossRun
<1>9. \A i \in 1..c : keyAt[i] = <<Nth(i), n>> /\ keyAt[i] \in DOMAIN subs[r]
  <2> TAKE i \in 1..c
  <2>1. keyAt[i] = <<Nth(i), n>>
    OBVIOUS
  <2>2. <<Nth(i), n>> \in DOMAIN subs[r]
    <3> HIDE DEF Nth
    <3> QED BY <1>6
  <2> QED BY <2>1, <2>2
<1> DEFINE J(i) == /\ after[i].subs \in Bases /\ after[i].out \in Outputs(Msgs)
                   /\ \A j \in 1..c : i < j => keyAt[j] \in DOMAIN after[i].subs
           T == {i \in 0..c : ~ J(i)}
<1>10. /\ after[0] = b /\ b.subs = subs[r] /\ b.out = NoOutput
       /\ \A i \in 1..c : after[i] = WithdrawnByLoss(r, s, after[i - 1], st, keyAt[i])
  <2>1. b.subs = subs[r] /\ b.out = NoOutput
    BY DEF Result
  <2> HIDE DEF after, keyAt, b
  <2> QED BY <1>8, <2>1 DEF LossRun
<1> HIDE DEF after, keyAt, b, Nth, c
<1>11. J(0)
  BY <1>9, <1>10, NoOutputType
<1>12. ASSUME NEW i \in 1..c, J(i - 1) PROVE J(i)
  <2> DEFINE acc == after[i - 1]
             key == keyAt[i]
             new == WithdrawnByLoss(r, s, acc, st, key)
  <2>1. /\ acc.subs \in Bases /\ acc.out \in Outputs(Msgs) /\ key \in DOMAIN acc.subs
        /\ after[i] = new
    BY <1>5, <1>10, <1>12
  <2> HIDE DEF acc, key
  <2>2. /\ new.subs \in Bases /\ new.out \in Outputs(Msgs)
        /\ DOMAIN new.subs = DOMAIN acc.subs \ {key, <<key[1], r>>}
    BY <2>1, LossRoundIs
  <2> HIDE DEF new
  <2>3. ASSUME NEW j \in 1..c, i < j PROVE keyAt[j] \in DOMAIN new.subs
    <3>1. i - 1 < j /\ i # j
      BY <1>5, <2>3
    <3>2. keyAt[j] \in DOMAIN acc.subs
      BY <1>12, <3>1 DEF acc
    <3>3. Nth(i) # Nth(j)
      BY <1>7, <3>1
    <3>4. keyAt[j] # key /\ keyAt[j] # <<key[1], r>>
      BY <1>9, <3>3 DEF key
    <3> QED BY <2>2, <3>2, <3>4
  <2> QED BY <2>1, <2>2, <2>3
<1>13. T = {}
  <2> HIDE DEF J
  <2> SUFFICES ASSUME T # {} PROVE FALSE
    OBVIOUS
  <2>1. PICK m \in T : \A j \in T : m <= j
    <3>1. T \subseteq Nat
      BY <1>5
    <3> HIDE DEF T
    <3> QED BY <3>1, LeastElement
  <2>2. m \in 0..c /\ m # 0 /\ ~ J(m)
    BY <1>11, <2>1
  <2>3. m \in 1..c /\ m - 1 \in 0..c /\ m - 1 < m
    BY <1>5, <2>2
  <2>4. J(m - 1)
    BY <1>5, <2>1, <2>3
  <2> QED BY <1>12, <2>2, <2>3, <2>4
<1>14. J(c)
  <2> HIDE DEF J
  <2> QED BY <1>5, <1>13
<1> QED BY <1>1, <1>14

-----------------------------------------------------------------------------
(***************************************************************************)
(* The steps                                                               *)
(***************************************************************************)

\* What a client's operation at relay r comes to: the map changes in r's own
\* subscriptions only, and the peers are told.
Operates(r, res) ==
    /\ Operation(r, res)
    /\ Speaks(r, subs[r], status[r], NoSession, r, res)
    /\ \A key \in Keys : key[2] # r => (key \in DOMAIN res.subs <=> key \in DOMAIN subs[r])
    /\ local' \in [Node -> [Track -> Nat]]
    /\ \A q \in Node, t \in Track : local'[q][t] <= Clients[q]

\* Every one of the clients' operations does.
LEMMA OperationIs ==
  ASSUME Types, NEW r \in Node, NEW t \in Track,
         \/ \E p \in Priority : ClientSubscribe(r, t, p)
         \/ ClientSubscribeUpdate(r, t)
         \/ UnsubscribeReceived(r, t)
  PROVE  \E res : Operates(r, res)
<1> DEFINE k == <<t, r>>
           sb == subs[r]
           st == status[r]
<1>1. sb \in Bases /\ k \in Keys /\ k[2] = r
  BY DEF Types, Keys
<1>2. /\ local \in [Node -> [Track -> Nat]] /\ Clients \in [Node -> Nat]
      /\ \A q \in Node, x \in Track : local[q][x] <= Clients[q]
  BY SubscribeAssumption DEF Types
<1>3. ASSUME NEW p \in Priority, ClientSubscribe(r, t, p)
      PROVE  \E res : Operates(r, res)
  <2> DEFINE info == [seq |-> 0, data |-> [priority |-> p, newGroup |-> FALSE]]
             new == AddSubscribe(sb, k, info)
             out == Flood(r, st, k, info, FALSE, NoSession)
             res == Result(new, out)
  <2>1. Operation(r, res)
    BY <1>3 DEF ClientSubscribe
  <2>2. info \in Infos
    BY SubscribeAssumption DEF Infos
  <2>3. res.subs = new /\ res.out = out
    BY DEF Result
  <2> HIDE DEF info
  <2>4. new \in Bases /\ DOMAIN new = DOMAIN sb \cup {k}
    BY <1>1, <2>2, AddIs
  <2> HIDE DEF new, res
  <2>5. Speaks(r, sb, st, NoSession, r, res)
    BY <1>1, <2>2, <2>3, <2>4, SubscribeIs
  <2>6. \A key \in Keys : key[2] # r => (key \in DOMAIN res.subs <=> key \in DOMAIN sb)
    BY <1>1, <2>3, <2>4
  <2>7. /\ local' \in [Node -> [Track -> Nat]]
        /\ \A q \in Node, x \in Track : local'[q][x] <= Clients[q]
    <3>1. local[r][t] < Clients[r] /\ local' = [local EXCEPT ![r][t] = @ + 1]
      BY <1>3 DEF ClientSubscribe
    <3> QED BY <1>2, <3>1
  <2> QED BY <2>1, <2>5, <2>6, <2>7 DEF Operates
<1>4. CASE ClientSubscribeUpdate(r, t)
  <2> DEFINE info == [sb[k] EXCEPT !.data.newGroup = TRUE]
             out == Flood(r, st, k, info, FALSE, NoSession)
             res == Result(sb, out)
  <2>1. Operation(r, res) /\ local' = local /\ k \in DOMAIN sb
    BY <1>4 DEF ClientSubscribeUpdate
  <2>2. info \in Infos
    <3>1. sb[k] \in Infos
      BY <1>1, <2>1, BaseIs
    <3> DEFINE i == sb[k]
    <3> HIDE DEF i
    <3>2. i \in Infos /\ info = [i EXCEPT !.data.newGroup = TRUE]
      BY <3>1 DEF i
    <3> QED BY <3>2 DEF Infos
  <2>3. res.subs = sb /\ res.out = out
    BY DEF Result
  <2> HIDE DEF info, res
  <2>4. DOMAIN res.subs = DOMAIN sb \cup {k}
    BY <2>1, <2>3
  <2>5. Speaks(r, sb, st, NoSession, r, res)
    BY <1>1, <2>2, <2>3, <2>4, SubscribeIs
  <2> QED BY <1>2, <2>1, <2>3, <2>5 DEF Operates
<1>5. CASE UnsubscribeReceived(r, t)
  <2> DEFINE res == ClientUnsubscribe(r, sb, st, t)
  <2>1. Operation(r, res)
    BY <1>5 DEF UnsubscribeReceived
  <2>2. OwnGone(r, sb, st, t, res)
    BY <1>1, ClientUnsubscribeIs
  <2> HIDE DEF res
  <2>3. Speaks(r, sb, st, NoSession, r, res)
    BY <1>1, <2>2, OwnGoneSpeaks
  <2>4. \A key \in Keys : key[2] # r => (key \in DOMAIN res.subs <=> key \in DOMAIN sb)
    BY <1>1, <2>2 DEF OwnGone
  <2>5. /\ local' \in [Node -> [Track -> Nat]]
        /\ \A q \in Node, x \in Track : local'[q][x] <= Clients[q]
    <3>1. local[r][t] > 0 /\ local' = [local EXCEPT ![r][t] = @ - 1]
      BY <1>5 DEF UnsubscribeReceived
    <3> QED BY <1>2, <3>1
  <2> QED BY <2>1, <2>3, <2>4, <2>5 DEF Operates
<1> QED BY <1>3, <1>4, <1>5

\* What taking message m of session s comes to, at a relay that holds sb.
Handles(r, s, sb, st, m, res) ==
    \/ /\ m \in Msgs /\ m.kind = "sub" /\ Speaks(r, sb, st, s, m.key[2], res)
       /\ DOMAIN res.subs = DOMAIN sb \cup {m.key}
    \/ /\ m \in Msgs /\ m.kind = "unsub" /\ Speaks(r, sb, st, s, m.key[2], res)
       /\ DOMAIN res.subs = DOMAIN sb \ {m.key, <<m.key[1], r>>}
    \/ /\ m \in Hellos
       /\ \E sync : /\ Synchronises(sb, m.id, sync) /\ res.subs = sync.subs
                    /\ res.out = [NoOutput EXCEPT ![s] = sync.out]

\* Whatever the message, the relay is left with a map and sends messages.
LEMMA HandlesTypes ==
  ASSUME NEW r, NEW s \in Session, NEW sb, NEW st, NEW m, NEW res,
         Handles(r, s, sb, st, m, res)
  PROVE  res.subs \in Bases /\ res.out \in Outputs(Msgs)
<1>1. CASE \E sync : /\ Synchronises(sb, m.id, sync) /\ res.subs = sync.subs
                     /\ res.out = [NoOutput EXCEPT ![s] = sync.out]
  <2>1. PICK sync : /\ Synchronises(sb, m.id, sync) /\ res.subs = sync.subs
                    /\ res.out = [NoOutput EXCEPT ![s] = sync.out]
    BY <1>1
  <2>2. sync.subs \in Bases /\ sync.out \in Seq(Msgs)
    BY <2>1 DEF Synchronises
  <2>3. NoOutput \in [Session -> Seq(Msgs)]
    BY NoOutputType DEF Outputs
  <2> QED BY <2>1, <2>2, <2>3 DEF Outputs
<1>2. CASE Speaks(r, sb, st, s, m.key[2], res)
  BY <1>2 DEF Speaks
<1> QED BY <1>1, <1>2 DEF Handles

\* Deliver does.
LEMMA DeliverIs ==
  ASSUME Types, NEW r \in Node, NEW s \in Session, Deliver(r, s)
  PROVE  \E m, res :
            /\ chan[r][s] # <<>> /\ m = Head(chan[r][s]) /\ Take(r, s, m, res.out)
            /\ subs' = [subs EXCEPT ![r] = res.subs]
            /\ UNCHANGED <<local, ops>>
            /\ Handles(r, s, subs[r], StatusAfter(r, s, m), m, res)
<1> DEFINE m == Head(chan[r][s])
           st == StatusAfter(r, s, m)
           sb == subs[r]
           sync == InfoBaseSyncPeer(r, s, sb, m.id)
           res == CASE m.kind = "sub"   -> Advertised(r, s, sb, st, m)
                    [] m.kind = "unsub" -> Withdrawn(r, s, sb, st, m)
                    [] OTHER -> Result(sync.subs, [NoOutput EXCEPT ![s] = sync.out])
<1>1. /\ chan[r][s] # <<>> /\ Take(r, s, m, res.out)
      /\ subs' = [subs EXCEPT ![r] = res.subs] /\ UNCHANGED <<local, ops>>
  BY DEF Deliver
<1>2. m \in Msgs \cup Hellos /\ sb \in Bases
  <2>1. chan[r][s] \in Seq(Msgs \cup Hellos) /\ sb \in Bases
    BY DEF Types, SessionTypes
  <2>2. ASSUME NEW S, NEW ch \in Seq(S), ch # <<>> PROVE Head(ch) \in S
    BY <2>2
  <2> QED BY <1>1, <2>1, <2>2
<1> HIDE DEF m, sb, st
<1>3. \/ m \in Msgs /\ m.kind = "sub"
      \/ m \in Msgs /\ m.kind = "unsub"
      \/ m \in Hellos /\ m.kind # "sub" /\ m.kind # "unsub"
  BY <1>2 DEF Msgs, Hellos
<1>4. Handles(r, s, sb, st, m, res)
  <2>1. CASE m \in Msgs /\ m.kind = "sub"
    <3>1. res = Advertised(r, s, sb, st, m)
      BY <2>1
    <3>2. /\ Speaks(r, sb, st, s, m.key[2], Advertised(r, s, sb, st, m))
          /\ DOMAIN Advertised(r, s, sb, st, m).subs = DOMAIN sb \cup {m.key}
      BY <1>2, <2>1, AdvertisedIs
    <3> HIDE DEF res
    <3> QED BY <2>1, <3>1, <3>2 DEF Handles
  <2>2. CASE m \in Msgs /\ m.kind = "unsub"
    <3>1. res = Withdrawn(r, s, sb, st, m)
      BY <2>2
    <3>2. /\ Speaks(r, sb, st, s, m.key[2], Withdrawn(r, s, sb, st, m))
          /\ DOMAIN Withdrawn(r, s, sb, st, m).subs = DOMAIN sb \ {m.key, <<m.key[1], r>>}
      BY <1>2, <2>2, WithdrawnIs
    <3> HIDE DEF res
    <3> QED BY <2>2, <3>1, <3>2 DEF Handles
  <2>3. CASE m \in Hellos /\ m.kind # "sub" /\ m.kind # "unsub"
    <3>1. res = Result(sync.subs, [NoOutput EXCEPT ![s] = sync.out])
      BY <2>3
    <3>2. Synchronises(sb, m.id, sync)
      BY <1>2, SyncIs
    <3> HIDE DEF res, sync
    <3>3. res.subs = sync.subs /\ res.out = [NoOutput EXCEPT ![s] = sync.out]
      BY <3>1 DEF Result
    <3> QED BY <2>3, <3>2, <3>3 DEF Handles
  <2> QED BY <1>3, <2>1, <2>2, <2>3
<1> QED BY <1>1, <1>4 DEF m, sb, st

-----------------------------------------------------------------------------
(***************************************************************************)
(* The types                                                               *)
(***************************************************************************)

\* The initial state has them.
LEMMA InitHasTypes == Init => Types
<1> SUFFICES ASSUME Init PROVE Types
  OBVIOUS
<1>1. SessionTypes(Msgs)
  BY InitTypes DEF Init
<1>2. EmptyMap \in Bases
  <2>1. EmptyMap \in [{} -> Infos] /\ DOMAIN EmptyMap = {}
    BY DEF EmptyMap
  <2> QED BY <2>1 DEF Bases
<1>3. \A r \in Node : Clients[r] \in Nat /\ MaxOps \in Nat
  BY SubscribeAssumption
<1> QED BY <1>1, <1>2, <1>3, SubscribeAssumption DEF Init, Types

\* Every step keeps them.
LEMMA NextKeepsTypes == Types /\ [Next]_vars => Types'
<1> SUFFICES ASSUME Types, [Next]_vars PROVE Types'
  OBVIOUS
<1>1. ASSUME NEW s \in Session, Connect(s) \/ OnNewConnection(s) \/ OnReady(s),
             UNCHANGED <<subs, local, ops>>
      PROVE  Types'
  <2>1. SessionTypes(Msgs)'
    BY <1>1, OpeningTypes DEF Types
  <2> QED BY <1>1, <2>1 DEF Types
<1>2. ASSUME NEW s \in Session, NEW r \in Node, Deliver(r, s)
      PROVE  Types'
  <2>1. PICK m, res :
            /\ chan[r][s] # <<>> /\ m = Head(chan[r][s]) /\ Take(r, s, m, res.out)
            /\ subs' = [subs EXCEPT ![r] = res.subs]
            /\ UNCHANGED <<local, ops>>
            /\ Handles(r, s, subs[r], StatusAfter(r, s, m), m, res)
    BY <1>2, DeliverIs
  <2>2. res.subs \in Bases /\ res.out \in Outputs(Msgs)
    BY <2>1, HandlesTypes
  <2> DEFINE out == res.out
  <2> HIDE DEF out
  <2>3. out \in Outputs(Msgs) /\ Take(r, s, m, out)
    BY <2>1, <2>2 DEF out
  <2>4. SessionTypes(Msgs)'
    BY <2>1, <2>3, MsgsNoHello, TakeTypes DEF Types
  <2>5. subs' \in [Node -> Bases]
    BY <2>1, <2>2 DEF Types
  <2> QED BY <2>1, <2>4, <2>5 DEF Types
<1>3. ASSUME NEW s \in Session, NEW r \in Node, Disconnected(r, s)
      PROVE  Types'
  <2> DEFINE st == IF r = Client[s] THEN [status[r] EXCEPT ![s] = "disconnected"]
                   ELSE status[r]
             lost == SessionLost(r, s, st)
             out == lost.out
  <2>1. /\ ClientDisconnected(s, out) \/ ServerDisconnected(s, out)
        /\ subs' = [subs EXCEPT ![r] = lost.subs] /\ UNCHANGED <<local, ops>>
    BY <1>3 DEF Disconnected
  <2>2. lost.subs \in Bases /\ out \in Outputs(Msgs)
    <3> HIDE DEF st
    <3>1. subs[r] \in Bases
      BY DEF Types
    <3> QED BY <3>1, SessionLostIs
  <2> HIDE DEF lost, out
  <2>3. SessionTypes(Msgs)'
    BY <2>1, <2>2, DisconnectTypes DEF Types
  <2>4. subs' \in [Node -> Bases]
    BY <2>1, <2>2 DEF Types
  <2> QED BY <2>1, <2>3, <2>4 DEF Types
<1>4. ASSUME NEW r \in Node, NEW t \in Track,
             \/ \E p \in Priority : ClientSubscribe(r, t, p)
             \/ ClientSubscribeUpdate(r, t)
             \/ UnsubscribeReceived(r, t)
      PROVE  Types'
  <2>1. PICK res : Operates(r, res)
    BY <1>4, OperationIs
  <2> DEFINE out == res.out
  <2>2. res.subs \in Bases /\ out \in Outputs(Msgs)
    BY <2>1 DEF Operates, Speaks
  <2>3. /\ chan' = Sent(chan, r, status[r], remote[r], out)
        /\ UNCHANGED <<status, remote, transport, drops>>
        /\ subs' = [subs EXCEPT ![r] = res.subs] /\ ops < MaxOps /\ ops' = ops + 1
    BY <2>1 DEF Operates, Operation
  <2> HIDE DEF out
  <2>4. SessionTypes(Msgs)'
    BY <2>2, <2>3, SendTypes DEF Types
  <2>5. subs' \in [Node -> Bases]
    BY <2>2, <2>3 DEF Types
  <2>6. ops' \in 0..MaxOps
    BY <2>3, SubscribeAssumption DEF Types
  <2> QED BY <2>1, <2>4, <2>5, <2>6 DEF Types, Operates
<1>5. ASSUME NEW s \in Session, Break(s), UNCHANGED <<subs, local, ops>>
      PROVE  Types'
  <2>1. SessionTypes(Msgs)'
    BY <1>5, BreakTypes DEF Types
  <2> QED BY <1>5, <2>1 DEF Types
<1>6. CASE UNCHANGED vars
  BY <1>6 DEF Types, SessionTypes, vars, sessionVars
<1>7. CASE Idle
  BY <1>6, <1>7 DEF Idle
<1> QED BY <1>1, <1>2, <1>3, <1>4, <1>5, <1>6, <1>7 DEF Next, Progress

\* The types hold in every state.
LEMMA TypesHold == Spec => []Types
<1> QED BY InitHasTypes, NextKeepsTypes, PTL DEF Spec

\* The types of the proofs are those of the module.
LEMMA TypesAreTypeOK == Types => TypeOK
<1> SUFFICES ASSUME Types PROVE TypeOK
  OBVIOUS
<1>1. ASSUME NEW r \in Node
      PROVE  /\ DOMAIN subs[r] \subseteq Track \X Node
             /\ subs[r] \in [DOMAIN subs[r] -> Infos]
             /\ local[r] \in [Track -> 0..Clients[r]]
  <2>1. subs[r] \in Bases
    BY DEF Types
  <2> DEFINE sb == subs[r]
  <2> HIDE DEF sb
  <2>2. sb \in [DOMAIN sb -> Infos] /\ DOMAIN sb \subseteq Keys
    BY <2>1, BaseIs DEF sb
  <2>3. local[r] \in [Track -> 0..Clients[r]]
    BY SubscribeAssumption DEF Types
  <2> QED BY <2>2, <2>3 DEF Keys, sb
<1>2. ASSUME NEW r \in Node, NEW s \in Session, NEW i \in DOMAIN chan[r][s]
      PROVE  chan[r][s][i] \in Msgs \cup Hellos
  <2>1. chan[r][s] \in Seq(Msgs \cup Hellos)
    BY DEF Types, SessionTypes
  <2>2. ASSUME NEW S, NEW ch \in Seq(S), NEW j \in DOMAIN ch PROVE ch[j] \in S
    OBVIOUS
  <2> QED BY <2>1, <2>2
<1>3. SessionsType(Msgs)
  BY <1>2 DEF Types, SessionTypes, SessionsType, Hellos
<1> QED BY <1>1, <1>3 DEF TypeOK, Types, Msgs, Data, Keys

\* Whatever the network, the clients and the failures, the subscription maps
\* hold keys and information of the right kind, sequence numbers stay below
\* their modulus, no relay counts more clients than it has, and only messages
\* of the protocol travel: PeerManager and InfoBase never look up a
\* subscription that is not there, in the loop of SessionChanged either.
THEOREM SubscribeFloodTypeOK == Spec => []TypeOK
<1> QED BY TypesHold, TypesAreTypeOK, PTL

-----------------------------------------------------------------------------
(***************************************************************************)
(* Trees.  While no transport has failed, a message about a subscription   *)
(* of relay n only travels away from n, over the session up[n][r] to every *)
(* relay r; and what is on its way to r over that session takes r from     *)
(* what it knows of the subscription to what the relay before it knows.    *)
(***************************************************************************)

\* The messages of ch, on their way to r over s, are on the way from their
\* sources.
Routed(up, r, s, ch) ==
    \A i \in 1..Len(ch) :
        ch[i] \in Msgs => ch[i].key[2] # r /\ up[ch[i].key[2]][r] = s

\* What is on its way to r over s makes it agree with the relay at the other
\* end, as far as the key is concerned.
Edge(key, r, s) ==
    Leads(chan[r][s], Pos(key), Neg(key), key \in DOMAIN subs[r],
          remote[Peer(r, s)][s] # NoNode /\ key \in DOMAIN subs[Peer(r, s)])

Routes(up) == \A r \in Node, s \in Session : Routed(up, r, s, chan[r][s])

\* What r knows of n it has from the session that leads to n.
Reached(up) ==
    \A r \in Node : \A key \in DOMAIN subs[r] :
        key[2] # r => remote[r][up[key[2]][r]] # NoNode

Edges(up) == \A key \in Keys, r \in Node : r # key[2] => Edge(key, r, up[key[2]][r])

TreeInv(up) == drops = 0 => Handshakes /\ Routes(up) /\ Reached(up) /\ Edges(up)

\* Two sequences after each other.
LEMMA RoutedConcat ==
  ASSUME NEW S, NEW ch \in Seq(S), NEW out \in Seq(S), NEW up, NEW r, NEW s,
         Routed(up, r, s, ch), Routed(up, r, s, out)
  PROVE  Routed(up, r, s, ch \o out)
<1> DEFINE Q(m) == m \in Msgs => m.key[2] # r /\ up[m.key[2]][r] = s
<1>1. /\ Len(ch) \in Nat /\ Len(out) \in Nat /\ Len(ch \o out) = Len(ch) + Len(out)
      /\ \A i \in 1..Len(ch \o out) :
            (ch \o out)[i] = IF i <= Len(ch) THEN ch[i] ELSE out[i - Len(ch)]
  OBVIOUS
<1>2. (\A i \in 1..Len(ch) : Q(ch[i])) /\ (\A i \in 1..Len(out) : Q(out[i]))
  BY DEF Routed
<1>3. ASSUME NEW i \in 1..Len(ch \o out) PROVE Q((ch \o out)[i])
  <2> HIDE DEF Q
  <2>1. CASE i <= Len(ch)
    BY <1>1, <1>2, <2>1
  <2>2. CASE ~ (i <= Len(ch))
    <3>1. i - Len(ch) \in 1..Len(out)
      BY <1>1, <2>2
    <3> QED BY <1>1, <1>2, <2>2, <3>1
  <2> QED BY <2>1, <2>2
<1> QED BY <1>3 DEF Routed

\* What is left when the first message is taken.
LEMMA RoutedTail ==
  ASSUME NEW S, NEW ch \in Seq(S), ch # <<>>, NEW up, NEW r, NEW s, Routed(up, r, s, ch)
  PROVE  /\ Routed(up, r, s, Tail(ch))
         /\ Head(ch) \in Msgs => Head(ch).key[2] # r /\ up[Head(ch).key[2]][r] = s
<1> DEFINE rest == Tail(ch)
<1>1. /\ Len(rest) \in Nat /\ Len(ch) = Len(rest) + 1 /\ Head(ch) = ch[1]
      /\ \A i \in 1..Len(rest) : rest[i] = ch[i + 1]
  OBVIOUS
<1> HIDE DEF rest
<1>2. 1 \in 1..Len(ch) /\ \A i \in 1..Len(rest) : i + 1 \in 1..Len(ch)
  BY <1>1
<1>3. Routed(up, r, s, rest)
  BY <1>1, <1>2 DEF Routed
<1>4. Head(ch) \in Msgs => Head(ch).key[2] # r /\ up[Head(ch).key[2]][r] = s
  BY <1>1, <1>2 DEF Routed
<1> QED BY <1>3, <1>4 DEF rest

\* What relay x says of itself, and of the source of a message that came from
\* the session that leads there, is on its way from the source at the other end.
LEMMA SpeaksRouted ==
  ASSUME NEW dist, NEW up, IsTree(dist, up), NEW x \in Node, NEW sb, NEW st, NEW e,
         NEW src, NEW res, Speaks(x, sb, st, e, src, res),
         src = x \/ (src \in Node /\ up[src][x] = e),
         NEW y \in Session, Prev[y] = NoSession, x \in Ends(y)
  PROVE  Routed(up, Peer(x, y), y, res.out[y])
<1> SUFFICES ASSUME NEW i \in 1..Len(res.out[y]), res.out[y][i] \in Msgs
             PROVE  /\ res.out[y][i].key[2] # Peer(x, y)
                    /\ up[res.out[y][i].key[2]][Peer(x, y)] = y
  BY DEF Routed
<1> DEFINE n == res.out[y][i].key[2]
<1>1. n = x \/ (n = src /\ y # e)
  BY DEF Speaks
<1> HIDE DEF n
<1>2. n \in Node /\ (x # n => up[n][x] # y)
  BY <1>1
<1>3. Peer(x, y) # n /\ up[n][Peer(x, y)] = y
  BY <1>2, TreeOther
<1> QED BY <1>3 DEF n

\* An edge at whose ends nothing changes.
LEMMA EdgeStays ==
  ASSUME NEW key, NEW r, NEW s, Edge(key, r, s), chan'[r][s] = chan[r][s],
         remote'[Peer(r, s)][s] = remote[Peer(r, s)][s],
         key \in DOMAIN subs'[r] <=> key \in DOMAIN subs[r],
         key \in DOMAIN subs'[Peer(r, s)] <=> key \in DOMAIN subs[Peer(r, s)]
  PROVE  Edge(key, r, s)'
  BY DEF Edge, Leads, Peer

\* The far end sends.
LEMMA EdgeSends ==
  ASSUME NEW key, NEW r, NEW s, Edge(key, r, s), chan[r][s] \in Seq(Msgs \cup Hellos),
         NEW out \in Seq(Msgs),
         remote'[Peer(r, s)][s] = remote[Peer(r, s)][s],
         chan'[r][s] = IF remote[Peer(r, s)][s] # NoNode THEN chan[r][s] \o out
                       ELSE chan[r][s],
         key \in DOMAIN subs'[r] <=> key \in DOMAIN subs[r],
         remote[Peer(r, s)][s] # NoNode =>
            Tells(out, key, DOMAIN subs[Peer(r, s)], DOMAIN subs'[Peer(r, s)])
  PROVE  Edge(key, r, s)'
<1> DEFINE p == Peer(r, s)
           a == key \in DOMAIN subs[r]
           b == key \in DOMAIN subs[p]
           c == key \in DOMAIN subs'[p]
           S == Msgs \cup Hellos
           ch == chan[r][s]
<1>1. CASE remote[p][s] # NoNode
  <2>1. Leads(ch, Pos(key), Neg(key), a, b)
    BY <1>1 DEF Edge, Leads
  <2>2. Leads(out, Pos(key), Neg(key), b, c)
    BY <1>1 DEF Tells
  <2>3. out \in Seq(S) /\ ch \in Seq(S)
    OBVIOUS
  <2> HIDE DEF a, b, c, S, ch
  <2>4. Leads(ch \o out, Pos(key), Neg(key), a, c)
    BY <2>1, <2>2, <2>3, LeadsConcat
  <2>5. chan'[r][s] = ch \o out /\ remote'[p][s] # NoNode
    BY <1>1 DEF ch
  <2>6. Leads(chan'[r][s], Pos(key), Neg(key), key \in DOMAIN subs'[r],
              remote'[p][s] # NoNode /\ key \in DOMAIN subs'[p])
    BY <2>4, <2>5 DEF a, c, Leads
  <2> QED BY <2>6 DEF Edge, Peer
<1>2. CASE remote[p][s] = NoNode
  BY <1>2 DEF Edge, Leads, Peer
<1> QED BY <1>1, <1>2

\* The far end learns who r is and tells it all it knows.
LEMMA EdgeOpens ==
  ASSUME NEW key, NEW r, NEW s, Edge(key, r, s), chan[r][s] = <<>>,
         NEW out \in Seq(Msgs), NEW answer \in Seq(Hellos),
         remote[Peer(r, s)][s] = NoNode, remote'[Peer(r, s)][s] # NoNode,
         chan'[r][s] = chan[r][s] \o (answer \o out),
         key \in DOMAIN subs'[r] <=> key \in DOMAIN subs[r],
         Tells(out, key, {}, DOMAIN subs'[Peer(r, s)])
  PROVE  Edge(key, r, s)'
<1> DEFINE p == Peer(r, s)
           a == key \in DOMAIN subs[r]
           c == key \in DOMAIN subs'[p]
           b == key \in {}
           S == Msgs \cup Hellos
<1>1. \A h \in Hellos : h \notin Pos(key) \cup Neg(key)
  BY DEF Hellos, Pos, Neg
<1>2. Len(<<>>) = 0 /\ \A i \in 1..0 : FALSE
  OBVIOUS
<1>3. a <=> b
  BY <1>2 DEF Edge, Leads
<1>4. Leads(answer, Pos(key), Neg(key), a, b)
  <2>1. \A i \in 1..Len(answer) : answer[i] \notin Pos(key) \cup Neg(key)
    <3>1. \A i \in 1..Len(answer) : answer[i] \in Hellos
      OBVIOUS
    <3> QED BY <1>1, <3>1
  <2> HIDE DEF a, b
  <2> QED BY <1>3, <2>1, LeadsNowhere
<1>5. Leads(out, Pos(key), Neg(key), b, c)
  BY DEF Tells
<1>6. out \in Seq(S) /\ answer \in Seq(S)
  OBVIOUS
<1>7. chan'[r][s] = answer \o out
  <2>1. answer \o out \in Seq(S)
    BY <1>6
  <2> DEFINE all == answer \o out
  <2> HIDE DEF all, S
  <2>2. <<>> \o all = all
    BY <2>1 DEF all
  <2> QED BY <2>2 DEF all
<1> HIDE DEF a, b, c, S
<1>8. Leads(answer \o out, Pos(key), Neg(key), a, c)
  BY <1>4, <1>5, <1>6, LeadsConcat
<1>9. Leads(chan'[r][s], Pos(key), Neg(key), key \in DOMAIN subs'[r],
            remote'[p][s] # NoNode /\ key \in DOMAIN subs'[p])
  BY <1>7, <1>8 DEF a, c, Leads
<1> QED BY <1>9 DEF Edge, Peer

\* The near end takes a message.
LEMMA EdgeTakes ==
  ASSUME NEW key, NEW r, NEW s, Edge(key, r, s), chan[r][s] \in Seq(Msgs \cup Hellos),
         chan[r][s] # <<>>, chan'[r][s] = Tail(chan[r][s]),
         remote'[Peer(r, s)][s] = remote[Peer(r, s)][s],
         key \in DOMAIN subs'[Peer(r, s)] <=> key \in DOMAIN subs[Peer(r, s)],
         IF Head(chan[r][s]) \in Pos(key) \cup Neg(key)
         THEN key \in DOMAIN subs'[r] <=> Head(chan[r][s]) \in Pos(key)
         ELSE key \in DOMAIN subs'[r] <=> key \in DOMAIN subs[r]
  PROVE  Edge(key, r, s)'
<1> DEFINE p == Peer(r, s)
           a == key \in DOMAIN subs[r]
           c == key \in DOMAIN subs'[r]
           b == remote[p][s] # NoNode /\ key \in DOMAIN subs[p]
           S == Msgs \cup Hellos
           ch == chan[r][s]
<1>1. /\ Leads(ch, Pos(key), Neg(key), a, b) /\ ch \in Seq(S) /\ ch # <<>>
      /\ IF Head(ch) \in Pos(key) \cup Neg(key) THEN c <=> Head(ch) \in Pos(key)
         ELSE c <=> a
  BY DEF Edge
<1> HIDE DEF a, b, c, S, ch
<1>2. Leads(Tail(ch), Pos(key), Neg(key), c, b)
  BY <1>1, LeadsTail
<1>3. Leads(chan'[r][s], Pos(key), Neg(key), key \in DOMAIN subs'[r],
            remote'[p][s] # NoNode /\ key \in DOMAIN subs'[p])
  BY <1>2 DEF b, c, ch, Leads
<1> QED BY <1>3 DEF Edge, Peer

\* A client's operation keeps the invariant of trees.
LEMMA OperationKeepsTree ==
  ASSUME NEW dist, NEW up, IsTree(dist, up), Types, Types', Handshakes,
         Routes(up), Reached(up), Edges(up), NEW x \in Node, NEW res, Operates(x, res)
  PROVE  Handshakes' /\ Routes(up)' /\ Reached(up)' /\ Edges(up)'
<1> DEFINE out == res.out
           sb == subs[x]
<1>1. /\ out \in Outputs(Msgs) /\ Speaks(x, sb, status[x], NoSession, x, res)
      /\ chan' = Sent(chan, x, status[x], remote[x], out)
      /\ UNCHANGED <<status, remote, transport, drops>>
      /\ \A q \in Node : subs'[q] = IF q = x THEN res.subs ELSE subs[q]
      /\ \A key \in Keys : key[2] # x => (key \in DOMAIN res.subs <=> key \in DOMAIN sb)
  <2>1. Speaks(x, sb, status[x], NoSession, x, res) /\ Operation(x, res)
    BY DEF Operates
  <2>2. \A key \in Keys : key[2] # x => (key \in DOMAIN res.subs <=> key \in DOMAIN sb)
    BY DEF Operates
  <2>3. \A q \in Node : subs'[q] = IF q = x THEN res.subs ELSE subs[q]
    BY <2>1 DEF Operation, Types
  <2>4. out \in Outputs(Msgs)
    BY <2>1 DEF Speaks
  <2> QED BY <2>1, <2>2, <2>3, <2>4 DEF Operation
<1> HIDE DEF out, sb
<1>2. SessionTypes(Msgs) /\ chan \in [Node -> [Session -> Seq(Msgs \cup Hellos)]]
  BY DEF Types, SessionTypes
<1>3. /\ Handshakes'
      /\ \A q \in Node, y \in Session :
            chan'[q][y] = IF SentTo(x, remote[x], q, y)
                          THEN chan[q][y] \o out[y] ELSE chan[q][y]
  BY <1>1, <1>2, MsgsNoHello, SendHandshakes
<1>4. \A y \in Session : out[y] \in Seq(Msgs) /\ out[y] \in Seq(Msgs \cup Hellos)
  <2> TAKE y \in Session
  <2>1. out[y] \in Seq(Msgs)
    BY <1>1 DEF Outputs
  <2> QED BY <2>1
<1>5. ASSUME NEW q \in Node, NEW y \in Session PROVE Routed(up, q, y, chan'[q][y])
  <2>1. Routed(up, q, y, chan[q][y])
    BY DEF Routes
  <2>2. CASE SentTo(x, remote[x], q, y)
    <3>1. x \in Ends(y) /\ q = Peer(x, y) /\ remote[x][y] # NoNode
      BY <2>2 DEF SentTo
    <3>2. Prev[y] = NoSession
      BY <3>1, KnownConnected
    <3>3. Routed(up, q, y, out[y])
      BY <1>1, <3>1, <3>2, SpeaksRouted DEF out
    <3>4. Routed(up, q, y, chan[q][y] \o out[y])
      BY <1>2, <1>4, <2>1, <3>3, RoutedConcat
    <3> QED BY <1>3, <2>2, <3>4
  <2>3. CASE ~ SentTo(x, remote[x], q, y)
    BY <1>3, <2>1, <2>3
  <2> QED BY <2>2, <2>3
<1>6. Routes(up)'
  BY <1>5 DEF Routes, Routed
<1>7. Reached(up)'
  <2> SUFFICES ASSUME NEW r \in Node, NEW key \in DOMAIN subs'[r], key[2] # r
               PROVE  remote'[r][up[key[2]][r]] # NoNode
    BY DEF Reached
  <2>1. key \in Keys
    <3> DEFINE new == subs'[r]
    <3>1. new \in Bases /\ key \in DOMAIN new
      BY DEF Types
    <3> HIDE DEF new
    <3> QED BY <3>1, BaseIs
  <2>2. key \in DOMAIN subs[r]
    BY <1>1, <2>1 DEF sb
  <2> QED BY <1>1, <2>2 DEF Reached
<1>8. ASSUME NEW key \in Keys, NEW r \in Node, r # key[2]
      PROVE  Edge(key, r, up[key[2]][r])'
  <2> DEFINE n == key[2]
             s == up[n][r]
             p == Peer(r, s)
  <2>1. n \in Node /\ r # n
    BY <1>8, KeyIs
  <2>2. /\ s \in Session /\ r \in Ends(s) /\ p \in Node /\ p # r
        /\ Edge(key, r, s)
    BY <1>8, <2>1, TreeEnds DEF Edges
  <2>3. (key \in DOMAIN subs'[r] <=> key \in DOMAIN subs[r])
    BY <1>1, <2>1 DEF sb
  <2> HIDE DEF n, s
  <2>4. chan[r][s] \in Seq(Msgs \cup Hellos) /\ remote' = remote /\ Peer(p, s) = r
    BY <1>1, <1>2, <2>2, EndsFacts
  <2>5. p \in Ends(s)
    BY <2>2, EndsFacts
  <2>6. CASE x = p
    <3>1. SentTo(x, remote[x], r, s) <=> remote[p][s] # NoNode
      BY <2>4, <2>5, <2>6 DEF SentTo
    <3>2. chan'[r][s] = IF remote[p][s] # NoNode THEN chan[r][s] \o out[s] ELSE chan[r][s]
      BY <1>3, <2>2, <3>1
    <3>3. ASSUME remote[p][s] # NoNode
          PROVE  Tells(out[s], key, DOMAIN subs[p], DOMAIN subs'[p])
      <4>1. status[x][s] = "connected" /\ s # NoSession
        BY <2>2, <2>5, <2>6, <3>3, KnownConnected DEF Session, NoSession
      <4>2. Tells(out[s], key, DOMAIN sb, DOMAIN res.subs)
        BY <1>1, <2>2, <4>1 DEF Speaks, out
      <4>3. DOMAIN sb = DOMAIN subs[p] /\ DOMAIN res.subs = DOMAIN subs'[p]
        BY <1>1, <2>6 DEF sb
      <4> QED BY <4>2, <4>3
    <3>4. remote'[p][s] = remote[p][s] /\ out[s] \in Seq(Msgs)
      BY <1>4, <2>2, <2>4
    <3>5. Edge(key, r, s)'
      BY <2>2, <2>3, <2>4, <3>2, <3>3, <3>4, EdgeSends
    <3> QED BY <3>5 DEF s, n
  <2>7. CASE x # p
    <3>1. ~ SentTo(x, remote[x], r, s)
      <4>1. x \in Ends(s) => Peer(Peer(x, s), s) = x
        BY <2>2, EndsFacts
      <4> QED BY <2>7, <4>1 DEF SentTo
    <3>2. chan'[r][s] = chan[r][s] /\ remote'[p][s] = remote[p][s]
      BY <1>3, <2>2, <2>4, <3>1
    <3>3. subs'[p] = subs[p]
      BY <1>1, <2>2, <2>7
    <3>4. Edge(key, r, s)'
      BY <2>2, <2>3, <3>2, <3>3, EdgeStays
    <3> QED BY <3>4 DEF s, n
  <2> QED BY <2>6, <2>7
<1> QED BY <1>3, <1>6, <1>7, <1>8 DEF Edges

\* Relay x takes message m of session e, sends and is left with the result.
Receives(x, e, m, res) ==
    /\ chan[x][e] # <<>> /\ m = Head(chan[x][e]) /\ Take(x, e, m, res.out)
    /\ \A q \in Node : subs'[q] = IF q = x THEN res.subs ELSE subs[q]
    /\ Handles(x, e, subs[x], StatusAfter(x, e, m), m, res)

\* What relay x sends on session y as it takes message m of session e, behind
\* the answer.
LEMMA AnswerIs ==
  ASSUME NEW x \in Node, NEW e, NEW m, NEW y, NEW up, NEW q
  PROVE  /\ Answer(x, e, m, y) \in Seq(Hellos) /\ Routed(up, q, y, Answer(x, e, m, y))
         /\ (y # e \/ m.kind # "connect") => Answer(x, e, m, y) = <<>>
<1> DEFINE h == Hello("connectResponse", x)
<1>1. h \in Hellos /\ h \notin Msgs
  BY DEF Hello, Hellos, Msgs
<1> HIDE DEF h
<1>2. Answer(x, e, m, y) \in {<<h>>, <<>>}
  BY DEF Answer, h
<1>3. <<h>> \in Seq(Hellos) /\ <<>> \in Seq(Hellos)
  BY <1>1
<1>4. /\ Len(<<h>>) = 1 /\ Len(<<>>) = 0 /\ \A i \in 1..0 : FALSE
      /\ \A i \in 1..1 : <<h>>[i] = h
  OBVIOUS
<1>5. Routed(up, q, y, <<h>>) /\ Routed(up, q, y, <<>>)
  BY <1>1, <1>4 DEF Routed
<1> QED BY <1>2, <1>3, <1>5 DEF Answer

\* Taking a message about a subscription keeps the invariant of trees.
LEMMA TellKeepsTree ==
  ASSUME NEW dist, NEW up, IsTree(dist, up), Types, Types', Handshakes,
         Routes(up), Reached(up), Edges(up), NEW x \in Node, NEW e \in Session,
         NEW m \in Msgs, NEW res, Receives(x, e, m, res)
  PROVE  Handshakes' /\ Routes(up)' /\ Reached(up)' /\ Edges(up)'
<1> DEFINE out == res.out
           sb == subs[x]
           src == m.key[2]
<1>1. /\ chan[x][e] # <<>> /\ m = Head(chan[x][e]) /\ Take(x, e, m, out)
      /\ \A q \in Node : subs'[q] = IF q = x THEN res.subs ELSE subs[q]
      /\ Handles(x, e, sb, StatusAfter(x, e, m), m, res)
  BY DEF Receives
<1>2. /\ m \notin Hellos /\ ~ IsHello(m) /\ StatusAfter(x, e, m) = status[x]
      /\ m.kind # "connect" /\ m.key \in Keys
  BY DEF Hellos, Msgs, IsHello, StatusAfter
<1>3. Speaks(x, sb, status[x], e, src, res)
  BY <1>1, <1>2 DEF Handles
<1>4. \/ m.kind = "sub" /\ DOMAIN res.subs = DOMAIN sb \cup {m.key}
      \/ m.kind = "unsub" /\ DOMAIN res.subs = DOMAIN sb \ {m.key, <<m.key[1], x>>}
  BY <1>1, <1>2 DEF Handles
<1>5. out \in Outputs(Msgs)
  BY <1>3 DEF Speaks
<1>6. SessionTypes(Msgs) /\ chan \in [Node -> [Session -> Seq(Msgs \cup Hellos)]]
  BY DEF Types, SessionTypes
<1> HIDE DEF out, sb
<1>7. Handshakes' /\ Taken(Msgs, x, e, m, out)
  BY <1>1, <1>5, <1>6, MsgsNoHello, TakeHandshakes
<1>8. /\ x \in Ends(e) /\ remote[x][e] # NoNode
      /\ \A q \in Node, y \in Session : remote'[q][y] = remote[q][y]
      /\ chan'[x][e] = Tail(chan[x][e])
      /\ \A y \in Session : y # e => chan'[x][y] = chan[x][y]
  BY <1>2, <1>7 DEF Taken
<1>9. \A y \in Session : out[y] \in Seq(Msgs) /\ out[y] \in Seq(Msgs \cup Hellos)
  <2> TAKE y \in Session
  <2>1. out[y] \in Seq(Msgs)
    BY <1>5 DEF Outputs
  <2> QED BY <2>1
<1>10. ASSUME NEW q \in Node, NEW y \in Session, q # x
       PROVE  chan'[q][y] = IF x \in Ends(y) /\ q = Peer(x, y) /\ remote[x][y] # NoNode
                            THEN chan[q][y] \o out[y] ELSE chan[q][y]
  <2>1. Answer(x, e, m, y) = <<>>
    BY <1>2, AnswerIs
  <2>2. <<>> \o out[y] = out[y]
    BY <1>9
  <2>3. chan'[q][y] = IF SentTo(x, remote'[x], q, y)
                      THEN chan[q][y] \o (Answer(x, e, m, y) \o out[y]) ELSE chan[q][y]
    BY <1>7, <1>10 DEF Taken
  <2> QED BY <1>8, <2>1, <2>2, <2>3 DEF SentTo
<1>11. src \in Node /\ src # x /\ up[src][x] = e
  <2>1. Routed(up, x, e, chan[x][e]) /\ chan[x][e] \in Seq(Msgs \cup Hellos)
    BY <1>6 DEF Routes
  <2>2. src # x /\ up[src][x] = e
    BY <1>1, <2>1, RoutedTail
  <2> QED BY <1>2, <2>2, KeyIs
<1> HIDE DEF src
<1>12. ASSUME NEW q \in Node, NEW y \in Session PROVE Routed(up, q, y, chan'[q][y])
  <2>1. Routed(up, q, y, chan[q][y]) /\ chan[q][y] \in Seq(Msgs \cup Hellos)
    BY <1>6 DEF Routes
  <2>2. CASE q = x /\ y = e
    BY <1>1, <1>8, <2>1, <2>2, RoutedTail
  <2>3. CASE q = x /\ y # e
    BY <1>8, <2>1, <2>3
  <2>4. CASE q # x /\ x \in Ends(y) /\ q = Peer(x, y) /\ remote[x][y] # NoNode
    <3>1. Prev[y] = NoSession
      BY <2>4, KnownConnected
    <3>2. Routed(up, q, y, out[y])
      BY <1>3, <1>11, <2>4, <3>1, SpeaksRouted DEF out
    <3>3. Routed(up, q, y, chan[q][y] \o out[y])
      BY <1>9, <2>1, <3>2, RoutedConcat
    <3> QED BY <1>10, <2>4, <3>3
  <2>5. CASE q # x /\ ~ (x \in Ends(y) /\ q = Peer(x, y) /\ remote[x][y] # NoNode)
    BY <1>10, <2>1, <2>5
  <2> QED BY <2>2, <2>3, <2>4, <2>5
<1>13. Routes(up)'
  BY <1>12 DEF Routes, Routed
<1>14. Reached(up)'
  <2> SUFFICES ASSUME NEW r \in Node, NEW key \in DOMAIN subs'[r], key[2] # r
               PROVE  remote'[r][up[key[2]][r]] # NoNode
    BY DEF Reached
  <2>1. key \in Keys
    <3> DEFINE new == subs'[r]
    <3>1. new \in Bases /\ key \in DOMAIN new
      BY DEF Types
    <3> HIDE DEF new
    <3> QED BY <3>1, BaseIs
  <2>2. key[2] \in Node
    BY <2>1, KeyIs
  <2>3. up[key[2]][r] \in Session
    BY <2>2, TreeEnds
  <2>4. CASE key \in DOMAIN subs[r]
    <3>1. remote[r][up[key[2]][r]] # NoNode
      BY <2>4 DEF Reached
    <3> QED BY <1>8, <2>3, <3>1
  <2>5. CASE key \notin DOMAIN subs[r]
    <3>1. r = x /\ key = m.key
      BY <1>1, <1>4, <2>5 DEF sb
    <3> QED BY <1>8, <1>11, <3>1 DEF src
  <2> QED BY <2>4, <2>5
<1>15. ASSUME NEW key \in Keys, NEW r \in Node, r # key[2]
       PROVE  Edge(key, r, up[key[2]][r])'
  <2> DEFINE n == key[2]
             s == up[n][r]
             p == Peer(r, s)
  <2>1. n \in Node /\ r # n /\ key = <<key[1], n>>
    BY <1>15, KeyIs
  <2>2. /\ s \in Session /\ r \in Ends(s) /\ p \in Node /\ p # r
        /\ Edge(key, r, s) /\ (p # n => up[n][p] # s)
    <3>1. Edge(key, r, s)
      BY <1>15 DEF Edges
    <3> HIDE DEF n
    <3>2. /\ s \in Session /\ r \in Ends(s) /\ p \in Node /\ p # r
          /\ p # n => up[n][p] # s
      BY <2>1, TreeEnds
    <3> QED BY <3>1, <3>2
  <2> HIDE DEF n, s
  <2>3. chan[r][s] \in Seq(Msgs \cup Hellos) /\ Peer(p, s) = r /\ p \in Ends(s)
    BY <1>6, <2>2, EndsFacts
  <2>4. remote'[p][s] = remote[p][s]
    BY <1>8, <2>2
  <2>5. CASE x = r
    <3>1. subs'[p] = subs[p]
      BY <1>1, <2>2, <2>5
    <3>2. subs'[r] = res.subs /\ sb = subs[r]
      BY <1>1, <2>5 DEF sb
    <3>3. key # <<m.key[1], x>>
      BY <2>1, <2>5
    <3>4. key # m.key => (key \in DOMAIN subs'[r] <=> key \in DOMAIN subs[r])
      BY <1>4, <3>2, <3>3
    <3>5. key = m.key => (key \in DOMAIN subs'[r] <=> m.kind = "sub")
      BY <1>4, <3>2
    <3>6. CASE s = e
      <4>1. m \in Pos(key) \cup Neg(key) <=> m.key = key
        BY DEF Pos, Neg, Msgs
      <4>2. m \in Pos(key) <=> m.key = key /\ m.kind = "sub"
        BY DEF Pos
      <4>3. IF m \in Pos(key) \cup Neg(key)
            THEN key \in DOMAIN subs'[r] <=> m \in Pos(key)
            ELSE key \in DOMAIN subs'[r] <=> key \in DOMAIN subs[r]
        BY <3>4, <3>5, <4>1, <4>2
      <4>4. /\ chan[r][s] # <<>> /\ m = Head(chan[r][s]) /\ chan'[r][s] = Tail(chan[r][s])
        BY <1>1, <1>8, <2>5, <3>6
      <4>5. Edge(key, r, s)'
        BY <2>2, <2>3, <2>4, <3>1, <4>3, <4>4, EdgeTakes
      <4> QED BY <4>5 DEF s, n
    <3>7. CASE s # e
      <4>1. key # m.key
        BY <1>11, <2>5, <3>7 DEF src, s, n
      <4>2. chan'[r][s] = chan[r][s]
        BY <1>8, <2>2, <2>5, <3>7
      <4>3. Edge(key, r, s)'
        BY <2>2, <2>4, <3>1, <3>4, <4>1, <4>2, EdgeStays
      <4> QED BY <4>3 DEF s, n
    <3> QED BY <3>6, <3>7
  <2>6. CASE x = p
    <3>1. subs'[r] = subs[r] /\ subs'[p] = res.subs /\ sb = subs[p] /\ x # r
      BY <1>1, <2>2, <2>6 DEF sb
    <3>2. chan'[r][s] = IF remote[p][s] # NoNode THEN chan[r][s] \o out[s] ELSE chan[r][s]
      BY <1>10, <2>2, <2>3, <2>6, <3>1
    <3>3. s # e \/ n # src
      BY <1>11, <2>2, <2>6
    <3>4. ASSUME remote[p][s] # NoNode
          PROVE  Tells(out[s], key, DOMAIN subs[p], DOMAIN subs'[p])
      <4>1. status[x][s] = "connected"
        BY <2>2, <2>3, <2>6, <3>4, KnownConnected
      <4>2. Tells(out[s], key, DOMAIN sb, DOMAIN res.subs)
        BY <1>3, <2>2, <3>3, <4>1 DEF Speaks, out, n
      <4> QED BY <3>1, <4>2
    <3>5. out[s] \in Seq(Msgs)
      BY <1>9, <2>2
    <3>6. key \in DOMAIN subs'[r] <=> key \in DOMAIN subs[r]
      BY <3>1
    <3>7. Edge(key, r, s)'
      BY <2>2, <2>3, <2>4, <3>2, <3>4, <3>5, <3>6, EdgeSends
    <3> QED BY <3>7 DEF s, n
  <2>7. CASE x # r /\ x # p
    <3>1. ~ (x \in Ends(s) /\ r = Peer(x, s))
      BY <2>2, <2>7, EndsFacts
    <3>2. chan'[r][s] = chan[r][s]
      BY <1>10, <2>2, <2>7, <3>1
    <3>3. subs'[p] = subs[p] /\ subs'[r] = subs[r]
      BY <1>1, <2>2, <2>7
    <3>4. Edge(key, r, s)'
      BY <2>2, <2>4, <3>2, <3>3, EdgeStays
    <3> QED BY <3>4 DEF s, n
  <2> QED BY <2>5, <2>6, <2>7
<1> QED BY <1>7, <1>13, <1>14, <1>15 DEF Edges

\* The hello of a peer keeps the invariant of trees: what the sync tells the peer
\* has not come from it, since this end has not known it so far.
LEMMA HelloKeepsTree ==
  ASSUME NEW dist, NEW up, IsTree(dist, up), Types, Types', Handshakes,
         Routes(up), Reached(up), Edges(up), NEW x \in Node, NEW e \in Session,
         NEW m \in Hellos, NEW res, Receives(x, e, m, res)
  PROVE  Handshakes' /\ Routes(up)' /\ Reached(up)' /\ Edges(up)'
<1> DEFINE out == res.out
           sb == subs[x]
           v == Peer(x, e)
<1>1. /\ chan[x][e] # <<>> /\ m = Head(chan[x][e]) /\ Take(x, e, m, out)
      /\ \A q \in Node : subs'[q] = IF q = x THEN res.subs ELSE subs[q]
      /\ Handles(x, e, sb, StatusAfter(x, e, m), m, res)
  BY DEF Receives
<1>2. m \notin Msgs /\ \A key : m \notin Pos(key) \cup Neg(key)
  BY DEF Hellos, Msgs, Pos, Neg
<1>3. PICK sync : /\ Synchronises(sb, m.id, sync) /\ res.subs = sync.subs
                  /\ out = [NoOutput EXCEPT ![e] = sync.out]
  BY <1>1, <1>2 DEF Handles
<1>4. /\ DOMAIN res.subs = DOMAIN sb /\ sync.out \in Seq(Msgs)
      /\ \A i \in 1..Len(sync.out) :
            sync.out[i].key \in DOMAIN sb /\ sync.out[i].key[2] # m.id
      /\ \A key \in Keys : key[2] # m.id => Tells(sync.out, key, {}, DOMAIN res.subs)
  BY <1>3 DEF Synchronises
<1>5. \A y \in Session : out[y] = IF y = e THEN sync.out ELSE <<>>
  <2>1. NoOutput \in [Session -> Seq(Msgs)] /\ \A y \in Session : NoOutput[y] = <<>>
    BY NoOutputType DEF Outputs, NoOutput
  <2> QED BY <1>3, <2>1
<1>6. out \in Outputs(Msgs)
  BY <1>1, HandlesTypes
<1>7. SessionTypes(Msgs) /\ chan \in [Node -> [Session -> Seq(Msgs \cup Hellos)]]
  BY DEF Types, SessionTypes
<1> HIDE DEF out, sb
<1>8. Handshakes' /\ Taken(Msgs, x, e, m, out)
  BY <1>1, <1>6, <1>7, MsgsNoHello, TakeHandshakes
<1>9. /\ x \in Ends(e) /\ remote[x][e] = NoNode /\ m.id = v /\ remote'[x][e] = v
      /\ chan[v][e] = <<>>
      /\ \A q \in Node, y \in Session : q # x \/ y # e => remote'[q][y] = remote[q][y]
      /\ chan'[x][e] = Tail(chan[x][e])
      /\ \A y \in Session : y # e => chan'[x][y] = chan[x][y]
  BY <1>8 DEF Taken
<1>10. v \in Node /\ v # x /\ v # NoNode /\ Peer(v, e) = x
  BY <1>9, EndsFacts
<1>11. \A q \in Node : \A key : key \in DOMAIN subs'[q] <=> key \in DOMAIN subs[q]
  BY <1>1, <1>4 DEF sb
<1>12. ASSUME NEW q \in Node, NEW y \in Session, q # x, y # e
       PROVE  chan'[q][y] = chan[q][y]
  <2>1. Answer(x, e, m, y) = <<>> /\ out[y] = <<>>
    BY <1>5, <1>12, AnswerIs
  <2>2. chan[q][y] \in Seq(Msgs \cup Hellos)
    BY <1>7
  <2>3. ASSUME NEW S, NEW ch \in Seq(S) PROVE ch \o (<<>> \o <<>>) = ch
    OBVIOUS
  <2>4. chan'[q][y] = IF SentTo(x, remote'[x], q, y)
                      THEN chan[q][y] \o (Answer(x, e, m, y) \o out[y]) ELSE chan[q][y]
    BY <1>8, <1>12 DEF Taken
  <2> QED BY <2>1, <2>2, <2>3, <2>4
<1>13. ASSUME NEW q \in Node, q # x, q # v
       PROVE  chan'[q][e] = chan[q][e]
  <2>1. chan'[q][e] = IF SentTo(x, remote'[x], q, e)
                      THEN chan[q][e] \o (Answer(x, e, m, e) \o out[e]) ELSE chan[q][e]
    BY <1>8, <1>13 DEF Taken
  <2> QED BY <1>13, <2>1 DEF SentTo
<1> DEFINE answer == Answer(x, e, m, e)
<1>14. chan'[v][e] = chan[v][e] \o (answer \o sync.out)
  <2>1. chan'[v][e] = IF SentTo(x, remote'[x], v, e)
                      THEN chan[v][e] \o (Answer(x, e, m, e) \o out[e]) ELSE chan[v][e]
    BY <1>8, <1>10 DEF Taken
  <2>2. SentTo(x, remote'[x], v, e)
    BY <1>9, <1>10 DEF SentTo
  <2> QED BY <1>5, <2>1, <2>2
<1>15. answer \in Seq(Hellos) /\ Routed(up, v, e, answer)
  BY AnswerIs
<1> HIDE DEF v, answer
<1>16. Prev[e] = NoSession
  <2>1. Phase(e)' /\ (Prev[e] # NoSession => transport'[e] = "idle")
    BY <1>8 DEF Handshakes
  <2>2. remote'[x][e] # NoNode
    BY <1>9, <1>10
  <2> QED BY <1>9, <2>1, <2>2 DEF Phase, Unopened, Asked, Answered, Joined, Ends
<1>17. Routed(up, v, e, sync.out)
  <2> SUFFICES ASSUME NEW i \in 1..Len(sync.out)
               PROVE  /\ sync.out[i].key[2] # v /\ up[sync.out[i].key[2]][v] = e
    BY DEF Routed
  <2> DEFINE key == sync.out[i].key
             n == key[2]
  <2>1. key \in DOMAIN sb /\ n # v
    BY <1>4, <1>9
  <2>2. n \in Node
    <3>1. sb \in Bases
      BY DEF sb, Types
    <3> HIDE DEF key
    <3>2. key \in Keys
      BY <2>1, <3>1, BaseIs
    <3> QED BY <3>2, KeyIs
  <2>3. x # n => up[n][x] # e
    <3> HIDE DEF key
    <3> QED BY <1>9, <2>1 DEF Reached, sb
  <2> HIDE DEF n
  <2>4. Peer(x, e) # n /\ up[n][Peer(x, e)] = e
    BY <1>9, <1>16, <2>2, <2>3, TreeOther
  <2> QED BY <2>4 DEF v, n
<1>18. ASSUME NEW q \in Node, NEW y \in Session PROVE Routed(up, q, y, chan'[q][y])
  <2>1. Routed(up, q, y, chan[q][y]) /\ chan[q][y] \in Seq(Msgs \cup Hellos)
    BY <1>7 DEF Routes
  <2>2. CASE q = x /\ y = e
    BY <1>1, <1>9, <2>1, <2>2, RoutedTail
  <2>3. CASE q = x /\ y # e
    BY <1>9, <2>1, <2>3
  <2>4. CASE q = v /\ y = e
    <3> DEFINE S == Msgs \cup Hellos
    <3>1. answer \in Seq(S) /\ sync.out \in Seq(S) /\ chan[v][e] \in Seq(S)
      BY <1>4, <1>15, <2>1, <2>4
    <3> DEFINE more == sync.out
               ch == chan[v][e]
    <3> HIDE DEF S, more, ch
    <3>2. answer \in Seq(S) /\ more \in Seq(S) /\ ch \in Seq(S)
      BY <3>1 DEF more, ch
    <3>3. Routed(up, v, e, answer \o more) /\ answer \o more \in Seq(S)
      BY <1>15, <1>17, <3>2, RoutedConcat DEF more
    <3>4. Routed(up, v, e, ch)
      BY <2>1, <2>4 DEF ch
    <3>5. Routed(up, v, e, ch \o (answer \o more))
      BY <3>2, <3>3, <3>4, RoutedConcat
    <3> QED BY <1>14, <2>4, <3>5 DEF ch, more
  <2>5. CASE q # x /\ ~ (q = v /\ y = e)
    BY <1>12, <1>13, <2>1, <2>5
  <2> QED BY <1>10, <2>2, <2>3, <2>4, <2>5
<1>19. Routes(up)'
  BY <1>18 DEF Routes, Routed
<1>20. Reached(up)'
  <2> SUFFICES ASSUME NEW r \in Node, NEW key \in DOMAIN subs'[r], key[2] # r
               PROVE  remote'[r][up[key[2]][r]] # NoNode
    BY DEF Reached
  <2>1. key \in DOMAIN subs[r]
    BY <1>11
  <2>2. key[2] \in Node
    <3> DEFINE old == subs[r]
    <3>1. old \in Bases /\ key \in DOMAIN old
      BY <2>1 DEF Types
    <3> HIDE DEF old
    <3>2. key \in Keys
      BY <3>1, BaseIs
    <3> QED BY <3>2, KeyIs
  <2>3. up[key[2]][r] \in Session
    BY <2>2, TreeEnds
  <2>4. remote[r][up[key[2]][r]] # NoNode
    BY <2>1 DEF Reached
  <2> QED BY <1>9, <1>10, <2>3, <2>4
<1>21. ASSUME NEW key \in Keys, NEW r \in Node, r # key[2]
       PROVE  Edge(key, r, up[key[2]][r])'
  <2> DEFINE n == key[2]
             s == up[n][r]
             p == Peer(r, s)
  <2>1. n \in Node /\ r # n
    BY <1>21, KeyIs
  <2>2. Edge(key, r, s)
    BY <1>21 DEF Edges
  <2> HIDE DEF n
  <2>3. s \in Session /\ r \in Ends(s) /\ p \in Node /\ p # r
    BY <2>1, TreeEnds
  <2> HIDE DEF s
  <2>4. /\ chan[r][s] \in Seq(Msgs \cup Hellos) /\ Peer(p, s) = r
        /\ key \in DOMAIN subs'[r] <=> key \in DOMAIN subs[r]
        /\ key \in DOMAIN subs'[p] <=> key \in DOMAIN subs[p]
    <3>1. chan[r][s] \in Seq(Msgs \cup Hellos) /\ Peer(p, s) = r
      BY <1>7, <2>3, EndsFacts
    <3> HIDE DEF p
    <3> QED BY <1>11, <2>3, <3>1
  <2>5. CASE r = x /\ s = e
    <3>1. remote'[p][s] = remote[p][s]
      BY <1>9, <2>3, <2>5
    <3>2. /\ chan[r][s] # <<>> /\ m = Head(chan[r][s]) /\ chan'[r][s] = Tail(chan[r][s])
      BY <1>1, <1>9, <2>5
    <3>3. Edge(key, r, s)'
      BY <1>2, <2>2, <2>4, <3>1, <3>2, EdgeTakes
    <3> QED BY <3>3 DEF s, n
  <2>6. CASE p = x /\ s = e
    <3>1. r = v
      BY <2>4, <2>6 DEF v
    <3>2. chan[r][s] = <<>> /\ remote[p][s] = NoNode /\ remote'[p][s] # NoNode
      BY <1>9, <1>10, <2>6, <3>1
    <3> DEFINE more == sync.out
    <3>3. chan'[r][s] = chan[r][s] \o (answer \o more) /\ more \in Seq(Msgs)
      BY <1>4, <1>14, <2>6, <3>1
    <3>4. Tells(more, key, {}, DOMAIN subs'[p])
      BY <1>1, <1>4, <1>9, <2>1, <2>3, <2>6, <3>1 DEF n
    <3> HIDE DEF more
    <3>5. Edge(key, r, s)'
      BY <1>15, <2>2, <2>4, <3>2, <3>3, <3>4, EdgeOpens
    <3> QED BY <3>5 DEF s, n
  <2>7. CASE s # e \/ (r # x /\ p # x)
    <3>1. remote'[p][s] = remote[p][s]
      BY <1>9, <2>3, <2>7
    <3>2. chan'[r][s] = chan[r][s]
      <4>1. CASE s # e
        BY <1>9, <1>12, <2>3, <4>1
      <4>2. CASE s = e /\ r # x /\ p # x
        <5>1. r # v
          BY <1>10, <4>2
        <5> QED BY <1>13, <4>2, <5>1
      <4> QED BY <2>7, <4>1, <4>2
    <3>3. Edge(key, r, s)'
      BY <2>2, <2>4, <3>1, <3>2, EdgeStays
    <3> QED BY <3>3 DEF s, n
  <2> QED BY <2>5, <2>6, <2>7
<1> QED BY <1>8, <1>19, <1>20, <1>21 DEF Edges

\* The invariant of trees holds at the start.
LEMMA InitTree ==
  ASSUME NEW dist, NEW up, IsTree(dist, up), Init
  PROVE  TreeInv(up)
<1>1. Handshakes
  BY InitHandshakes DEF Init
<1>2. /\ \A r \in Node, s \in Session : chan[r][s] = <<>>
      /\ \A r \in Node : DOMAIN subs[r] = {}
  BY DEF Init, SessionsInit, EmptyMap
<1>3. Len(<<>>) = 0 /\ \A i \in 1..0 : FALSE
  OBVIOUS
<1>4. Routes(up)
  BY <1>2, <1>3 DEF Routes, Routed
<1>5. Reached(up)
  BY <1>2 DEF Reached
<1>6. ASSUME NEW key \in Keys, NEW r \in Node, r # key[2]
      PROVE  Edge(key, r, up[key[2]][r])
  <2> DEFINE s == up[key[2]][r]
             p == Peer(r, s)
  <2>1. s \in Session /\ p \in Node
    BY <1>6, KeyIs, TreeEnds
  <2> HIDE DEF s, p
  <2>2. chan[r][s] = <<>> /\ DOMAIN subs[r] = {} /\ DOMAIN subs[p] = {}
    BY <1>2, <2>1
  <2>3. Edge(key, r, s)
    BY <1>3, <2>2 DEF Edge, Leads, p
  <2> QED BY <2>3 DEF s
<1> QED BY <1>1, <1>4, <1>5, <1>6 DEF TreeInv, Edges

\* Every step keeps it.
LEMMA NextKeepsTree ==
  ASSUME NEW dist, NEW up, IsTree(dist, up), Types, Types', TreeInv(up), [Next]_vars
  PROVE  TreeInv(up)'
<1> DEFINE Tree == Handshakes /\ Routes(up) /\ Reached(up) /\ Edges(up)
<1> SUFFICES ASSUME drops' = 0 PROVE Tree'
  BY DEF TreeInv
<1>1. CASE UNCHANGED vars
  <2>1. Tree
    BY <1>1 DEF TreeInv, vars, sessionVars
  <2>2. Handshakes'
    BY <1>1, <2>1 DEF vars, sessionVars, Handshakes, Phase, Unopened, Asked, Answered,
                      Joined, NoHelloIn
  <2>3. Routes(up)' /\ Reached(up)'
    BY <1>1, <2>1 DEF vars, sessionVars, Routes, Routed, Reached
  <2>4. Edges(up)'
    BY <1>1, <2>1 DEF vars, sessionVars, Edges, Edge
  <2> QED BY <2>2, <2>3, <2>4
<1>2. ASSUME NEW s \in Session, Break(s) PROVE FALSE
  BY <1>2, BreakTypes DEF Types
<1>3. ASSUME NEW s \in Session, Connect(s) \/ OnNewConnection(s) \/ OnReady(s),
             UNCHANGED <<subs, local, ops>>
      PROVE  Tree'
  <2>1. drops' = drops
    BY <1>3 DEF Connect, OnNewConnection, OnReady
  <2>2. Tree
    BY <2>1 DEF TreeInv
  <2>3. /\ Handshakes'
        /\ \A q \in Node, x \in Session :
             /\ remote'[q][x] = remote[q][x]
             /\ \/ chan'[q][x] = chan[q][x]
                \/ /\ chan[q][x] = <<>>
                   /\ chan'[q][x] = <<Hello("connect", Client[x])>>
    BY <1>3, <2>2, OpeningHandshakes DEF Types
  <2>4. ASSUME NEW x \in Session, NEW h, h = Hello("connect", Client[x])
        PROVE  /\ h \notin Msgs /\ \A key : h \notin Pos(key) \cup Neg(key)
               /\ Len(<<h>>) = 1 /\ Len(<<>>) = 0
               /\ \A i \in 1..1 : <<h>>[i] = h
               /\ \A i \in 1..0 : FALSE
    BY <2>4 DEF Hello, Msgs, Pos, Neg
  <2>5. ASSUME NEW q \in Node, NEW x \in Session PROVE Routed(up, q, x, chan'[q][x])
    <3> DEFINE h == Hello("connect", Client[x])
    <3>1. /\ h \notin Msgs /\ Len(<<h>>) = 1 /\ \A i \in 1..1 : <<h>>[i] = h
      BY <2>4
    <3> HIDE DEF h
    <3>2. Routed(up, q, x, <<h>>)
      BY <3>1 DEF Routed
    <3>3. Routed(up, q, x, chan[q][x])
      BY <2>2 DEF Routes
    <3> QED BY <2>3, <3>2, <3>3 DEF h
  <2>6. Routes(up)'
    BY <2>5 DEF Routes, Routed
  <2>7. Reached(up)'
    <3> SUFFICES ASSUME NEW r \in Node, NEW key \in DOMAIN subs[r], key[2] # r
                 PROVE  remote'[r][up[key[2]][r]] # NoNode
      BY <1>3 DEF Reached
    <3>1. remote[r][up[key[2]][r]] # NoNode
      BY <2>2 DEF Reached
    <3>2. key[2] \in Node
      <4> DEFINE old == subs[r]
      <4>1. old \in Bases /\ key \in DOMAIN old
        BY DEF Types
      <4> HIDE DEF old
      <4>2. key \in Keys
        BY <4>1, BaseIs
      <4> QED BY <4>2, KeyIs
    <3>3. up[key[2]][r] \in Session
      BY <3>2, TreeEnds
    <3> QED BY <2>3, <3>1, <3>3
  <2>8. ASSUME NEW key \in Keys, NEW r \in Node, r # key[2]
        PROVE  Edge(key, r, up[key[2]][r])'
    <3> DEFINE x == up[key[2]][r]
               p == Peer(r, x)
    <3>1. x \in Session /\ p \in Node
      BY <2>8, KeyIs, TreeEnds
    <3>2. Edge(key, r, x)
      BY <2>2, <2>8 DEF Edges
    <3> HIDE DEF x
    <3>3. remote'[p][x] = remote[p][x] /\ subs' = subs
      BY <1>3, <2>3, <3>1
    <3>4. CASE chan'[r][x] = chan[r][x]
      <4>1. Edge(key, r, x)'
        BY <3>2, <3>3, <3>4, EdgeStays
      <4> QED BY <4>1 DEF x
    <3>5. CASE chan[r][x] = <<>> /\ chan'[r][x] = <<Hello("connect", Client[x])>>
      <4> DEFINE h == Hello("connect", Client[x])
      <4>1. /\ h \notin Pos(key) \cup Neg(key)
            /\ Len(<<h>>) = 1 /\ Len(<<>>) = 0
            /\ \A i \in 1..1 : <<h>>[i] = h
            /\ \A i \in 1..0 : FALSE
        BY <2>4, <3>1
      <4>2. chan'[r][x] = <<h>> /\ chan[r][x] = <<>>
        BY <3>5
      <4> HIDE DEF h
      <4> DEFINE a == key \in DOMAIN subs[r]
                 b == remote[p][x] # NoNode /\ key \in DOMAIN subs[p]
      <4>3. a <=> b
        BY <3>2, <4>1, <4>2 DEF Edge, Leads
      <4> HIDE DEF a, b
      <4>4. Leads(<<h>>, Pos(key), Neg(key), a, b)
        BY <4>1, <4>3, LeadsOne
      <4>5. Edge(key, r, x)'
        BY <3>3, <4>2, <4>4 DEF Edge, a, b, Peer
      <4> QED BY <4>5 DEF x
    <3> QED BY <2>3, <2>8, <3>1, <3>4, <3>5
  <2> QED BY <2>3, <2>6, <2>7, <2>8 DEF Edges
<1>4. ASSUME NEW s \in Session, NEW r \in Node, Deliver(r, s)
      PROVE  Tree'
  <2>1. PICK m, res :
            /\ chan[r][s] # <<>> /\ m = Head(chan[r][s]) /\ Take(r, s, m, res.out)
            /\ subs' = [subs EXCEPT ![r] = res.subs]
            /\ UNCHANGED <<local, ops>>
            /\ Handles(r, s, subs[r], StatusAfter(r, s, m), m, res)
    BY <1>4, DeliverIs
  <2>2. Tree
    BY <2>1 DEF TreeInv, Take
  <2>3. \A q \in Node : subs'[q] = IF q = r THEN res.subs ELSE subs[q]
    BY <2>1 DEF Types
  <2>4. Receives(r, s, m, res)
    BY <2>1, <2>3 DEF Receives
  <2>5. m \in Msgs \/ m \in Hellos
    BY <2>1 DEF Handles
  <2>6. CASE m \in Msgs
    BY <2>2, <2>4, <2>6, TellKeepsTree
  <2>7. CASE m \in Hellos
    BY <2>2, <2>4, <2>7, HelloKeepsTree
  <2> QED BY <2>5, <2>6, <2>7
<1>5. ASSUME NEW s \in Session, NEW r \in Node, Disconnected(r, s)
      PROVE  FALSE
  <2>1. drops' = drops /\ transport[s] = "down"
    BY <1>5 DEF Disconnected, ClientDisconnected, ServerDisconnected
  <2> QED BY <2>1 DEF TreeInv, Handshakes
<1>6. ASSUME NEW r \in Node, NEW t \in Track,
             \/ \E p \in Priority : ClientSubscribe(r, t, p)
             \/ ClientSubscribeUpdate(r, t)
             \/ UnsubscribeReceived(r, t)
      PROVE  Tree'
  <2>1. PICK res : Operates(r, res)
    BY <1>6, OperationIs
  <2>2. Tree
    BY <2>1 DEF TreeInv, Operates, Operation
  <2> QED BY <2>1, <2>2, OperationKeepsTree
<1>7. CASE Idle
  BY <1>1, <1>7 DEF Idle
<1> HIDE DEF Tree
<1> QED BY <1>1, <1>2, <1>3, <1>4, <1>5, <1>6, <1>7 DEF Next, Progress

\* The invariant of trees holds in every state.
LEMMA TreeHolds ==
  ASSUME NEW dist, NEW up, IsTree(dist, up)
  PROVE  Spec => []TreeInv(up)
<1>1. Init => TreeInv(up)
  BY InitTree
<1>2. TreeInv(up) /\ Types /\ Types' /\ [Next]_vars => TreeInv(up)'
  BY NextKeepsTree
<1> QED BY <1>1, <1>2, TypesHold, PTL DEF Spec

\* No message about a relay's own subscription travels to it.
LEMMA TreeNoEcho ==
  ASSUME NEW up, Types, TreeInv(up)
  PROVE  NoEcho
<1> SUFFICES ASSUME drops = 0, NEW r \in Node, NEW s \in Session,
                    NEW i \in DOMAIN chan[r][s], chan[r][s][i].kind = "sub"
             PROVE  chan[r][s][i].key[2] # r
  BY DEF NoEcho
<1>1. chan[r][s] \in Seq(Msgs \cup Hellos)
  BY DEF Types, SessionTypes
<1>2. i \in 1..Len(chan[r][s]) /\ chan[r][s][i] \in Msgs \cup Hellos
  <2>1. ASSUME NEW S, NEW ch \in Seq(S), NEW j \in DOMAIN ch
        PROVE  j \in 1..Len(ch) /\ ch[j] \in S
    OBVIOUS
  <2> QED BY <1>1, <2>1
<1>3. chan[r][s][i] \in Msgs
  BY <1>2 DEF Hellos
<1> QED BY <1>2, <1>3 DEF TreeInv, Routes, Routed

\* When the network is quiet, both ends of every edge know the same.
LEMMA QuietEdges ==
  ASSUME NEW dist, NEW up, IsTree(dist, up), TreeInv(up), Settled, drops = 0,
         NEW n \in Node, NEW t \in Track, NEW r \in Node, r # n
  PROVE  /\ Peer(r, up[n][r]) \in Node
         /\ dist[n][Peer(r, up[n][r])] < dist[n][r]
         /\ <<t, n>> \in DOMAIN subs[r] <=> <<t, n>> \in DOMAIN subs[Peer(r, up[n][r])]
<1> DEFINE s == up[n][r]
           p == Peer(r, s)
<1>1. /\ s \in Session /\ r \in Ends(s) /\ p \in Node
      /\ Prev[s] = NoSession /\ dist[n][p] < dist[n][r]
  BY TreeEnds
<1> DEFINE key == <<t, n>>
<1>2. key \in Keys /\ key[2] = n
  BY DEF Keys
<1> HIDE DEF key
<1>3. Edge(key, r, s) /\ Handshakes
  BY <1>2 DEF TreeInv, Edges
<1> HIDE DEF s
<1>4. transport[s] = "up"
  BY <1>1, <1>3 DEF Settled, Handshakes
<1>5. chan[r][s] = <<>> /\ chan[Client[s]][s] = <<>> /\ chan[Server[s]][s] = <<>>
  BY <1>1, EndsFacts DEF Settled
<1>6. Joined(s)
  <2>1. Phase(s)
    BY <1>1, <1>3 DEF Handshakes
  <2>2. <<Hello("connect", Client[s])>> # <<>>
    OBVIOUS
  <2> QED BY <1>4, <1>5, <2>1, <2>2 DEF Phase, Unopened, Asked, Answered
<1>7. remote[p][s] # NoNode
  BY <1>1, <1>6, EndsFacts DEF Joined, Ends, Peer
<1>8. key \in DOMAIN subs[r] <=> key \in DOMAIN subs[p]
  <2>1. Len(<<>>) = 0 /\ \A i \in 1..0 : FALSE
    OBVIOUS
  <2> HIDE DEF p
  <2> QED BY <1>3, <1>5, <1>7, <2>1 DEF Edge, Leads, p
<1> HIDE DEF p
<1> QED BY <1>1, <1>8 DEF s, p, key

\* So all relays know the same: a relay that does not, of those the one nearest
\* to the source, has a peer that is nearer.
LEMMA TreeAgreement ==
  ASSUME NEW dist, NEW up, IsTree(dist, up), TreeInv(up)
  PROVE  Agreement
<1> SUFFICES ASSUME Settled, drops = 0, NEW n \in Node, NEW t \in Track
             PROVE  \A r \in Node : <<t, n>> \in DOMAIN subs[r] <=> <<t, n>> \in DOMAIN subs[n]
  BY DEF Agreement
<1> DEFINE Q(r) == <<t, n>> \in DOMAIN subs[r] <=> <<t, n>> \in DOMAIN subs[n]
           T == {dist[n][r] : r \in {x \in Node : ~ Q(x)}}
<1> SUFFICES ASSUME NEW r0 \in Node, ~ Q(r0) PROVE FALSE
  OBVIOUS
<1>1. T \subseteq Nat /\ T # {}
  <2>1. \A r \in Node : dist[n][r] \in Nat
    BY DEF IsTree
  <2> HIDE DEF Q
  <2>2. dist[n][r0] \in T
    OBVIOUS
  <2> QED BY <2>1, <2>2
<1>2. PICK d \in T : \A k \in T : d <= k
  <2> HIDE DEF T
  <2> QED BY <1>1, LeastElement
<1>3. PICK r \in Node : ~ Q(r) /\ d = dist[n][r]
  <2> HIDE DEF Q
  <2> QED BY <1>2
<1>4. r # n
  BY <1>3
<1> DEFINE p == Peer(r, up[n][r])
<1>5. /\ p \in Node /\ dist[n][p] < dist[n][r]
      /\ <<t, n>> \in DOMAIN subs[r] <=> <<t, n>> \in DOMAIN subs[p]
  BY <1>4, QuietEdges
<1> HIDE DEF p
<1>6. ~ Q(p)
  BY <1>3, <1>5
<1>7. dist[n][p] \in T
  <2> HIDE DEF Q
  <2> QED BY <1>5, <1>6
<1>8. dist[n][p] \in Nat /\ dist[n][r] \in Nat
  BY <1>5 DEF IsTree
<1> HIDE DEF T
<1> QED BY <1>2, <1>3, <1>5, <1>7, <1>8

\* In every tree of relays, while no transport has failed, a relay is never told
\* about its own subscription: SubscribeInfoReceived floods to all sessions but
\* the one the information came from, and InfoBaseSyncPeer leaves out the peer's
\* own; together that is enough.
THEOREM SubscribeFloodNoEcho ==
  ASSUME NEW dist, NEW up, IsTree(dist, up)
  PROVE  Spec => []NoEcho
<1>1. Types /\ TreeInv(up) => NoEcho
  BY TreeNoEcho
<1> QED BY <1>1, TypesHold, TreeHolds, PTL

\* In every tree of relays, when all is quiet and no transport has failed, every
\* relay knows exactly the subscriptions their sources hold, however the clients'
\* operations, the flooding and the syncs of new sessions were interleaved and
\* whatever the sequence numbers did.
THEOREM SubscribeFloodAgreement ==
  ASSUME NEW dist, NEW up, IsTree(dist, up)
  PROVE  Spec => []Agreement
<1>1. TreeInv(up) => Agreement
  BY TreeAgreement
<1> QED BY <1>1, TreeHolds, PTL
=============================================================================
