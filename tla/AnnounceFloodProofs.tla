------------------------- MODULE AnnounceFloodProofs -------------------------
(***************************************************************************)
(* Proofs about AnnounceFlood, for the tracks that clients of one relay    *)
(* publish.  That the prefix index lists what is announced holds for every *)
(* network, with failures; that all relays end up knowing the same holds   *)
(* for every tree of relays while no transport fails.                      *)
(***************************************************************************)
EXTENDS AnnounceFlood, PeeringProofs

Keys == Name \X Node

SoleKeys == SoleTracks \X Node

\* A track that one relay publishes comes from there, and not as a namespace.
Msgs ==
    {m \in [kind : {"announce", "unannounce"}, name : Name, source : Node,
            namespace : BOOLEAN] :
        m.name \in SoleTracks => m.name \in Publisher[m.source] /\ ~ m.namespace}

\* The entries of the prefix index for a name.
Entries(n) == PrefixHashNamespaceTuples(n) \X {n}

\* An information base: tracks with one source are announced by it, and are then
\* in the prefix index.
Bases ==
    {b \in [annos : SUBSET Keys, prefix : SUBSET UNION {Entries(n) : n \in Name}] :
        /\ IsFiniteSet(b.annos)
        /\ \A a \in b.annos : a[1] \in SoleTracks => a[1] \in Publisher[a[2]]
                                                    /\ Entries(a[1]) \subseteq b.prefix}

\* Of the tracks with one source the index lists no other.
Exact(b) == \A x \in b.prefix : x[2] \in SoleTracks => Known(b, x[2])

\* The types of the state.
Types ==
    /\ base \in [Node -> Bases]
    /\ requests \in [Node -> SUBSET Name]
    /\ local \in [Node -> SUBSET Name]
    /\ \A r \in Node : local[r] \subseteq Publisher[r]
    /\ ops \in 0..MaxOps
    /\ SessionTypes(Msgs)

-----------------------------------------------------------------------------
(***************************************************************************)
(* InfoBase                                                                *)
(***************************************************************************)

\* A key is a name and a relay.
LEMMA KeyIs ==
  ASSUME NEW a \in Keys
  PROVE  a[1] \in Name /\ a[2] \in Node /\ a = <<a[1], a[2]>>
  BY DEF Keys

\* No message of this module is one of the handshake.
LEMMA MsgsNoHello == NoHellos(Msgs)
  BY DEF NoHellos, Msgs, IsHello

\* The tracks with one source are names; two relays that publish one are the same.
LEMMA SoleIs ==
  /\ SoleTracks \subseteq Name /\ SoleKeys \subseteq Keys
  /\ \A n \in SoleTracks : ~ IsNamespace[n]
  /\ \A n \in SoleTracks, r, q \in Node : n \in Publisher[r] /\ n \in Publisher[q] => r = q
  BY DEF SoleTracks, SoleKeys, Keys

\* The fields of an information base.
LEMMA BaseIs ==
  ASSUME NEW b \in Bases
  PROVE  /\ b.annos \subseteq Keys /\ IsFiniteSet(b.annos)
         /\ b.prefix \subseteq UNION {Entries(n) : n \in Name}
         /\ b = [annos |-> b.annos, prefix |-> b.prefix]
         /\ \A a \in b.annos : a[1] \in SoleTracks => a[1] \in Publisher[a[2]]
                                                    /\ Entries(a[1]) \subseteq b.prefix
  BY DEF Bases

\* A record with another value in the first of two fields.
LEMMA ClearIs ==
  ASSUME NEW b \in Bases
  PROVE  [b EXCEPT !.annos = {}] = [annos |-> {}, prefix |-> b.prefix]
<1> DEFINE x == b.annos
           y == b.prefix
           c == [annos |-> x, prefix |-> y]
<1>1. b = c
  BY BaseIs
<1> HIDE DEF x, y
<1>2. [c EXCEPT !.annos = {}] = [annos |-> {}, prefix |-> y]
  OBVIOUS
<1> QED BY <1>1, <1>2 DEF y

\* A name has entries, and no two names share one.
LEMMA EntriesAre ==
  /\ \A n \in Name : Entries(n) # {}
  /\ \A n : \A x \in Entries(n) : x[2] = n
<1>1. ASSUME NEW n \in Name PROVE Entries(n) # {}
  <2>1. 1 \in 1..Len(NameSpace[n])
    BY AnnounceAssumption
  <2>2. SubSeq(NameSpace[n], 1, 1) \in PrefixHashNamespaceTuples(n)
    BY <2>1 DEF PrefixHashNamespaceTuples
  <2>3. PICK p : p \in PrefixHashNamespaceTuples(n)
    BY <2>2
  <2>4. <<p, n>> \in Entries(n)
    BY <2>3 DEF Entries
  <2> QED BY <2>4
<1>2. \A n : \A x \in Entries(n) : x[2] = n
  BY DEF Entries
<1> QED BY <1>1, <1>2

\* AddAnnounce.
LEMMA AddIs ==
  ASSUME NEW b \in Bases, NEW n \in Name, NEW src \in Node,
         n \in SoleTracks => n \in Publisher[src]
  PROVE  /\ AddAnnounce(b, n, src) \in Bases
         /\ AddAnnounce(b, n, src).annos = b.annos \cup {<<n, src>>}
         /\ Exact(b) => Exact(AddAnnounce(b, n, src))
<1> DEFINE new == [annos  |-> b.annos \cup {<<n, src>>},
                   prefix |-> b.prefix \cup Entries(n)]
<1>1. CASE <<n, src>> \in b.annos
  <2>1. AddAnnounce(b, n, src) = b
    BY <1>1 DEF AddAnnounce
  <2> QED BY <1>1, <2>1
<1>2. CASE <<n, src>> \notin b.annos
  <2>1. AddAnnounce(b, n, src) = new
    BY <1>2 DEF AddAnnounce, Entries
  <2>2. /\ new.annos = b.annos \cup {<<n, src>>} /\ new.prefix = b.prefix \cup Entries(n)
        /\ <<n, src>> \in Keys
    BY DEF Keys
  <2>3. IsFiniteSet(new.annos)
    BY <2>2, BaseIs, FS_AddElement
  <2>4. new \in [annos : SUBSET Keys, prefix : SUBSET UNION {Entries(x) : x \in Name}]
    BY <2>2, BaseIs
  <2>5. \A a \in new.annos : a[1] \in SoleTracks => a[1] \in Publisher[a[2]]
                                                    /\ Entries(a[1]) \subseteq new.prefix
    BY <2>2, BaseIs
  <2>6. Exact(b) => Exact(new)
    <3> SUFFICES ASSUME Exact(b), NEW x \in new.prefix, x[2] \in SoleTracks
                 PROVE  \E a \in new.annos : a[1] = x[2]
      BY DEF Exact, Known
    <3>1. CASE x \in b.prefix
      BY <2>2, <3>1 DEF Exact, Known
    <3>2. CASE x \in Entries(n)
      BY <2>2, <3>2, EntriesAre
    <3> QED BY <2>2, <3>1, <3>2
  <2> HIDE DEF new
  <2> QED BY <2>1, <2>2, <2>3, <2>4, <2>5, <2>6 DEF Bases
<1> QED BY <1>1, <1>2

\* RemoveAnnounce.
LEMMA RemoveIs ==
  ASSUME NEW b \in Bases, NEW n \in Name, NEW src \in Node,
         n \in SoleTracks => n \in Publisher[src]
  PROVE  /\ RemoveAnnounce(b, n, src) \in Bases
         /\ RemoveAnnounce(b, n, src).annos = b.annos \ {<<n, src>>}
         /\ Exact(b) => Exact(RemoveAnnounce(b, n, src))
         /\ n \in SoleTracks => (Removes(b, n) <=> <<n, src>> \in b.annos)
<1> DEFINE new == [annos  |-> b.annos \ {<<n, src>>}, prefix |-> b.prefix \ Entries(n)]
<1>1. Known(b, n) /\ n \in SoleTracks => <<n, src>> \in b.annos
  <2> SUFFICES ASSUME Known(b, n), n \in SoleTracks PROVE <<n, src>> \in b.annos
    OBVIOUS
  <2>1. PICK a \in b.annos : a[1] = n
    BY DEF Known
  <2>2. a \in Keys /\ n \in Publisher[a[2]]
    BY <2>1, BaseIs
  <2>3. a[2] \in Node /\ a = <<a[1], a[2]>>
    BY <2>2, KeyIs
  <2>4. a[2] = src
    BY <2>2, <2>3, SoleIs
  <2> QED BY <2>1, <2>3, <2>4
<1>2. n \in SoleTracks => (Removes(b, n) <=> <<n, src>> \in b.annos)
  <2>1. ASSUME n \in SoleTracks, <<n, src>> \in b.annos PROVE Removes(b, n)
    <3>1. Entries(n) \subseteq b.prefix /\ Known(b, n)
      BY <2>1, BaseIs DEF Known
    <3> QED BY <3>1, EntriesAre DEF Removes
  <2> QED BY <1>1, <2>1 DEF Removes
<1>3. CASE Known(b, n)
  <2>1. RemoveAnnounce(b, n, src) = new
    BY <1>3 DEF RemoveAnnounce, Entries
  <2>2. /\ new.annos = b.annos \ {<<n, src>>} /\ new.prefix = b.prefix \ Entries(n)
    OBVIOUS
  <2>3. IsFiniteSet(new.annos)
    BY <2>2, BaseIs, FS_Subset
  <2>4. new \in [annos : SUBSET Keys, prefix : SUBSET UNION {Entries(x) : x \in Name}]
    BY <2>2, BaseIs
  <2>5. ASSUME NEW a \in new.annos, a[1] \in SoleTracks
        PROVE  a[1] # n
    <3>1. a \in b.annos /\ a \in Keys /\ a[1] \in Publisher[a[2]] /\ a # <<n, src>>
      BY <2>2, <2>5, BaseIs
    <3>2. a[2] \in Node /\ a = <<a[1], a[2]>>
      BY <3>1, KeyIs
    <3> QED BY <2>5, <3>1, <3>2, SoleIs
  <2>6. \A a \in new.annos : a[1] \in SoleTracks => a[1] \in Publisher[a[2]]
                                                    /\ Entries(a[1]) \subseteq new.prefix
    <3> SUFFICES ASSUME NEW a \in new.annos, a[1] \in SoleTracks
                 PROVE  a[1] \in Publisher[a[2]] /\ Entries(a[1]) \subseteq new.prefix
      OBVIOUS
    <3>1. a[1] \in Publisher[a[2]] /\ Entries(a[1]) \subseteq b.prefix
      BY <2>2, BaseIs
    <3>2. \A x \in Entries(a[1]) : x \notin Entries(n)
      BY <2>5, EntriesAre
    <3> QED BY <2>2, <3>1, <3>2
  <2>7. Exact(b) => Exact(new)
    <3> SUFFICES ASSUME Exact(b), NEW x \in new.prefix, x[2] \in SoleTracks
                 PROVE  \E a \in new.annos : a[1] = x[2]
      BY DEF Exact, Known
    <3>1. x \in b.prefix /\ x \notin Entries(n)
      BY <2>2
    <3>2. PICK a \in b.annos : a[1] = x[2]
      BY <3>1 DEF Exact, Known
    <3>3. PICK k \in Name : x \in Entries(k)
      BY <3>1, BaseIs
    <3>4. x[2] # n
      BY <3>1, <3>3, EntriesAre
    <3>5. a # <<n, src>>
      BY <3>2, <3>4
    <3> QED BY <2>2, <3>2, <3>5
  <2> HIDE DEF new
  <2> QED BY <1>2, <2>1, <2>2, <2>3, <2>4, <2>6, <2>7 DEF Bases
<1>4. CASE ~ Known(b, n)
  <2>1. RemoveAnnounce(b, n, src) = b
    BY <1>4 DEF RemoveAnnounce
  <2>2. <<n, src>> \notin b.annos
    BY <1>4 DEF Known
  <2> QED BY <1>2, <2>1, <2>2
<1> QED BY <1>3, <1>4

-----------------------------------------------------------------------------
(***************************************************************************)
(* What a relay's result tells its peers                                   *)
(***************************************************************************)
Pos(key) == {m \in Msgs : m.kind = "announce" /\ <<m.name, m.source>> = key}

Neg(key) == {m \in Msgs : m.kind = "unannounce" /\ <<m.name, m.source>> = key}

\* Output o takes a peer that knows what is in D to what is in E, as far as
\* the key is concerned.
Tells(o, key, D, E) == Leads(o, Pos(key), Neg(key), key \in D, key \in E)

\* A result of relay r that holds b, upon a message about source src over
\* session e: as far as tracks with one source are concerned it tells of r's own
\* announcements everywhere and of src's everywhere but on e.
Speaks(r, b, e, src, res) ==
    /\ res.base \in Bases /\ (Exact(b) => Exact(res.base))
    /\ res.out \in Outputs(Msgs)
    /\ \A s \in Session : \A i \in 1..Len(res.out[s]) :
          res.out[s][i].name \in SoleTracks =>
             \/ res.out[s][i].source = r
             \/ res.out[s][i].source = src /\ s # e
    /\ \A s \in Session, key \in SoleKeys :
          s # e \/ key[2] # src => Tells(res.out[s], key, b.annos, res.base.annos)

\* Two outputs after each other.
LEMMA BothIs ==
  ASSUME NEW a \in Outputs(Msgs), NEW b \in Outputs(Msgs)
  PROVE  /\ Both(a, b) \in Outputs(Msgs)
         /\ \A s \in Session : Both(a, b)[s] = a[s] \o b[s]
<1>1. \A s \in Session : a[s] \o b[s] \in Seq(Msgs)
  <2> TAKE s \in Session
  <2>1. a[s] \in Seq(Msgs) /\ b[s] \in Seq(Msgs)
    BY DEF Outputs
  <2> QED BY <2>1
<1> QED BY <1>1 DEF Both, Outputs

\* Saying nothing tells nothing.
LEMMA NothingTells ==
  ASSUME NEW key, NEW D, NEW E, key \in D <=> key \in E
  PROVE  Tells(<<>>, key, D, E)
  BY LeadsNowhere DEF Tells

\* One message.
LEMMA MessageTells ==
  ASSUME NEW m \in Msgs, NEW key, NEW D, NEW E,
         IF <<m.name, m.source>> = key THEN key \in E <=> m.kind = "announce"
         ELSE key \in D <=> key \in E
  PROVE  Tells(<<m>>, key, D, E)
<1>1. m \in Pos(key) \cup Neg(key) <=> <<m.name, m.source>> = key
  BY DEF Pos, Neg, Msgs
<1>2. m \in Pos(key) <=> <<m.name, m.source>> = key /\ m.kind = "announce"
  BY DEF Pos
<1> QED BY <1>1, <1>2, LeadsOne DEF Tells

\* The name of a message has come to D, or gone from it.
Changes(m, D, E) ==
    E = IF m.kind = "announce" THEN D \cup {<<m.name, m.source>>}
        ELSE D \ {<<m.name, m.source>>}

\* A flood by a relay whose base changes accordingly.
LEMMA FloodSpeaks ==
  ASSUME NEW r, NEW b \in Bases, NEW e, NEW src, NEW m \in Msgs, NEW except, NEW res,
         res.base \in Bases, Exact(b) => Exact(res.base), res.out = Flood(m, except),
         Changes(m, b.annos, res.base.annos),
         \/ m.source = r /\ except = NoSession
         \/ m.source = src /\ except = e
         \/ m.name \notin SoleTracks
  PROVE  Speaks(r, b, e, src, res)
<1> DEFINE out == res.out
<1>1. \A s \in Session : out[s] = IF s = except THEN <<>> ELSE <<m>>
  BY DEF Flood
<1>2. <<m>> \in Seq(Msgs) /\ <<>> \in Seq(Msgs)
  OBVIOUS
<1>3. out \in Outputs(Msgs)
  BY <1>2 DEF Flood, Outputs
<1> HIDE DEF out
<1>4. /\ Len(<<m>>) = 1 /\ Len(<<>>) = 0 /\ (\A i \in 1..0 : FALSE)
      /\ \A i \in 1..1 : <<m>>[i] = m
  OBVIOUS
<1>5. \A s \in Session : s # NoSession
  BY DEF Session, NoSession
<1>6. \A s \in Session : \A i \in 1..Len(out[s]) :
         out[s][i].name \in SoleTracks =>
            out[s][i].source = r \/ (out[s][i].source = src /\ s # e)
  BY <1>1, <1>4
<1>7. ASSUME NEW s \in Session, NEW key \in SoleKeys, s # e \/ key[2] # src
      PROVE  Tells(out[s], key, b.annos, res.base.annos)
  <2> DEFINE D == b.annos
             E == res.base.annos
  <2>1. Changes(m, D, E)
    OBVIOUS
  <2> HIDE DEF D, E
  <2>2. Tells(<<m>>, key, D, E)
    BY <2>1, MessageTells DEF Changes, Msgs
  <2>3. ASSUME s = except PROVE Tells(<<>>, key, D, E)
    <3>1. (s = e /\ m.source = src) \/ m.name \notin SoleTracks
      BY <1>5, <2>3
    <3>2. key # <<m.name, m.source>>
      BY <1>7, <3>1 DEF SoleKeys
    <3>3. key \in D <=> key \in E
      BY <2>1, <3>2 DEF Changes
    <3> QED BY <3>3, NothingTells
  <2>4. Tells(out[s], key, D, E)
    BY <1>1, <2>2, <2>3
  <2> QED BY <2>4 DEF D, E
<1> QED BY <1>3, <1>6, <1>7 DEF Speaks, out

\* A relay that sends nothing and whose base keeps its tracks with one source.
LEMMA SilenceSpeaks ==
  ASSUME NEW r, NEW b \in Bases, NEW e, NEW src, NEW res,
         res.base \in Bases, Exact(b) => Exact(res.base), res.out = NoOutput,
         \A key \in SoleKeys : key \in b.annos <=> key \in res.base.annos
  PROVE  Speaks(r, b, e, src, res)
<1>1. /\ NoOutput \in Outputs(Msgs)
      /\ \A s \in Session : NoOutput[s] = <<>> /\ Len(NoOutput[s]) = 0
  BY NoOutputType DEF NoOutput
<1>2. \A s \in Session, key \in SoleKeys : Tells(res.out[s], key, b.annos, res.base.annos)
  <2> TAKE s \in Session, key \in SoleKeys
  <2> DEFINE D == b.annos
             E == res.base.annos
  <2>1. key \in D <=> key \in E
    OBVIOUS
  <2> HIDE DEF D, E
  <2>2. Tells(<<>>, key, D, E)
    BY <2>1, NothingTells
  <2> QED BY <1>1, <2>2 DEF D, E
<1>3. \A s \in Session : \A i \in 1..Len(res.out[s]) : FALSE
  <2>1. \A i \in 1..0 : FALSE
    OBVIOUS
  <2> QED BY <1>1, <2>1
<1> QED BY <1>1, <1>2, <1>3 DEF Speaks

\* One result after the other.
LEMMA SpeaksTwice ==
  ASSUME NEW r, NEW b \in Bases, NEW e, NEW src, NEW x, NEW y, NEW res,
         Speaks(r, b, e, src, x), Speaks(r, x.base, e, src, y),
         res.base = y.base, res.out = Both(x.out, y.out)
  PROVE  Speaks(r, b, e, src, res)
<1>1. /\ x.out \in Outputs(Msgs) /\ y.out \in Outputs(Msgs) /\ y.base \in Bases
      /\ Exact(b) => Exact(y.base)
  BY DEF Speaks
<1>2. /\ res.out \in Outputs(Msgs)
      /\ \A s \in Session : res.out[s] = x.out[s] \o y.out[s]
  <2> DEFINE f == x.out
             g == y.out
  <2>1. f \in Outputs(Msgs) /\ g \in Outputs(Msgs) /\ res.out = Both(f, g)
    BY <1>1
  <2> HIDE DEF f, g
  <2>2. /\ Both(f, g) \in Outputs(Msgs)
        /\ \A s \in Session : Both(f, g)[s] = f[s] \o g[s]
    BY <2>1, BothIs
  <2> QED BY <2>1, <2>2 DEF f, g
<1>3. ASSUME NEW s \in Session
      PROVE  /\ x.out[s] \in Seq(Msgs) /\ y.out[s] \in Seq(Msgs)
             /\ \A i \in 1..Len(res.out[s]) :
                  res.out[s][i].name \in SoleTracks =>
                     \/ res.out[s][i].source = r
                     \/ res.out[s][i].source = src /\ s # e
  <2>1. x.out[s] \in Seq(Msgs) /\ y.out[s] \in Seq(Msgs)
    BY <1>1 DEF Outputs
  <2> DEFINE f == x.out[s]
             g == y.out[s]
             Q(m) == m.name \in SoleTracks => m.source = r \/ (m.source = src /\ s # e)
  <2>2. /\ \A i \in 1..Len(f) : Q(f[i])
        /\ \A i \in 1..Len(g) : Q(g[i])
    BY DEF Speaks
  <2>3. f \in Seq(Msgs) /\ g \in Seq(Msgs) /\ res.out[s] = f \o g
    BY <1>2, <2>1
  <2> HIDE DEF f, g
  <2>4. /\ Len(f) \in Nat /\ Len(g) \in Nat /\ Len(f \o g) = Len(f) + Len(g)
        /\ \A i \in 1..Len(f \o g) :
              (f \o g)[i] = IF i <= Len(f) THEN f[i] ELSE g[i - Len(f)]
    BY <2>3
  <2>5. \A i \in 1..Len(f \o g) : Q((f \o g)[i])
    <3> HIDE DEF Q
    <3> TAKE i \in 1..Len(f \o g)
    <3>1. CASE i <= Len(f)
      BY <2>2, <2>4, <3>1
    <3>2. CASE ~ (i <= Len(f))
      <4>1. i - Len(f) \in 1..Len(g)
        BY <2>4, <3>2
      <4> QED BY <2>2, <2>4, <3>2, <4>1
    <3> QED BY <3>1, <3>2
  <2> QED BY <2>1, <2>3, <2>5
<1>4. ASSUME NEW s \in Session, NEW key \in SoleKeys, s # e \/ key[2] # src
      PROVE  Tells(res.out[s], key, b.annos, res.base.annos)
  <2> DEFINE D == b.annos
             E == x.base.annos
             F == y.base.annos
  <2>1. Tells(x.out[s], key, D, E) /\ Tells(y.out[s], key, E, F)
    BY <1>4 DEF Speaks
  <2> HIDE DEF D, E, F
  <2>2. Tells(x.out[s] \o y.out[s], key, D, F)
    BY <1>3, <2>1, LeadsConcat DEF Tells
  <2> QED BY <1>2, <2>2 DEF D, F
<1> QED BY <1>1, <1>2, <1>3, <1>4 DEF Speaks

\* A publisher of r starts or ends.
LEMMA ClientAnnounceIs ==
  ASSUME NEW r \in Node, NEW b \in Bases, NEW n \in Name, NEW w, w \in BOOLEAN,
         NEW flag, flag \in BOOLEAN, NEW e, NEW src,
         n \in SoleTracks => n \in Publisher[r] /\ ~ flag
  PROVE  /\ Speaks(r, b, e, src, ClientAnnounce(r, b, n, w, flag))
         /\ \A key \in Keys : key[2] # r =>
               (key \in ClientAnnounce(r, b, n, w, flag).base.annos <=> key \in b.annos)
<1> DEFINE res == ClientAnnounce(r, b, n, w, flag)
           m == AnnMsg(w, n, r, flag)
<1>1. /\ res.base = IF w THEN RemoveAnnounce(b, n, r) ELSE AddAnnounce(b, n, r)
      /\ res.out = Flood(m, NoSession)
  BY DEF ClientAnnounce, Result
<1>2. /\ m \in Msgs /\ m.name = n /\ m.source = r
      /\ m.kind = IF w THEN "unannounce" ELSE "announce"
  BY DEF AnnMsg, Msgs
<1> HIDE DEF res, m
<1>3. CASE w
  <2>1. res.base \in Bases /\ res.base.annos = b.annos \ {<<n, r>>}
        /\ (Exact(b) => Exact(res.base))
    <3> DEFINE new == RemoveAnnounce(b, n, r)
    <3>1. /\ new \in Bases /\ new.annos = b.annos \ {<<n, r>>}
          /\ Exact(b) => Exact(new)
          /\ n \in SoleTracks => (Removes(b, n) <=> <<n, r>> \in b.annos)
      BY RemoveIs
    <3>2. res.base = new
      BY <1>1, <1>3
    <3> HIDE DEF new
    <3> QED BY <3>1, <3>2
  <2>2. Changes(m, b.annos, res.base.annos)
    BY <1>2, <1>3, <2>1 DEF Changes
  <2>3. Speaks(r, b, e, src, res)
    BY <1>1, <1>2, <2>1, <2>2, FloodSpeaks
  <2> QED BY <2>1, <2>3 DEF res
<1>4. CASE ~ w
  <2>1. res.base \in Bases /\ res.base.annos = b.annos \cup {<<n, r>>}
        /\ (Exact(b) => Exact(res.base))
    BY <1>1, <1>4, AddIs
  <2>2. Changes(m, b.annos, res.base.annos)
    BY <1>2, <1>4, <2>1 DEF Changes
  <2>3. Speaks(r, b, e, src, res)
    BY <1>1, <1>2, <2>1, <2>2, FloodSpeaks
  <2> QED BY <2>1, <2>3 DEF res
<1> QED BY <1>3, <1>4

\* If message m, which came over s, is about a track with one source, then e is s
\* and src the source; otherwise they do not matter.
Concerns(m, s, e, src) == m.name \in SoleTracks => e = s /\ src = m.source

\* An announcement of a peer.
LEMMA AnnouncedIs ==
  ASSUME NEW r, NEW s, NEW b \in Bases, NEW m \in Msgs, m.kind = "announce",
         NEW e, NEW src, Concerns(m, s, e, src)
  PROVE  /\ Speaks(r, b, e, src, Announced(r, s, b, m))
         /\ Announced(r, s, b, m).base.annos = b.annos \cup {<<m.name, m.source>>}
<1> DEFINE res == Announced(r, s, b, m)
           new == AddAnnounce(b, m.name, m.source)
<1>1. /\ m.name \in Name /\ m.source \in Node
      /\ m.name \in SoleTracks => m.name \in Publisher[m.source]
  BY DEF Msgs
<1>2. CASE <<m.name, m.source>> \in b.annos
  <2>1. res.base = b /\ res.out = NoOutput
    BY <1>2 DEF Announced, Result
  <2> HIDE DEF res
  <2>2. Speaks(r, b, e, src, res)
    BY <2>1, SilenceSpeaks
  <2>3. res.base.annos = b.annos \cup {<<m.name, m.source>>}
    BY <1>2, <2>1
  <2> QED BY <2>2, <2>3 DEF res
<1>3. CASE <<m.name, m.source>> \notin b.annos
  <2>1. res.base = new /\ res.out = Flood(m, s)
    BY <1>3 DEF Announced, Result
  <2>2. /\ new \in Bases /\ new.annos = b.annos \cup {<<m.name, m.source>>}
        /\ Exact(b) => Exact(new)
    BY <1>1, AddIs
  <2> HIDE DEF res, new
  <2>3. Changes(m, b.annos, res.base.annos)
    BY <2>1, <2>2 DEF Changes
  <2>4. Speaks(r, b, e, src, res)
    BY <2>1, <2>2, <2>3, FloodSpeaks DEF Concerns
  <2> QED BY <2>1, <2>2, <2>4 DEF res
<1> QED BY <1>2, <1>3

\* A withdrawal of a peer.
LEMMA WithdrawnIs ==
  ASSUME NEW r \in Node, NEW s, NEW b \in Bases, NEW m \in Msgs, m.kind = "unannounce",
         NEW e, NEW src, Concerns(m, s, e, src)
  PROVE  /\ Speaks(r, b, e, src, Withdrawn(r, s, b, m))
         /\ \A key \in SoleKeys : key \in Withdrawn(r, s, b, m).base.annos <=>
               key \in b.annos /\ key # <<m.name, m.source>>
<1> DEFINE res == Withdrawn(r, s, b, m)
           gone == RemoveAnnounce(b, m.name, m.source)
           flag == TRUE
           own == ClientAnnounce(r, gone, m.name, flag, flag)
           first == Result(gone, Flood(m, s))
<1>1. /\ m.name \in Name /\ m.source \in Node
      /\ m.name \in SoleTracks => m.name \in Publisher[m.source] /\ ~ m.namespace
  BY DEF Msgs
<1>2. /\ gone \in Bases /\ gone.annos = b.annos \ {<<m.name, m.source>>}
      /\ Exact(b) => Exact(gone)
      /\ m.name \in SoleTracks => (Removes(b, m.name) <=> <<m.name, m.source>> \in b.annos)
  BY <1>1, RemoveIs
<1>3. first.base = gone /\ first.out = Flood(m, s)
  BY DEF Result
<1>4. Changes(m, b.annos, gone.annos)
  BY <1>2 DEF Changes
<1>5. CASE ~ Removes(b, m.name)
  <2>1. res.base = gone /\ res.out = NoOutput
    BY <1>5 DEF Withdrawn, Result
  <2> HIDE DEF res, gone
  <2>2. \A key \in SoleKeys : key \in b.annos <=> key \in res.base.annos
    BY <1>2, <1>5, <2>1 DEF SoleKeys
  <2>3. Speaks(r, b, e, src, res)
    BY <1>2, <2>1, <2>2, SilenceSpeaks
  <2> QED BY <1>2, <2>1, <2>3 DEF res
<1> HIDE DEF gone, first
<1>6. Speaks(r, b, e, src, first)
  BY <1>2, <1>3, <1>4, FloodSpeaks DEF Concerns
<1>7. CASE Removes(b, m.name) /\ m.namespace /\ m.name \in requests[r]
  <2>1. res.base = own.base /\ res.out = Both(Flood(m, s), own.out)
    BY <1>7 DEF Withdrawn, Result, gone
  <2>2. m.name \notin SoleTracks /\ flag \in BOOLEAN
    BY <1>1, <1>7
  <2> HIDE DEF res, flag
  <2>3. Speaks(r, gone, e, src, own)
    BY <1>1, <1>2, <2>2, ClientAnnounceIs
  <2>4. own.base.annos = gone.annos \ {<<m.name, r>>}
    <3>1. own.base = RemoveAnnounce(gone, m.name, r)
      BY DEF ClientAnnounce, Result, flag
    <3> DEFINE new == RemoveAnnounce(gone, m.name, r)
    <3>2. /\ new \in Bases /\ new.annos = gone.annos \ {<<m.name, r>>}
          /\ Exact(gone) => Exact(new)
          /\ m.name \in SoleTracks => (Removes(gone, m.name) <=> <<m.name, r>> \in gone.annos)
      BY <1>1, <1>2, <2>2, RemoveIs
    <3> HIDE DEF new, own
    <3>3. own.base = new
      BY <3>1 DEF new
    <3> QED BY <3>2, <3>3
  <2> HIDE DEF own
  <2>5. Speaks(r, b, e, src, res)
    BY <1>3, <1>6, <2>1, <2>3, SpeaksTwice
  <2>6. \A key \in SoleKeys : key # <<m.name, r>>
    BY <2>2 DEF SoleKeys
  <2> QED BY <1>2, <2>1, <2>4, <2>5, <2>6 DEF res
<1>8. CASE Removes(b, m.name) /\ ~ (m.namespace /\ m.name \in requests[r])
  <2>1. res = first
    BY <1>8 DEF Withdrawn, first, gone
  <2> QED BY <1>2, <1>3, <1>6, <2>1
<1> QED BY <1>5, <1>7, <1>8

\* What relay r, which holds b, tells the peer n that has just said hello: all it
\* knows but n's own announcements.
Synchronises(b, n, out) ==
    /\ out \in Seq(Msgs)
    /\ \A i \in 1..Len(out) : <<out[i].name, out[i].source>> \in b.annos /\ out[i].source # n
    /\ \A key \in Keys : key[2] # n => Tells(out, key, {}, b.annos)

\* That is what InfoBaseSyncPeer returns.
LEMMA SyncIs ==
  ASSUME NEW b \in Bases, NEW n
  PROVE  Synchronises(b, n, InfoBaseSyncPeer(b, n))
<1> DEFINE keys == {a \in b.annos : a[2] # n}
           some == SetToSeq(keys)
           c == Cardinality(keys)
           out == [i \in 1..Len(some) |->
                    AnnMsg(FALSE, some[i][1], some[i][2], IsNamespace[some[i][1]])]
<1>1. InfoBaseSyncPeer(b, n) = out
  BY DEF InfoBaseSyncPeer
<1>2. IsFiniteSet(keys) /\ keys \subseteq Keys
  BY BaseIs, FS_Subset
<1>3. /\ c \in Nat /\ some \in [1..c -> keys]
      /\ \A x \in keys : \E i \in 1..c : some[i] = x
  <2> HIDE DEF keys
  <2> QED BY <1>2, SetToSeqIs
<1> HIDE DEF some, c
<1>4. Len(some) = c
  BY <1>3
<1>5. ASSUME NEW i \in 1..c
      PROVE  /\ out[i] \in Msgs /\ out[i].kind = "announce"
             /\ <<out[i].name, out[i].source>> = some[i] /\ out[i].source = some[i][2]
  <2> DEFINE a == some[i]
             m == AnnMsg(FALSE, a[1], a[2], IsNamespace[a[1]])
  <2>1. a \in b.annos /\ a \in Keys
    BY <1>2, <1>3
  <2>2. out[i] = m
    BY <1>4
  <2> HIDE DEF a
  <2>3. a[1] \in Name /\ a[2] \in Node /\ a = <<a[1], a[2]>>
    BY <2>1, KeyIs
  <2>4. IsNamespace[a[1]] \in BOOLEAN
    BY <2>3, AnnounceAssumption
  <2>5. a[1] \in SoleTracks => a[1] \in Publisher[a[2]] /\ ~ IsNamespace[a[1]]
    BY <2>1, BaseIs, SoleIs
  <2>6. /\ m \in Msgs /\ m.kind = "announce" /\ m.name = a[1] /\ m.source = a[2]
    BY <2>3, <2>4, <2>5 DEF AnnMsg, Msgs
  <2> HIDE DEF m, out
  <2> QED BY <2>2, <2>3, <2>6 DEF a
<1>6. out \in Seq(Msgs) /\ Len(out) = c
  <2>1. DOMAIN out = 1..c /\ out = [i \in 1..c |-> out[i]]
    BY <1>4
  <2> HIDE DEF out
  <2>2. out \in [1..c -> Msgs]
    BY <1>5, <2>1
  <2> QED BY <1>3, <2>1, <2>2
<1> HIDE DEF out
<1>7. \A i \in 1..c : <<out[i].name, out[i].source>> \in b.annos /\ out[i].source # n
  BY <1>3, <1>5
<1>8. ASSUME NEW key \in Keys, key[2] # n
      PROVE  Tells(out, key, {}, b.annos)
  <2>1. \A i \in 1..c : out[i] \in Pos(key) \cup Neg(key) <=> some[i] = key
    BY <1>5 DEF Pos, Neg
  <2>2. \A i \in 1..c : some[i] = key => out[i] \in Pos(key)
    BY <1>5 DEF Pos
  <2>3. key \in keys <=> key \in b.annos
    BY <1>8
  <2>4. key \in keys <=> \E i \in 1..c : some[i] = key
    BY <1>3
  <2> HIDE DEF keys
  <2> QED BY <1>6, <2>1, <2>2, <2>3, <2>4 DEF Tells, Leads
<1>9. Synchronises(b, n, out)
  BY <1>6, <1>7, <1>8 DEF Synchronises
<1> QED BY <1>1, <1>9

-----------------------------------------------------------------------------
(***************************************************************************)
(* The steps                                                               *)
(***************************************************************************)

\* What a client's operation at relay r comes to: the base changes in r's own
\* announcements only, and the peers are told.
Operates(r, res) ==
    /\ Operation(r, res)
    /\ Speaks(r, base[r], NoSession, r, res)
    /\ \A key \in Keys : key[2] # r => (key \in res.base.annos <=> key \in base[r].annos)
    /\ local' \in [Node -> SUBSET Name]
    /\ \A q \in Node : local'[q] \subseteq Publisher[q]

\* Every one of the clients' operations does.
LEMMA OperationIs ==
  ASSUME Types, NEW r \in Node, NEW n \in Name,
         Publish(r, n) \/ PublishDone(r, n) \/ PublisherGone(r, n)
  PROVE  \E res : Operates(r, res)
<1> DEFINE b == base[r]
<1>1. /\ b \in Bases /\ local \in [Node -> SUBSET Name]
      /\ \A q \in Node : local[q] \subseteq Publisher[q]
      /\ IsNamespace[n] \in BOOLEAN
  BY AnnounceAssumption DEF Types
<1>2. CASE Publish(r, n)
  <2> DEFINE w == FALSE
             flag == IsNamespace[n]
             res == ClientAnnounce(r, b, n, w, flag)
  <2>1. /\ Operation(r, res) /\ n \in Publisher[r]
        /\ local' = [local EXCEPT ![r] = @ \cup {n}]
    BY <1>2 DEF Publish
  <2>2. w \in BOOLEAN /\ flag \in BOOLEAN /\ (n \in SoleTracks => n \in Publisher[r] /\ ~ flag)
    BY <1>1, <2>1, SoleIs
  <2> HIDE DEF w, flag
  <2>3. /\ Speaks(r, b, NoSession, r, res)
        /\ \A key \in Keys : key[2] # r => (key \in res.base.annos <=> key \in b.annos)
    BY <1>1, <2>2, ClientAnnounceIs
  <2>4. local' \in [Node -> SUBSET Name] /\ \A q \in Node : local'[q] \subseteq Publisher[q]
    BY <1>1, <2>1
  <2> HIDE DEF res
  <2> QED BY <2>1, <2>3, <2>4 DEF Operates
<1>3. CASE PublishDone(r, n)
  <2> DEFINE w == TRUE
             flag == IsNamespace[n]
             no == FALSE
             once == ClientAnnounce(r, b, n, w, flag)
             twice == ClientAnnounce(r, once.base, n, w, no)
             both == Result(twice.base, Both(once.out, twice.out))
             res == IF IsNamespace[n] THEN both ELSE once
  <2>1. /\ Operation(r, res) /\ n \in local[r]
        /\ local' = [local EXCEPT ![r] = @ \ {n}]
    BY <1>3 DEF PublishDone
  <2>2. /\ w \in BOOLEAN /\ flag \in BOOLEAN /\ no \in BOOLEAN /\ n \in Publisher[r]
        /\ n \in SoleTracks => ~ flag
        /\ ~ no
    BY <1>1, <2>1, SoleIs
  <2>3. both.base = twice.base /\ both.out = Both(once.out, twice.out)
    BY DEF Result
  <2> HIDE DEF w, no, flag
  <2>4. /\ Speaks(r, b, NoSession, r, once)
        /\ \A key \in Keys : key[2] # r => (key \in once.base.annos <=> key \in b.annos)
    BY <1>1, <2>2, ClientAnnounceIs
  <2>5. once.base \in Bases
    BY <2>4 DEF Speaks
  <2> DEFINE mid == once.base
  <2> HIDE DEF once
  <2>6. /\ Speaks(r, mid, NoSession, r, twice)
        /\ \A key \in Keys : key[2] # r => (key \in twice.base.annos <=> key \in mid.annos)
    <3> HIDE DEF mid
    <3>1. mid \in Bases
      BY <2>5 DEF mid
    <3>2. twice = ClientAnnounce(r, mid, n, w, no)
      BY DEF mid
    <3> HIDE DEF twice
    <3> QED BY <2>2, <3>1, <3>2, ClientAnnounceIs
  <2> HIDE DEF twice, both
  <2>7. /\ Speaks(r, b, NoSession, r, both)
        /\ \A key \in Keys : key[2] # r => (key \in both.base.annos <=> key \in b.annos)
    <3>1. Speaks(r, b, NoSession, r, both)
      BY <1>1, <2>3, <2>4, <2>6, SpeaksTwice
    <3> QED BY <2>3, <2>4, <2>6, <3>1
  <2>8. /\ Speaks(r, b, NoSession, r, res)
        /\ \A key \in Keys : key[2] # r => (key \in res.base.annos <=> key \in b.annos)
    <3>1. CASE IsNamespace[n]
      BY <2>7, <3>1
    <3>2. CASE ~ IsNamespace[n]
      BY <2>4, <3>2
    <3> QED BY <3>1, <3>2
  <2>9. local' \in [Node -> SUBSET Name] /\ \A q \in Node : local'[q] \subseteq Publisher[q]
    BY <1>1, <2>1
  <2> HIDE DEF res
  <2> QED BY <2>1, <2>8, <2>9 DEF Operates
<1>4. CASE PublisherGone(r, n)
  <2> DEFINE res == Result(b, NoOutput)
  <2>1. /\ Operation(r, res) /\ local' = [local EXCEPT ![r] = @ \ {n}]
    BY <1>4 DEF PublisherGone
  <2>2. res.base = b /\ res.out = NoOutput
    BY DEF Result
  <2> HIDE DEF res
  <2>3. Speaks(r, b, NoSession, r, res)
    BY <1>1, <2>2, SilenceSpeaks
  <2>4. local' \in [Node -> SUBSET Name] /\ \A q \in Node : local'[q] \subseteq Publisher[q]
    BY <1>1, <2>1
  <2> QED BY <2>1, <2>2, <2>3, <2>4 DEF Operates
<1> QED BY <1>2, <1>3, <1>4

\* What taking message m of session s comes to, at a relay that holds b.
Handles(r, s, b, m, res) ==
    \/ /\ m \in Msgs /\ m.kind = "announce"
       /\ \A e, src : Concerns(m, s, e, src) => Speaks(r, b, e, src, res)
       /\ res.base.annos = b.annos \cup {<<m.name, m.source>>}
    \/ /\ m \in Msgs /\ m.kind = "unannounce"
       /\ \A e, src : Concerns(m, s, e, src) => Speaks(r, b, e, src, res)
       /\ \A key \in SoleKeys : key \in res.base.annos <=>
             key \in b.annos /\ key # <<m.name, m.source>>
    \/ /\ m \in Hellos /\ res.base = b
       /\ \E sync : Synchronises(b, m.id, sync) /\ res.out = [NoOutput EXCEPT ![s] = sync]

\* Whatever the message, the relay is left with a base and sends messages.
LEMMA HandlesTypes ==
  ASSUME NEW r, NEW s \in Session, NEW b \in Bases, NEW m, NEW res, Handles(r, s, b, m, res)
  PROVE  /\ res.base \in Bases /\ res.out \in Outputs(Msgs)
         /\ Exact(b) => Exact(res.base)
<1>1. CASE /\ m \in Hellos /\ res.base = b
           /\ \E sync : Synchronises(b, m.id, sync) /\ res.out = [NoOutput EXCEPT ![s] = sync]
  <2>1. PICK sync : Synchronises(b, m.id, sync) /\ res.out = [NoOutput EXCEPT ![s] = sync]
    BY <1>1
  <2>2. sync \in Seq(Msgs)
    BY <2>1 DEF Synchronises
  <2>3. NoOutput \in [Session -> Seq(Msgs)]
    BY NoOutputType DEF Outputs
  <2> QED BY <1>1, <2>1, <2>2, <2>3 DEF Outputs
<1>2. CASE \A e, src : Concerns(m, s, e, src) => Speaks(r, b, e, src, res)
  <2>1. Speaks(r, b, s, m.source, res)
    BY <1>2 DEF Concerns
  <2> QED BY <2>1 DEF Speaks
<1> QED BY <1>1, <1>2 DEF Handles

\* Deliver does.
LEMMA DeliverIs ==
  ASSUME Types, NEW r \in Node, NEW s \in Session, Deliver(r, s)
  PROVE  \E m, res :
            /\ chan[r][s] # <<>> /\ m = Head(chan[r][s]) /\ Take(r, s, m, res.out)
            /\ base' = [base EXCEPT ![r] = res.base]
            /\ UNCHANGED <<local, ops>>
            /\ requests' \in [Node -> SUBSET Name]
            /\ Handles(r, s, base[r], m, res)
<1> DEFINE m == Head(chan[r][s])
           b == base[r]
           sync == InfoBaseSyncPeer(b, m.id)
           res == CASE m.kind = "announce"   -> Announced(r, s, b, m)
                    [] m.kind = "unannounce" -> Withdrawn(r, s, b, m)
                    [] OTHER -> Result(b, [NoOutput EXCEPT ![s] = sync])
           asked == m.kind = "announce" /\ m.namespace /\ res.base # b
<1>1. /\ chan[r][s] # <<>> /\ Take(r, s, m, res.out)
      /\ base' = [base EXCEPT ![r] = res.base] /\ UNCHANGED <<local, ops>>
      /\ requests' = IF asked THEN [requests EXCEPT ![r] = @ \cup {m.name}] ELSE requests
  BY DEF Deliver
<1>2. m \in Msgs \cup Hellos /\ b \in Bases
  <2>1. chan[r][s] \in Seq(Msgs \cup Hellos) /\ b \in Bases
    BY DEF Types, SessionTypes
  <2>2. ASSUME NEW S, NEW ch \in Seq(S), ch # <<>> PROVE Head(ch) \in S
    BY <2>2
  <2> QED BY <1>1, <2>1, <2>2
<1> HIDE DEF m, b
<1>3. \/ m \in Msgs /\ m.kind = "announce"
      \/ m \in Msgs /\ m.kind = "unannounce"
      \/ m \in Hellos /\ m.kind # "announce" /\ m.kind # "unannounce"
  BY <1>2 DEF Msgs, Hellos
<1>4. Handles(r, s, b, m, res)
  <2>1. CASE m \in Msgs /\ m.kind = "announce"
    <3>1. res = Announced(r, s, b, m)
      BY <2>1
    <3>2. ASSUME NEW e, NEW src, Concerns(m, s, e, src)
          PROVE  Speaks(r, b, e, src, Announced(r, s, b, m))
      BY <1>2, <2>1, <3>2, AnnouncedIs
    <3>3. Concerns(m, s, s, m.source)
      BY DEF Concerns
    <3>4. Announced(r, s, b, m).base.annos = b.annos \cup {<<m.name, m.source>>}
      BY <1>2, <2>1, <3>3, AnnouncedIs
    <3> HIDE DEF res
    <3> QED BY <2>1, <3>1, <3>2, <3>4 DEF Handles
  <2>2. CASE m \in Msgs /\ m.kind = "unannounce"
    <3>1. res = Withdrawn(r, s, b, m)
      BY <2>2
    <3>2. ASSUME NEW e, NEW src, Concerns(m, s, e, src)
          PROVE  Speaks(r, b, e, src, Withdrawn(r, s, b, m))
      BY <1>2, <2>2, <3>2, WithdrawnIs
    <3>3. Concerns(m, s, s, m.source)
      BY DEF Concerns
    <3>4. \A key \in SoleKeys : key \in Withdrawn(r, s, b, m).base.annos <=>
             key \in b.annos /\ key # <<m.name, m.source>>
      BY <1>2, <2>2, <3>3, WithdrawnIs
    <3> HIDE DEF res
    <3> QED BY <2>2, <3>1, <3>2, <3>4 DEF Handles
  <2>3. CASE m \in Hellos /\ m.kind # "announce" /\ m.kind # "unannounce"
    <3>1. res = Result(b, [NoOutput EXCEPT ![s] = sync])
      BY <2>3
    <3>2. Synchronises(b, m.id, sync)
      BY <1>2, SyncIs
    <3> HIDE DEF res, sync
    <3>3. res.base = b /\ res.out = [NoOutput EXCEPT ![s] = sync]
      BY <3>1 DEF Result
    <3> QED BY <2>3, <3>2, <3>3 DEF Handles
  <2> QED BY <1>3, <2>1, <2>2, <2>3
<1> HIDE DEF res
<1>5. requests' \in [Node -> SUBSET Name]
  <2>1. requests \in [Node -> SUBSET Name]
    BY DEF Types
  <2>2. asked => m.name \in Name
    BY <1>3 DEF Msgs, Hellos
  <2> HIDE DEF asked
  <2> QED BY <1>1, <2>1, <2>2
<1> QED BY <1>1, <1>4, <1>5 DEF m, b

-----------------------------------------------------------------------------
(***************************************************************************)
(* The types, and the prefix index                                         *)
(***************************************************************************)

\* While no transport has failed the index is exact.
ExactInv ==
    drops = 0 => /\ \A r \in Node : Exact(base[r])
                 /\ \A s \in Session : transport[s] # "down"

\* The initial state has the types and an empty index.
LEMMA InitHasTypes == Init => Types /\ ExactInv
<1> SUFFICES ASSUME Init PROVE Types /\ ExactInv
  OBVIOUS
<1>1. SessionTypes(Msgs)
  BY InitTypes DEF Init
<1>2. EmptyBase \in Bases /\ Exact(EmptyBase)
  <2>1. IsFiniteSet({})
    BY FS_EmptySet
  <2> QED BY <2>1 DEF EmptyBase, Bases, Exact
<1>3. MaxOps \in Nat
  BY AnnounceAssumption
<1>4. Types
  BY <1>1, <1>2, <1>3 DEF Init, Types
<1>5. ExactInv
  BY <1>2 DEF Init, ExactInv, SessionsInit
<1> QED BY <1>4, <1>5

\* Every step keeps them.
LEMMA NextKeepsTypes == Types /\ ExactInv /\ [Next]_vars => Types' /\ ExactInv'
<1> SUFFICES ASSUME Types, ExactInv, [Next]_vars PROVE Types' /\ ExactInv'
  OBVIOUS
<1>1. ASSUME NEW s \in Session, Connect(s) \/ OnNewConnection(s) \/ OnReady(s),
             UNCHANGED announceVars
      PROVE  Types' /\ ExactInv'
  <2>1. SessionTypes(Msgs)'
    BY <1>1, OpeningTypes DEF Types
  <2>2. Types'
    BY <1>1, <2>1 DEF Types, announceVars
  <2>3. drops' = drops /\ \A x \in Session : transport[x] # "down" => transport'[x] # "down"
    BY <1>1 DEF Connect, OnNewConnection, OnReady, Types, SessionTypes
  <2>4. base' = base
    BY <1>1 DEF announceVars
  <2> QED BY <2>2, <2>3, <2>4 DEF ExactInv, Exact, Known
<1>2. ASSUME NEW s \in Session, NEW r \in Node, Deliver(r, s)
      PROVE  Types' /\ ExactInv'
  <2>1. PICK m, res :
            /\ chan[r][s] # <<>> /\ m = Head(chan[r][s]) /\ Take(r, s, m, res.out)
            /\ base' = [base EXCEPT ![r] = res.base]
            /\ UNCHANGED <<local, ops>>
            /\ requests' \in [Node -> SUBSET Name]
            /\ Handles(r, s, base[r], m, res)
    BY <1>2, DeliverIs
  <2> DEFINE b == base[r]
             out == res.out
  <2>2. b \in Bases
    BY DEF Types
  <2> HIDE DEF b
  <2>3. res.base \in Bases /\ out \in Outputs(Msgs) /\ (Exact(b) => Exact(res.base))
    BY <2>1, <2>2, HandlesTypes DEF b
  <2> HIDE DEF out
  <2>4. Take(r, s, m, out)
    BY <2>1 DEF out
  <2>5. SessionTypes(Msgs)'
    BY <2>1, <2>3, <2>4, MsgsNoHello, TakeTypes DEF Types
  <2>6. base' \in [Node -> Bases]
    BY <2>1, <2>3 DEF Types
  <2>7. Types'
    BY <2>1, <2>5, <2>6 DEF Types
  <2>8. UNCHANGED <<transport, drops>>
    BY <2>4 DEF Take
  <2>9. \A q \in Node : base'[q] = IF q = r THEN res.base ELSE base[q]
    BY <2>1 DEF Types
  <2>10. drops = 0 => \A q \in Node : Exact(base'[q])
    BY <2>3, <2>9 DEF ExactInv, b
  <2> QED BY <2>7, <2>8, <2>10 DEF ExactInv, Exact, Known
<1>3. ASSUME NEW s \in Session, NEW r \in Node, Disconnected(r, s)
      PROVE  Types' /\ ExactInv'
  <2>1. /\ ClientDisconnected(s, NoOutput) \/ ServerDisconnected(s, NoOutput)
        /\ UNCHANGED <<requests, local, ops>>
    BY <1>3 DEF Disconnected
  <2>2. SessionTypes(Msgs)'
    BY <2>1, NoOutputType, DisconnectTypes DEF Types
  <2>3. PICK st : base' = [base EXCEPT ![r] = SessionLost(@, st)]
    BY <1>3 DEF Disconnected
  <2> DEFINE b == base[r]
             new == SessionLost(b, st)
  <2>4. b \in Bases
    BY DEF Types
  <2> HIDE DEF b
  <2>5. new \in Bases
    <3>1. [annos |-> {}, prefix |-> b.prefix] \in Bases
      BY <2>4, BaseIs, FS_EmptySet DEF Bases
    <3>2. [b EXCEPT !.annos = {}] = [annos |-> {}, prefix |-> b.prefix]
      BY <2>4, ClearIs
    <3>3. new = b \/ new = [b EXCEPT !.annos = {}]
      BY DEF SessionLost
    <3> QED BY <2>4, <3>1, <3>2, <3>3
  <2> HIDE DEF new
  <2>6. base' = [base EXCEPT ![r] = new]
    BY <2>3 DEF new, b
  <2>7. base' \in [Node -> Bases]
    BY <2>5, <2>6 DEF Types
  <2>8. drops' = drops /\ transport[s] = "down"
    BY <2>1 DEF ClientDisconnected, ServerDisconnected
  <2>9. ExactInv'
    BY <2>8 DEF ExactInv
  <2> QED BY <2>1, <2>2, <2>7, <2>9 DEF Types
<1>4. ASSUME NEW r \in Node, NEW n \in Name,
             Publish(r, n) \/ PublishDone(r, n) \/ PublisherGone(r, n)
      PROVE  Types' /\ ExactInv'
  <2>1. PICK res : Operates(r, res)
    BY <1>4, OperationIs
  <2> DEFINE out == res.out
  <2>2. res.base \in Bases /\ out \in Outputs(Msgs) /\ (Exact(base[r]) => Exact(res.base))
    BY <2>1 DEF Operates, Speaks
  <2>3. /\ chan' = Sent(chan, r, status[r], remote[r], out)
        /\ UNCHANGED <<requests, status, remote, transport, drops>>
        /\ base' = [base EXCEPT ![r] = res.base] /\ ops < MaxOps /\ ops' = ops + 1
    BY <2>1 DEF Operates, Operation
  <2> HIDE DEF out
  <2>4. SessionTypes(Msgs)'
    BY <2>2, <2>3, SendTypes DEF Types
  <2>5. base' \in [Node -> Bases]
    BY <2>2, <2>3 DEF Types
  <2>6. ops' \in 0..MaxOps
    BY <2>3, AnnounceAssumption DEF Types
  <2>7. Types'
    BY <2>1, <2>3, <2>4, <2>5, <2>6 DEF Types, Operates
  <2>8. \A q \in Node : base'[q] = IF q = r THEN res.base ELSE base[q]
    BY <2>3 DEF Types
  <2>9. drops = 0 => \A q \in Node : Exact(base'[q])
    BY <2>2, <2>8 DEF ExactInv
  <2> QED BY <2>3, <2>7, <2>9 DEF ExactInv, Exact, Known
<1>5. ASSUME NEW s \in Session, Break(s), UNCHANGED announceVars
      PROVE  Types' /\ ExactInv'
  <2>1. SessionTypes(Msgs)' /\ drops' # 0
    BY <1>5, BreakTypes DEF Types
  <2> QED BY <1>5, <2>1 DEF Types, ExactInv, announceVars
<1>6. CASE UNCHANGED vars
  BY <1>6 DEF Types, SessionTypes, vars, sessionVars, announceVars, ExactInv, Exact, Known
<1>7. CASE Idle
  BY <1>6, <1>7 DEF Idle
<1> QED BY <1>1, <1>2, <1>3, <1>4, <1>5, <1>6, <1>7 DEF Next, Progress

\* The types and the index hold in every state.
LEMMA TypesHold == Spec => [](Types /\ ExactInv)
<1> QED BY InitHasTypes, NextKeepsTypes, PTL DEF Spec

\* The index of the proofs is that of the module.
LEMMA TypesIndex == Types /\ ExactInv => IndexExact
<1> SUFFICES ASSUME Types, ExactInv, NEW r \in Node
             PROVE  LET indexed == {x \in base[r].prefix : x[2] \in SoleTracks}
                        needed  == UNION {PrefixHashNamespaceTuples(a[1]) \X {a[1]} :
                                      a \in {b \in base[r].annos : b[1] \in SoleTracks}}
                    IN  needed \subseteq indexed /\ (drops = 0 => indexed = needed)
  BY DEF IndexExact
<1> DEFINE b == base[r]
           sole == {a \in b.annos : a[1] \in SoleTracks}
           indexed == {x \in b.prefix : x[2] \in SoleTracks}
           needed == UNION {Entries(a[1]) : a \in sole}
<1>1. b \in Bases
  BY DEF Types
<1> HIDE DEF b
<1>2. needed \subseteq indexed
  <2> SUFFICES ASSUME NEW a \in sole, NEW x \in Entries(a[1]) PROVE x \in indexed
    OBVIOUS
  <2>1. x \in b.prefix
    BY <1>1, BaseIs
  <2>2. x[2] = a[1]
    BY EntriesAre
  <2> QED BY <2>1, <2>2
<1>3. ASSUME drops = 0, NEW x \in indexed PROVE x \in needed
  <2>1. Known(b, x[2])
    BY <1>3 DEF ExactInv, Exact, b
  <2>2. PICK a \in b.annos : a[1] = x[2]
    BY <2>1 DEF Known
  <2>3. PICK n \in Name : x \in Entries(n)
    BY <1>1, BaseIs
  <2>4. n = a[1]
    BY <2>2, <2>3, EntriesAre
  <2>5. a \in sole
    BY <2>2
  <2> QED BY <2>3, <2>4, <2>5
<1>4. needed \subseteq indexed /\ (drops = 0 => indexed = needed)
  BY <1>2, <1>3
<1> QED BY <1>4 DEF b, Entries

\* The types of the proofs are those of the module.
LEMMA TypesAreTypeOK == Types => TypeOK
<1> SUFFICES ASSUME Types PROVE TypeOK
  OBVIOUS
<1>1. ASSUME NEW r \in Node
      PROVE  /\ base[r].annos \subseteq Name \X Node
             /\ \A x \in base[r].prefix :
                   x[2] \in Name /\ x[1] \in PrefixHashNamespaceTuples(x[2])
             /\ requests[r] \subseteq Name
             /\ local[r] \subseteq Publisher[r]
  <2> DEFINE b == base[r]
  <2>1. b \in Bases /\ requests[r] \subseteq Name /\ local[r] \subseteq Publisher[r]
    BY DEF Types
  <2> HIDE DEF b
  <2>2. \A x \in b.prefix : x[2] \in Name /\ x[1] \in PrefixHashNamespaceTuples(x[2])
    <3> TAKE x \in b.prefix
    <3>1. PICK n \in Name : x \in Entries(n)
      BY <2>1, BaseIs
    <3> QED BY <3>1 DEF Entries
  <2>3. b.annos \subseteq Name \X Node
    BY <2>1, BaseIs DEF Keys
  <2> QED BY <2>1, <2>2, <2>3 DEF b
<1> DEFINE M == [kind : {"announce", "unannounce"}, name : Name,
                 source : Node, namespace : BOOLEAN]
<1>2. ASSUME NEW r \in Node, NEW s \in Session, NEW i \in DOMAIN chan[r][s]
      PROVE  chan[r][s][i] \in M \cup Hellos
  <2>1. chan[r][s] \in Seq(Msgs \cup Hellos)
    BY DEF Types, SessionTypes
  <2>2. ASSUME NEW S, NEW ch \in Seq(S), NEW j \in DOMAIN ch PROVE ch[j] \in S
    OBVIOUS
  <2>3. Msgs \subseteq M
    BY DEF Msgs
  <2> HIDE DEF M
  <2> QED BY <2>1, <2>2, <2>3
<1> HIDE DEF M
<1>3. SessionsType(M)
  BY <1>2 DEF Types, SessionTypes, SessionsType, Hellos
<1> QED BY <1>1, <1>3 DEF TypeOK, Types, M

\* Whatever the network, the clients and the failures, the announcements, their
\* index and the messages have their types.
THEOREM AnnounceFloodTypeOK == Spec => []TypeOK
<1> QED BY TypesHold, TypesAreTypeOK, PTL

\* In every network, with failures and reconnections, the prefix index of
\* InfoBase lists every prefix of the tracks announced by one source; and until a
\* transport has failed it lists no other, so that RemoveAnnounce's answer, which
\* looks at the index, tells AnnounceInfoReceived the truth.
THEOREM AnnounceFloodIndexExact == Spec => []IndexExact
<1> QED BY TypesHold, TypesIndex, PTL
-----------------------------------------------------------------------------
(***************************************************************************)
(* Trees, and tracks with one source.  While no transport has failed, a    *)
(* message about what relay n publishes only travels away from n, over the *)
(* session up[n][r] to every relay r; and what is on its way to r over     *)
(* that session takes r from what it knows of the track to what the relay  *)
(* before it knows.                                                        *)
(***************************************************************************)

\* A key of a track with one source.
LEMMA SoleKeyIs ==
  ASSUME NEW key \in SoleKeys
  PROVE  /\ key \in Keys /\ key[1] \in SoleTracks /\ key[2] \in Node
         /\ key = <<key[1], key[2]>>
  BY SoleIs DEF SoleKeys

\* The messages of ch, on their way to r over s, are on the way from their
\* sources.
Routed(up, r, s, ch) ==
    \A i \in 1..Len(ch) :
        ch[i] \in Msgs /\ ch[i].name \in SoleTracks =>
            ch[i].source # r /\ up[ch[i].source][r] = s

\* What is on its way to r over s makes it agree with the relay at the other
\* end, as far as the key is concerned.
Edge(key, r, s) ==
    Leads(chan[r][s], Pos(key), Neg(key), key \in base[r].annos,
          remote[Peer(r, s)][s] # NoNode /\ key \in base[Peer(r, s)].annos)

Routes(up) == \A r \in Node, s \in Session : Routed(up, r, s, chan[r][s])

\* What r knows of n it has from the session that leads to n.
Reached(up) ==
    \A r \in Node, key \in SoleKeys :
        key \in base[r].annos /\ key[2] # r => remote[r][up[key[2]][r]] # NoNode

Edges(up) == \A key \in SoleKeys, r \in Node : r # key[2] => Edge(key, r, up[key[2]][r])

TreeInv(up) == drops = 0 => Handshakes /\ Routes(up) /\ Reached(up) /\ Edges(up)

\* Two sequences after each other.
LEMMA RoutedConcat ==
  ASSUME NEW S, NEW ch \in Seq(S), NEW out \in Seq(S), NEW up, NEW r, NEW s,
         Routed(up, r, s, ch), Routed(up, r, s, out)
  PROVE  Routed(up, r, s, ch \o out)
<1> DEFINE Q(m) == m \in Msgs /\ m.name \in SoleTracks => m.source # r /\ up[m.source][r] = s
<1>1. /\ Len(ch) \in Nat /\ Len(out) \in Nat /\ Len(ch \o out) = Len(ch) + Len(out)
      /\ \A i \in 1..Len(ch \o out) :
            (ch \o out)[i] = IF i <= Len(ch) THEN ch[i] ELSE out[i - Len(ch)]
  OBVIOUS
<1>2. (\A i \in 1..Len(ch) : Q(ch[i])) /\ (\A i \in 1..Len(out) : Q(out[i]))
  BY DEF Routed
<1>3. ASSUME NEW i \in 1..Len(ch \o out) PROVE Q((ch \o out)[i])
  <2> HIDE DEF Q
  <2>1. CASE i <= Len(ch)
    BY <1>1, <1>2, <2>1
  <2>2. CASE ~ (i <= Len(ch))
    <3>1. i - Len(ch) \in 1..Len(out)
      BY <1>1, <2>2
    <3> QED BY <1>1, <1>2, <2>2, <3>1
  <2> QED BY <2>1, <2>2
<1> QED BY <1>3 DEF Routed

\* What is left when the first message is taken.
LEMMA RoutedTail ==
  ASSUME NEW S, NEW ch \in Seq(S), ch # <<>>, NEW up, NEW r, NEW s, Routed(up, r, s, ch)
  PROVE  /\ Routed(up, r, s, Tail(ch))
         /\ Head(ch) \in Msgs /\ Head(ch).name \in SoleTracks =>
            Head(ch).source # r /\ up[Head(ch).source][r] = s
<1> DEFINE rest == Tail(ch)
<1>1. /\ Len(rest) \in Nat /\ Len(ch) = Len(rest) + 1 /\ Head(ch) = ch[1]
      /\ \A i \in 1..Len(rest) : rest[i] = ch[i + 1]
  OBVIOUS
<1> HIDE DEF rest
<1>2. 1 \in 1..Len(ch) /\ \A i \in 1..Len(rest) : i + 1 \in 1..Len(ch)
  BY <1>1
<1>3. Routed(up, r, s, rest)
  BY <1>1, <1>2 DEF Routed
<1>4. Head(ch) \in Msgs /\ Head(ch).name \in SoleTracks =>
            Head(ch).source # r /\ up[Head(ch).source][r] = s
  BY <1>1, <1>2 DEF Routed
<1> QED BY <1>3, <1>4 DEF rest

\* What relay x says of itself, and of the source of a message that came from
\* the session that leads there, is on its way from the source at the other end.
LEMMA SpeaksRouted ==
  ASSUME NEW dist, NEW up, IsTree(dist, up), NEW x \in Node, NEW b0, NEW e,
         NEW src, NEW res, Speaks(x, b0, e, src, res),
         src = x \/ (src \in Node /\ up[src][x] = e),
         NEW y \in Session, Prev[y] = NoSession, x \in Ends(y)
  PROVE  Routed(up, Peer(x, y), y, res.out[y])
<1> SUFFICES ASSUME NEW i \in 1..Len(res.out[y]), res.out[y][i].name \in SoleTracks
             PROVE  /\ res.out[y][i].source # Peer(x, y)
                    /\ up[res.out[y][i].source][Peer(x, y)] = y
  BY DEF Routed
<1> DEFINE n == res.out[y][i].source
<1>1. n = x \/ (n = src /\ y # e)
  BY DEF Speaks
<1> HIDE DEF n
<1>2. n \in Node /\ (x # n => up[n][x] # y)
  BY <1>1
<1>3. Peer(x, y) # n /\ up[n][Peer(x, y)] = y
  BY <1>2, TreeOther
<1> QED BY <1>3 DEF n

\* An edge at whose ends nothing changes.
LEMMA EdgeStays ==
  ASSUME NEW key, NEW r, NEW s, Edge(key, r, s), chan'[r][s] = chan[r][s],
         remote'[Peer(r, s)][s] = remote[Peer(r, s)][s],
         key \in base'[r].annos <=> key \in base[r].annos,
         key \in base'[Peer(r, s)].annos <=> key \in base[Peer(r, s)].annos
  PROVE  Edge(key, r, s)'
  BY DEF Edge, Leads, Peer

\* The far end sends.
LEMMA EdgeSends ==
  ASSUME NEW key, NEW r, NEW s, Edge(key, r, s), chan[r][s] \in Seq(Msgs \cup Hellos),
         NEW out \in Seq(Msgs),
         remote'[Peer(r, s)][s] = remote[Peer(r, s)][s],
         chan'[r][s] = IF remote[Peer(r, s)][s] # NoNode THEN chan[r][s] \o out
                       ELSE chan[r][s],
         key \in base'[r].annos <=> key \in base[r].annos,
         remote[Peer(r, s)][s] # NoNode =>
            Tells(out, key, base[Peer(r, s)].annos, base'[Peer(r, s)].annos)
  PROVE  Edge(key, r, s)'
<1> DEFINE p == Peer(r, s)
           a == key \in base[r].annos
           b == key \in base[p].annos
           c == key \in base'[p].annos
           S == Msgs \cup Hellos
           ch == chan[r][s]
<1>1. CASE remote[p][s] # NoNode
  <2>1. Leads(ch, Pos(key), Neg(key), a, b)
    BY <1>1 DEF Edge, Leads
  <2>2. Leads(out, Pos(key), Neg(key), b, c)
    BY <1>1 DEF Tells
  <2>3. out \in Seq(S) /\ ch \in Seq(S)
    OBVIOUS
  <2> HIDE DEF a, b, c, S, ch
  <2>4. Leads(ch \o out, Pos(key), Neg(key), a, c)
    BY <2>1, <2>2, <2>3, LeadsConcat
  <2>5. chan'[r][s] = ch \o out /\ remote'[p][s] # NoNode
    BY <1>1 DEF ch
  <2>6. Leads(chan'[r][s], Pos(key), Neg(key), key \in base'[r].annos,
              remote'[p][s] # NoNode /\ key \in base'[p].annos)
    BY <2>4, <2>5 DEF a, c, Leads
  <2> QED BY <2>6 DEF Edge, Peer
<1>2. CASE remote[p][s] = NoNode
  BY <1>2 DEF Edge, Leads, Peer
<1> QED BY <1>1, <1>2

\* The far end learns who r is and tells it all it knows.
LEMMA EdgeOpens ==
  ASSUME NEW key, NEW r, NEW s, Edge(key, r, s), chan[r][s] = <<>>,
         NEW out \in Seq(Msgs), NEW answer \in Seq(Hellos),
         remote[Peer(r, s)][s] = NoNode, remote'[Peer(r, s)][s] # NoNode,
         chan'[r][s] = chan[r][s] \o (answer \o out),
         key \in base'[r].annos <=> key \in base[r].annos,
         Tells(out, key, {}, base'[Peer(r, s)].annos)
  PROVE  Edge(key, r, s)'
<1> DEFINE p == Peer(r, s)
           a == key \in base[r].annos
           c == key \in base'[p].annos
           b == key \in {}
           S == Msgs \cup Hellos
<1>1. \A h \in Hellos : h \notin Pos(key) \cup Neg(key)
  BY DEF Hellos, Pos, Neg
<1>2. Len(<<>>) = 0 /\ \A i \in 1..0 : FALSE
  OBVIOUS
<1>3. a <=> b
  BY <1>2 DEF Edge, Leads
<1>4. Leads(answer, Pos(key), Neg(key), a, b)
  <2>1. \A i \in 1..Len(answer) : answer[i] \notin Pos(key) \cup Neg(key)
    <3>1. \A i \in 1..Len(answer) : answer[i] \in Hellos
      OBVIOUS
    <3> QED BY <1>1, <3>1
  <2> HIDE DEF a, b
  <2> QED BY <1>3, <2>1, LeadsNowhere
<1>5. Leads(out, Pos(key), Neg(key), b, c)
  BY DEF Tells
<1>6. out \in Seq(S) /\ answer \in Seq(S)
  OBVIOUS
<1>7. chan'[r][s] = answer \o out
  <2>1. answer \o out \in Seq(S)
    BY <1>6
  <2> DEFINE all == answer \o out
  <2> HIDE DEF all, S
  <2>2. <<>> \o all = all
    BY <2>1 DEF all
  <2> QED BY <2>2 DEF all
<1> HIDE DEF a, b, c, S
<1>8. Leads(answer \o out, Pos(key), Neg(key), a, c)
  BY <1>4, <1>5, <1>6, LeadsConcat
<1>9. Leads(chan'[r][s], Pos(key), Neg(key), key \in base'[r].annos,
            remote'[p][s] # NoNode /\ key \in base'[p].annos)
  BY <1>7, <1>8 DEF a, c, Leads
<1> QED BY <1>9 DEF Edge, Peer

\* The near end takes a message.
LEMMA EdgeTakes ==
  ASSUME NEW key, NEW r, NEW s, Edge(key, r, s), chan[r][s] \in Seq(Msgs \cup Hellos),
         chan[r][s] # <<>>, chan'[r][s] = Tail(chan[r][s]),
         remote'[Peer(r, s)][s] = remote[Peer(r, s)][s],
         key \in base'[Peer(r, s)].annos <=> key \in base[Peer(r, s)].annos,
         IF Head(chan[r][s]) \in Pos(key) \cup Neg(key)
         THEN key \in base'[r].annos <=> Head(chan[r][s]) \in Pos(key)
         ELSE key \in base'[r].annos <=> key \in base[r].annos
  PROVE  Edge(key, r, s)'
<1> DEFINE p == Peer(r, s)
           a == key \in base[r].annos
           c == key \in base'[r].annos
           b == remote[p][s] # NoNode /\ key \in base[p].annos
           S == Msgs \cup Hellos
           ch == chan[r][s]
<1>1. /\ Leads(ch, Pos(key), Neg(key), a, b) /\ ch \in Seq(S) /\ ch # <<>>
      /\ IF Head(ch) \in Pos(key) \cup Neg(key) THEN c <=> Head(ch) \in Pos(key)
         ELSE c <=> a
  BY DEF Edge
<1> HIDE DEF a, b, c, S, ch
<1>2. Leads(Tail(ch), Pos(key), Neg(key), c, b)
  BY <1>1, LeadsTail
<1>3. Leads(chan'[r][s], Pos(key), Neg(key), key \in base'[r].annos,
            remote'[p][s] # NoNode /\ key \in base'[p].annos)
  BY <1>2 DEF b, c, ch, Leads
<1> QED BY <1>3 DEF Edge, Peer

\* A client's operation keeps the invariant of trees.
LEMMA OperationKeepsTree ==
  ASSUME NEW dist, NEW up, IsTree(dist, up), Types, Types', Handshakes,
         Routes(up), Reached(up), Edges(up), NEW x \in Node, NEW res, Operates(x, res)
  PROVE  Handshakes' /\ Routes(up)' /\ Reached(up)' /\ Edges(up)'
<1> DEFINE out == res.out
           b0 == base[x]
<1>1. /\ out \in Outputs(Msgs) /\ Speaks(x, b0, NoSession, x, res)
      /\ chan' = Sent(chan, x, status[x], remote[x], out)
      /\ UNCHANGED <<status, remote, transport, drops>>
      /\ \A q \in Node : base'[q] = IF q = x THEN res.base ELSE base[q]
      /\ \A key \in Keys : key[2] # x => (key \in res.base.annos <=> key \in b0.annos)
  <2>1. Speaks(x, b0, NoSession, x, res) /\ Operation(x, res)
    BY DEF Operates
  <2>2. \A key \in Keys : key[2] # x => (key \in res.base.annos <=> key \in b0.annos)
    BY DEF Operates
  <2>3. \A q \in Node : base'[q] = IF q = x THEN res.base ELSE base[q]
    BY <2>1 DEF Operation, Types
  <2>4. out \in Outputs(Msgs)
    BY <2>1 DEF Speaks
  <2> QED BY <2>1, <2>2, <2>3, <2>4 DEF Operation
<1> HIDE DEF out, b0
<1>2. SessionTypes(Msgs) /\ chan \in [Node -> [Session -> Seq(Msgs \cup Hellos)]]
  BY DEF Types, SessionTypes
<1>3. /\ Handshakes'
      /\ \A q \in Node, y \in Session :
            chan'[q][y] = IF SentTo(x, remote[x], q, y)
                          THEN chan[q][y] \o out[y] ELSE chan[q][y]
  BY <1>1, <1>2, MsgsNoHello, SendHandshakes
<1>4. \A y \in Session : out[y] \in Seq(Msgs) /\ out[y] \in Seq(Msgs \cup Hellos)
  <2> TAKE y \in Session
  <2>1. out[y] \in Seq(Msgs)
    BY <1>1 DEF Outputs
  <2> QED BY <2>1
<1>5. ASSUME NEW q \in Node, NEW y \in Session PROVE Routed(up, q, y, chan'[q][y])
  <2>1. Routed(up, q, y, chan[q][y])
    BY DEF Routes
  <2>2. CASE SentTo(x, remote[x], q, y)
    <3>1. x \in Ends(y) /\ q = Peer(x, y) /\ remote[x][y] # NoNode
      BY <2>2 DEF SentTo
    <3>2. Prev[y] = NoSession
      BY <3>1, KnownConnected
    <3>3. Routed(up, q, y, out[y])
      BY <1>1, <3>1, <3>2, SpeaksRouted DEF out
    <3>4. Routed(up, q, y, chan[q][y] \o out[y])
      BY <1>2, <1>4, <2>1, <3>3, RoutedConcat
    <3> QED BY <1>3, <2>2, <3>4
  <2>3. CASE ~ SentTo(x, remote[x], q, y)
    BY <1>3, <2>1, <2>3
  <2> QED BY <2>2, <2>3
<1>6. Routes(up)'
  BY <1>5 DEF Routes, Routed
<1>7. Reached(up)'
  <2> SUFFICES ASSUME NEW r \in Node, NEW key \in SoleKeys, key \in base'[r].annos,
                      key[2] # r
               PROVE  remote'[r][up[key[2]][r]] # NoNode
    BY DEF Reached
  <2>1. key \in Keys
    BY SoleKeyIs
  <2>2. key \in base[r].annos
    BY <1>1, <2>1 DEF b0
  <2> QED BY <1>1, <2>2 DEF Reached
<1>8. ASSUME NEW key \in SoleKeys, NEW r \in Node, r # key[2]
      PROVE  Edge(key, r, up[key[2]][r])'
  <2> DEFINE n == key[2]
             s == up[n][r]
             p == Peer(r, s)
  <2>1. n \in Node /\ r # n
    BY <1>8, SoleKeyIs
  <2>2. /\ s \in Session /\ r \in Ends(s) /\ p \in Node /\ p # r
        /\ Edge(key, r, s)
    BY <1>8, <2>1, TreeEnds DEF Edges
  <2>3. (key \in base'[r].annos <=> key \in base[r].annos)
    BY <1>1, <2>1, SoleKeyIs DEF b0
  <2> HIDE DEF n, s
  <2>4. chan[r][s] \in Seq(Msgs \cup Hellos) /\ remote' = remote /\ Peer(p, s) = r
    BY <1>1, <1>2, <2>2, EndsFacts
  <2>5. p \in Ends(s)
    BY <2>2, EndsFacts
  <2>6. CASE x = p
    <3>1. SentTo(x, remote[x], r, s) <=> remote[p][s] # NoNode
      BY <2>4, <2>5, <2>6 DEF SentTo
    <3>2. chan'[r][s] = IF remote[p][s] # NoNode THEN chan[r][s] \o out[s] ELSE chan[r][s]
      BY <1>3, <2>2, <3>1
    <3>3. ASSUME remote[p][s] # NoNode
          PROVE  Tells(out[s], key, base[p].annos, base'[p].annos)
      <4>1. s # NoSession
        BY <2>2 DEF Session, NoSession
      <4>2. Tells(out[s], key, b0.annos, res.base.annos)
        BY <1>1, <2>2, <4>1 DEF Speaks, out
      <4>3. b0.annos = base[p].annos /\ res.base.annos = base'[p].annos
        BY <1>1, <2>6 DEF b0
      <4> QED BY <4>2, <4>3
    <3>4. remote'[p][s] = remote[p][s] /\ out[s] \in Seq(Msgs)
      BY <1>4, <2>2, <2>4
    <3>5. Edge(key, r, s)'
      BY <2>2, <2>3, <2>4, <3>2, <3>3, <3>4, EdgeSends
    <3> QED BY <3>5 DEF s, n
  <2>7. CASE x # p
    <3>1. ~ SentTo(x, remote[x], r, s)
      <4>1. x \in Ends(s) => Peer(Peer(x, s), s) = x
        BY <2>2, EndsFacts
      <4> QED BY <2>7, <4>1 DEF SentTo
    <3>2. chan'[r][s] = chan[r][s] /\ remote'[p][s] = remote[p][s]
      BY <1>3, <2>2, <2>4, <3>1
    <3>3. base'[p] = base[p]
      BY <1>1, <2>2, <2>7
    <3>4. Edge(key, r, s)'
      BY <2>2, <2>3, <3>2, <3>3, EdgeStays
    <3> QED BY <3>4 DEF s, n
  <2> QED BY <2>6, <2>7
<1> QED BY <1>3, <1>6, <1>7, <1>8 DEF Edges

\* Relay x takes message m of session e, sends and is left with the result.
Receives(x, e, m, res) ==
    /\ chan[x][e] # <<>> /\ m = Head(chan[x][e]) /\ Take(x, e, m, res.out)
    /\ \A q \in Node : base'[q] = IF q = x THEN res.base ELSE base[q]
    /\ Handles(x, e, base[x], m, res)

\* What relay x sends on session y as it takes message m of session e, behind
\* the answer.
LEMMA AnswerIs ==
  ASSUME NEW x \in Node, NEW e, NEW m, NEW y, NEW up, NEW q
  PROVE  /\ Answer(x, e, m, y) \in Seq(Hellos) /\ Routed(up, q, y, Answer(x, e, m, y))
         /\ (y # e \/ m.kind # "connect") => Answer(x, e, m, y) = <<>>
<1> DEFINE h == Hello("connectResponse", x)
<1>1. h \in Hellos /\ h \notin Msgs
  BY DEF Hello, Hellos, Msgs
<1> HIDE DEF h
<1>2. Answer(x, e, m, y) \in {<<h>>, <<>>}
  BY DEF Answer, h
<1>3. <<h>> \in Seq(Hellos) /\ <<>> \in Seq(Hellos)
  BY <1>1
<1>4. /\ Len(<<h>>) = 1 /\ Len(<<>>) = 0 /\ \A i \in 1..0 : FALSE
      /\ \A i \in 1..1 : <<h>>[i] = h
  OBVIOUS
<1>5. Routed(up, q, y, <<h>>) /\ Routed(up, q, y, <<>>)
  BY <1>1, <1>4 DEF Routed
<1> QED BY <1>2, <1>3, <1>5 DEF Answer

\* Taking a message about a basecription keeps the invariant of trees.
LEMMA TellKeepsTree ==
  ASSUME NEW dist, NEW up, IsTree(dist, up), Types, Types', Handshakes,
         Routes(up), Reached(up), Edges(up), NEW x \in Node, NEW e \in Session,
         NEW m \in Msgs, NEW res, Receives(x, e, m, res)
  PROVE  Handshakes' /\ Routes(up)' /\ Reached(up)' /\ Edges(up)'
<1> DEFINE out == res.out
           b0 == base[x]
           sole == m.name \in SoleTracks
           src == IF sole THEN m.source ELSE x
           from == IF sole THEN e ELSE NoSession
           about == <<m.name, m.source>>
<1>1. /\ chan[x][e] # <<>> /\ m = Head(chan[x][e]) /\ Take(x, e, m, out)
      /\ \A q \in Node : base'[q] = IF q = x THEN res.base ELSE base[q]
      /\ Handles(x, e, b0, m, res)
  BY DEF Receives
<1>2. /\ m \notin Hellos /\ ~ IsHello(m)
      /\ m.kind # "connect" /\ about \in Keys /\ m.source \in Node
  BY DEF Hellos, Msgs, IsHello, Keys
<1>3. Speaks(x, b0, from, src, res)
  <2>1. Concerns(m, e, from, src)
    BY DEF Concerns
  <2> HIDE DEF from, src
  <2> QED BY <1>1, <1>2, <2>1 DEF Handles
<1>4. \A key \in SoleKeys : key \in res.base.annos <=>
         IF key = about THEN m.kind = "announce" ELSE key \in b0.annos
  <2>1. CASE m.kind = "announce" /\ res.base.annos = b0.annos \cup {about}
    BY <2>1
  <2>2. CASE /\ m.kind = "unannounce"
             /\ \A key \in SoleKeys : key \in res.base.annos <=> key \in b0.annos /\ key # about
    BY <2>2
  <2> QED BY <1>1, <1>2, <2>1, <2>2 DEF Handles
<1>5. out \in Outputs(Msgs)
  BY <1>3 DEF Speaks
<1>6. SessionTypes(Msgs) /\ chan \in [Node -> [Session -> Seq(Msgs \cup Hellos)]]
  BY DEF Types, SessionTypes
<1> HIDE DEF out, b0
<1>7. Handshakes' /\ Taken(Msgs, x, e, m, out)
  BY <1>1, <1>5, <1>6, MsgsNoHello, TakeHandshakes
<1>8. /\ x \in Ends(e) /\ remote[x][e] # NoNode
      /\ \A q \in Node, y \in Session : remote'[q][y] = remote[q][y]
      /\ chan'[x][e] = Tail(chan[x][e])
      /\ \A y \in Session : y # e => chan'[x][y] = chan[x][y]
  BY <1>2, <1>7 DEF Taken
<1>9. \A y \in Session : out[y] \in Seq(Msgs) /\ out[y] \in Seq(Msgs \cup Hellos)
  <2> TAKE y \in Session
  <2>1. out[y] \in Seq(Msgs)
    BY <1>5 DEF Outputs
  <2> QED BY <2>1
<1>10. ASSUME NEW q \in Node, NEW y \in Session, q # x
       PROVE  chan'[q][y] = IF x \in Ends(y) /\ q = Peer(x, y) /\ remote[x][y] # NoNode
                            THEN chan[q][y] \o out[y] ELSE chan[q][y]
  <2>1. Answer(x, e, m, y) = <<>>
    BY <1>2, AnswerIs
  <2>2. <<>> \o out[y] = out[y]
    BY <1>9
  <2>3. chan'[q][y] = IF SentTo(x, remote'[x], q, y)
                      THEN chan[q][y] \o (Answer(x, e, m, y) \o out[y]) ELSE chan[q][y]
    BY <1>7, <1>10 DEF Taken
  <2> QED BY <1>8, <2>1, <2>2, <2>3 DEF SentTo
<1>11. /\ sole => src = m.source /\ src # x /\ up[src][x] = e /\ from = e
       /\ ~ sole => src = x /\ from = NoSession
  <2>1. Routed(up, x, e, chan[x][e]) /\ chan[x][e] \in Seq(Msgs \cup Hellos)
    BY <1>6 DEF Routes
  <2>2. sole => m.source # x /\ up[m.source][x] = e
    BY <1>1, <2>1, RoutedTail
  <2> QED BY <2>2
<1>12. src = x \/ (src \in Node /\ up[src][x] = from)
  BY <1>2, <1>11
<1>13. about[1] = m.name /\ about[2] = m.source
  OBVIOUS
<1> HIDE DEF src, from, about, sole
<1>14. ASSUME NEW q \in Node, NEW y \in Session PROVE Routed(up, q, y, chan'[q][y])
  <2>1. Routed(up, q, y, chan[q][y]) /\ chan[q][y] \in Seq(Msgs \cup Hellos)
    BY <1>6 DEF Routes
  <2>2. CASE q = x /\ y = e
    BY <1>1, <1>8, <2>1, <2>2, RoutedTail
  <2>3. CASE q = x /\ y # e
    BY <1>8, <2>1, <2>3
  <2>4. CASE q # x /\ x \in Ends(y) /\ q = Peer(x, y) /\ remote[x][y] # NoNode
    <3>1. Prev[y] = NoSession
      BY <2>4, KnownConnected
    <3>2. Routed(up, q, y, out[y])
      BY <1>3, <1>12, <2>4, <3>1, SpeaksRouted DEF out
    <3>3. Routed(up, q, y, chan[q][y] \o out[y])
      BY <1>9, <2>1, <3>2, RoutedConcat
    <3> QED BY <1>10, <2>4, <3>3
  <2>5. CASE q # x /\ ~ (x \in Ends(y) /\ q = Peer(x, y) /\ remote[x][y] # NoNode)
    BY <1>10, <2>1, <2>5
  <2> QED BY <2>2, <2>3, <2>4, <2>5
<1>15. Routes(up)'
  BY <1>14 DEF Routes, Routed
<1>16. Reached(up)'
  <2> SUFFICES ASSUME NEW r \in Node, NEW key \in SoleKeys, key \in base'[r].annos,
                      key[2] # r
               PROVE  remote'[r][up[key[2]][r]] # NoNode
    BY DEF Reached
  <2>2. key[2] \in Node
    BY SoleKeyIs
  <2>3. up[key[2]][r] \in Session
    BY <2>2, TreeEnds
  <2>4. CASE key \in base[r].annos
    <3>1. remote[r][up[key[2]][r]] # NoNode
      BY <2>4 DEF Reached
    <3> QED BY <1>8, <2>3, <3>1
  <2>5. CASE key \notin base[r].annos
    <3>1. r = x /\ key = about
      BY <1>1, <1>4, <2>5 DEF b0
    <3>2. sole
      BY <1>13, <3>1, SoleKeyIs DEF sole
    <3> QED BY <1>8, <1>11, <1>13, <3>1, <3>2
  <2> QED BY <2>4, <2>5
<1>17. ASSUME NEW key \in SoleKeys, NEW r \in Node, r # key[2]
       PROVE  Edge(key, r, up[key[2]][r])'
  <2> DEFINE n == key[2]
             s == up[n][r]
             p == Peer(r, s)
  <2>1. n \in Node /\ r # n /\ key = <<key[1], n>>
    BY <1>17, SoleKeyIs
  <2>2. /\ s \in Session /\ r \in Ends(s) /\ p \in Node /\ p # r
        /\ Edge(key, r, s) /\ (p # n => up[n][p] # s)
    <3>1. Edge(key, r, s)
      BY <1>17 DEF Edges
    <3> HIDE DEF n
    <3>2. /\ s \in Session /\ r \in Ends(s) /\ p \in Node /\ p # r
          /\ p # n => up[n][p] # s
      BY <2>1, TreeEnds
    <3> QED BY <3>1, <3>2
  <2> HIDE DEF n, s
  <2>3. chan[r][s] \in Seq(Msgs \cup Hellos) /\ Peer(p, s) = r /\ p \in Ends(s)
    BY <1>6, <2>2, EndsFacts
  <2>4. remote'[p][s] = remote[p][s]
    BY <1>8, <2>2
  <2>5. CASE x = r
    <3>1. base'[p] = base[p]
      BY <1>1, <2>2, <2>5
    <3>2. base'[r] = res.base /\ b0 = base[r]
      BY <1>1, <2>5 DEF b0
    <3>4. key # about => (key \in base'[r].annos <=> key \in base[r].annos)
      BY <1>4, <3>2
    <3>5. key = about => (key \in base'[r].annos <=> m.kind = "announce")
      BY <1>4, <3>2
    <3>6. CASE s = e
      <4>1. m \in Pos(key) \cup Neg(key) <=> about = key
        BY DEF Pos, Neg, Msgs, about
      <4>2. m \in Pos(key) <=> about = key /\ m.kind = "announce"
        BY DEF Pos, about
      <4>3. IF m \in Pos(key) \cup Neg(key)
            THEN key \in base'[r].annos <=> m \in Pos(key)
            ELSE key \in base'[r].annos <=> key \in base[r].annos
        BY <3>4, <3>5, <4>1, <4>2
      <4>4. /\ chan[r][s] # <<>> /\ m = Head(chan[r][s]) /\ chan'[r][s] = Tail(chan[r][s])
        BY <1>1, <1>8, <2>5, <3>6
      <4>5. Edge(key, r, s)'
        BY <2>2, <2>3, <2>4, <3>1, <4>3, <4>4, EdgeTakes
      <4> QED BY <4>5 DEF s, n
    <3>7. CASE s # e
      <4>1. key # about
        <5>1. SUFFICES ASSUME key = about PROVE FALSE
          OBVIOUS
        <5>2. sole /\ n = m.source
          BY <1>13, <5>1, SoleKeyIs DEF sole, n
        <5> QED BY <1>11, <2>5, <3>7, <5>2 DEF s
      <4>2. chan'[r][s] = chan[r][s]
        BY <1>8, <2>2, <2>5, <3>7
      <4>3. Edge(key, r, s)'
        BY <2>2, <2>4, <3>1, <3>4, <4>1, <4>2, EdgeStays
      <4> QED BY <4>3 DEF s, n
    <3> QED BY <3>6, <3>7
  <2>6. CASE x = p
    <3>1. base'[r] = base[r] /\ base'[p] = res.base /\ b0 = base[p] /\ x # r
      BY <1>1, <2>2, <2>6 DEF b0
    <3>2. chan'[r][s] = IF remote[p][s] # NoNode THEN chan[r][s] \o out[s] ELSE chan[r][s]
      BY <1>10, <2>2, <2>3, <2>6, <3>1
    <3>3. s # from \/ n # src
      <4>1. s # NoSession
        BY <2>2 DEF Session, NoSession
      <4> QED BY <1>11, <2>2, <2>6, <4>1
    <3>4. ASSUME remote[p][s] # NoNode
          PROVE  Tells(out[s], key, base[p].annos, base'[p].annos)
      <4>1. Tells(out[s], key, b0.annos, res.base.annos)
        BY <1>3, <2>2, <3>3 DEF Speaks, out, n
      <4> QED BY <3>1, <4>1
    <3>5. out[s] \in Seq(Msgs)
      BY <1>9, <2>2
    <3>6. key \in base'[r].annos <=> key \in base[r].annos
      BY <3>1
    <3>7. Edge(key, r, s)'
      BY <2>2, <2>3, <2>4, <3>2, <3>4, <3>5, <3>6, EdgeSends
    <3> QED BY <3>7 DEF s, n
  <2>7. CASE x # r /\ x # p
    <3>1. ~ (x \in Ends(s) /\ r = Peer(x, s))
      BY <2>2, <2>7, EndsFacts
    <3>2. chan'[r][s] = chan[r][s]
      BY <1>10, <2>2, <2>7, <3>1
    <3>3. base'[p] = base[p] /\ base'[r] = base[r]
      BY <1>1, <2>2, <2>7
    <3>4. Edge(key, r, s)'
      BY <2>2, <2>4, <3>2, <3>3, EdgeStays
    <3> QED BY <3>4 DEF s, n
  <2> QED BY <2>5, <2>6, <2>7
<1> QED BY <1>7, <1>15, <1>16, <1>17 DEF Edges

\* The hello of a peer keeps the invariant of trees: what the sync tells the peer
\* has not come from it, since this end has not known it so far.
LEMMA HelloKeepsTree ==
  ASSUME NEW dist, NEW up, IsTree(dist, up), Types, Types', Handshakes,
         Routes(up), Reached(up), Edges(up), NEW x \in Node, NEW e \in Session,
         NEW m \in Hellos, NEW res, Receives(x, e, m, res)
  PROVE  Handshakes' /\ Routes(up)' /\ Reached(up)' /\ Edges(up)'
<1> DEFINE out == res.out
           b0 == base[x]
           v == Peer(x, e)
<1>1. /\ chan[x][e] # <<>> /\ m = Head(chan[x][e]) /\ Take(x, e, m, out)
      /\ \A q \in Node : base'[q] = IF q = x THEN res.base ELSE base[q]
      /\ Handles(x, e, b0, m, res)
  BY DEF Receives
<1>2. m \notin Msgs /\ \A key : m \notin Pos(key) \cup Neg(key)
  BY DEF Hellos, Msgs, Pos, Neg
<1>3. PICK sync : /\ Synchronises(b0, m.id, sync) /\ res.base = b0
                  /\ out = [NoOutput EXCEPT ![e] = sync]
  BY <1>1, <1>2 DEF Handles
<1>4. /\ res.base.annos = b0.annos /\ sync \in Seq(Msgs)
      /\ \A i \in 1..Len(sync) :
            <<sync[i].name, sync[i].source>> \in b0.annos /\ sync[i].source # m.id
      /\ \A key \in Keys : key[2] # m.id => Tells(sync, key, {}, res.base.annos)
  BY <1>3 DEF Synchronises
<1>5. \A y \in Session : out[y] = IF y = e THEN sync ELSE <<>>
  <2>1. NoOutput \in [Session -> Seq(Msgs)] /\ \A y \in Session : NoOutput[y] = <<>>
    BY NoOutputType DEF Outputs, NoOutput
  <2> QED BY <1>3, <2>1
<1>6. out \in Outputs(Msgs)
  <2>1. NoOutput \in [Session -> Seq(Msgs)]
    BY NoOutputType DEF Outputs
  <2> QED BY <1>3, <1>4, <2>1 DEF Outputs
<1>7. SessionTypes(Msgs) /\ chan \in [Node -> [Session -> Seq(Msgs \cup Hellos)]]
  BY DEF Types, SessionTypes
<1> HIDE DEF out, b0
<1>8. Handshakes' /\ Taken(Msgs, x, e, m, out)
  BY <1>1, <1>6, <1>7, MsgsNoHello, TakeHandshakes
<1>9. /\ x \in Ends(e) /\ remote[x][e] = NoNode /\ m.id = v /\ remote'[x][e] = v
      /\ chan[v][e] = <<>>
      /\ \A q \in Node, y \in Session : q # x \/ y # e => remote'[q][y] = remote[q][y]
      /\ chan'[x][e] = Tail(chan[x][e])
      /\ \A y \in Session : y # e => chan'[x][y] = chan[x][y]
  BY <1>8 DEF Taken
<1>10. v \in Node /\ v # x /\ v # NoNode /\ Peer(v, e) = x
  BY <1>9, EndsFacts
<1>11. \A q \in Node : \A key : key \in base'[q].annos <=> key \in base[q].annos
  BY <1>1, <1>4 DEF b0
<1>12. ASSUME NEW q \in Node, NEW y \in Session, q # x, y # e
       PROVE  chan'[q][y] = chan[q][y]
  <2>1. Answer(x, e, m, y) = <<>> /\ out[y] = <<>>
    BY <1>5, <1>12, AnswerIs
  <2>2. chan[q][y] \in Seq(Msgs \cup Hellos)
    BY <1>7
  <2>3. ASSUME NEW S, NEW ch \in Seq(S) PROVE ch \o (<<>> \o <<>>) = ch
    OBVIOUS
  <2>4. chan'[q][y] = IF SentTo(x, remote'[x], q, y)
                      THEN chan[q][y] \o (Answer(x, e, m, y) \o out[y]) ELSE chan[q][y]
    BY <1>8, <1>12 DEF Taken
  <2> QED BY <2>1, <2>2, <2>3, <2>4
<1>13. ASSUME NEW q \in Node, q # x, q # v
       PROVE  chan'[q][e] = chan[q][e]
  <2>1. chan'[q][e] = IF SentTo(x, remote'[x], q, e)
                      THEN chan[q][e] \o (Answer(x, e, m, e) \o out[e]) ELSE chan[q][e]
    BY <1>8, <1>13 DEF Taken
  <2> QED BY <1>13, <2>1 DEF SentTo
<1> DEFINE answer == Answer(x, e, m, e)
<1>14. chan'[v][e] = chan[v][e] \o (answer \o sync)
  <2>1. chan'[v][e] = IF SentTo(x, remote'[x], v, e)
                      THEN chan[v][e] \o (Answer(x, e, m, e) \o out[e]) ELSE chan[v][e]
    BY <1>8, <1>10 DEF Taken
  <2>2. SentTo(x, remote'[x], v, e)
    BY <1>9, <1>10 DEF SentTo
  <2> QED BY <1>5, <2>1, <2>2
<1>15. answer \in Seq(Hellos) /\ Routed(up, v, e, answer)
  BY AnswerIs
<1> HIDE DEF v, answer
<1>16. Prev[e] = NoSession
  <2>1. Phase(e)' /\ (Prev[e] # NoSession => transport'[e] = "idle")
    BY <1>8 DEF Handshakes
  <2>2. remote'[x][e] # NoNode
    BY <1>9, <1>10
  <2> QED BY <1>9, <2>1, <2>2 DEF Phase, Unopened, Asked, Answered, Joined, Ends
<1>17. Routed(up, v, e, sync)
  <2> SUFFICES ASSUME NEW i \in 1..Len(sync), sync[i].name \in SoleTracks
               PROVE  /\ sync[i].source # v /\ up[sync[i].source][v] = e
    BY DEF Routed
  <2> DEFINE key == <<sync[i].name, sync[i].source>>
             n == sync[i].source
  <2>1. key \in b0.annos /\ n # v
    BY <1>4, <1>9
  <2>2. n \in Node /\ key \in SoleKeys /\ key[2] = n
    <3>1. sync[i] \in Msgs
      BY <1>4
    <3> QED BY <3>1 DEF Msgs, SoleKeys
  <2>3. x # n => up[n][x] # e
    <3> HIDE DEF key
    <3> QED BY <1>9, <2>1, <2>2 DEF Reached, b0
  <2> HIDE DEF n
  <2>4. Peer(x, e) # n /\ up[n][Peer(x, e)] = e
    BY <1>9, <1>16, <2>2, <2>3, TreeOther
  <2> QED BY <2>4 DEF v, n
<1>18. ASSUME NEW q \in Node, NEW y \in Session PROVE Routed(up, q, y, chan'[q][y])
  <2>1. Routed(up, q, y, chan[q][y]) /\ chan[q][y] \in Seq(Msgs \cup Hellos)
    BY <1>7 DEF Routes
  <2>2. CASE q = x /\ y = e
    BY <1>1, <1>9, <2>1, <2>2, RoutedTail
  <2>3. CASE q = x /\ y # e
    BY <1>9, <2>1, <2>3
  <2>4. CASE q = v /\ y = e
    <3> DEFINE S == Msgs \cup Hellos
    <3>1. answer \in Seq(S) /\ sync \in Seq(S) /\ chan[v][e] \in Seq(S)
      BY <1>4, <1>15, <2>1, <2>4
    <3> DEFINE more == sync
               ch == chan[v][e]
    <3> HIDE DEF S, more, ch
    <3>2. answer \in Seq(S) /\ more \in Seq(S) /\ ch \in Seq(S)
      BY <3>1 DEF more, ch
    <3>3. Routed(up, v, e, answer \o more) /\ answer \o more \in Seq(S)
      BY <1>15, <1>17, <3>2, RoutedConcat DEF more
    <3>4. Routed(up, v, e, ch)
      BY <2>1, <2>4 DEF ch
    <3>5. Routed(up, v, e, ch \o (answer \o more))
      BY <3>2, <3>3, <3>4, RoutedConcat
    <3> QED BY <1>14, <2>4, <3>5 DEF ch, more
  <2>5. CASE q # x /\ ~ (q = v /\ y = e)
    BY <1>12, <1>13, <2>1, <2>5
  <2> QED BY <1>10, <2>2, <2>3, <2>4, <2>5
<1>19. Routes(up)'
  BY <1>18 DEF Routes, Routed
<1>20. Reached(up)'
  <2> SUFFICES ASSUME NEW r \in Node, NEW key \in SoleKeys, key \in base'[r].annos,
                      key[2] # r
               PROVE  remote'[r][up[key[2]][r]] # NoNode
    BY DEF Reached
  <2>1. key \in base[r].annos
    BY <1>11
  <2>2. key[2] \in Node
    BY SoleKeyIs
  <2>3. up[key[2]][r] \in Session
    BY <2>2, TreeEnds
  <2>4. remote[r][up[key[2]][r]] # NoNode
    BY <2>1 DEF Reached
  <2> QED BY <1>9, <1>10, <2>3, <2>4
<1>21. ASSUME NEW key \in SoleKeys, NEW r \in Node, r # key[2]
       PROVE  Edge(key, r, up[key[2]][r])'
  <2> DEFINE n == key[2]
             s == up[n][r]
             p == Peer(r, s)
  <2>1. n \in Node /\ r # n
    BY <1>21, SoleKeyIs
  <2>2. Edge(key, r, s)
    BY <1>21 DEF Edges
  <2> HIDE DEF n
  <2>3. s \in Session /\ r \in Ends(s) /\ p \in Node /\ p # r
    BY <2>1, TreeEnds
  <2> HIDE DEF s
  <2>4. /\ chan[r][s] \in Seq(Msgs \cup Hellos) /\ Peer(p, s) = r
        /\ key \in base'[r].annos <=> key \in base[r].annos
        /\ key \in base'[p].annos <=> key \in base[p].annos
    <3>1. chan[r][s] \in Seq(Msgs \cup Hellos) /\ Peer(p, s) = r
      BY <1>7, <2>3, EndsFacts
    <3> HIDE DEF p
    <3> QED BY <1>11, <2>3, <3>1
  <2>5. CASE r = x /\ s = e
    <3>1. remote'[p][s] = remote[p][s]
      BY <1>9, <2>3, <2>5
    <3>2. /\ chan[r][s] # <<>> /\ m = Head(chan[r][s]) /\ chan'[r][s] = Tail(chan[r][s])
      BY <1>1, <1>9, <2>5
    <3>3. Edge(key, r, s)'
      BY <1>2, <2>2, <2>4, <3>1, <3>2, EdgeTakes
    <3> QED BY <3>3 DEF s, n
  <2>6. CASE p = x /\ s = e
    <3>1. r = v
      BY <2>4, <2>6 DEF v
    <3>2. chan[r][s] = <<>> /\ remote[p][s] = NoNode /\ remote'[p][s] # NoNode
      BY <1>9, <1>10, <2>6, <3>1
    <3> DEFINE more == sync
    <3>3. chan'[r][s] = chan[r][s] \o (answer \o more) /\ more \in Seq(Msgs)
      BY <1>4, <1>14, <2>6, <3>1
    <3>4. Tells(more, key, {}, base'[p].annos)
      BY <1>1, <1>4, <1>9, <2>1, <2>3, <2>6, <3>1, SoleKeyIs DEF n
    <3> HIDE DEF more
    <3>5. Edge(key, r, s)'
      BY <1>15, <2>2, <2>4, <3>2, <3>3, <3>4, EdgeOpens
    <3> QED BY <3>5 DEF s, n
  <2>7. CASE s # e \/ (r # x /\ p # x)
    <3>1. remote'[p][s] = remote[p][s]
      BY <1>9, <2>3, <2>7
    <3>2. chan'[r][s] = chan[r][s]
      <4>1. CASE s # e
        BY <1>9, <1>12, <2>3, <4>1
      <4>2. CASE s = e /\ r # x /\ p # x
        <5>1. r # v
          BY <1>10, <4>2
        <5> QED BY <1>13, <4>2, <5>1
      <4> QED BY <2>7, <4>1, <4>2
    <3>3. Edge(key, r, s)'
      BY <2>2, <2>4, <3>1, <3>2, EdgeStays
    <3> QED BY <3>3 DEF s, n
  <2> QED BY <2>5, <2>6, <2>7
<1> QED BY <1>8, <1>19, <1>20, <1>21 DEF Edges

\* The invariant of trees holds at the start.
LEMMA InitTree ==
  ASSUME NEW dist, NEW up, IsTree(dist, up), Init
  PROVE  TreeInv(up)
<1>1. Handshakes
  BY InitHandshakes DEF Init
<1>2. /\ \A r \in Node, s \in Session : chan[r][s] = <<>>
      /\ \A r \in Node : base[r].annos = {}
  BY DEF Init, SessionsInit, EmptyBase
<1>3. Len(<<>>) = 0 /\ \A i \in 1..0 : FALSE
  OBVIOUS
<1>4. Routes(up)
  BY <1>2, <1>3 DEF Routes, Routed
<1>5. Reached(up)
  BY <1>2 DEF Reached
<1>6. ASSUME NEW key \in SoleKeys, NEW r \in Node, r # key[2]
      PROVE  Edge(key, r, up[key[2]][r])
  <2> DEFINE s == up[key[2]][r]
             p == Peer(r, s)
  <2>1. s \in Session /\ p \in Node
    BY <1>6, SoleKeyIs, TreeEnds
  <2> HIDE DEF s, p
  <2>2. chan[r][s] = <<>> /\ base[r].annos = {} /\ base[p].annos = {}
    BY <1>2, <2>1
  <2>3. Edge(key, r, s)
    BY <1>3, <2>2 DEF Edge, Leads, p
  <2> QED BY <2>3 DEF s
<1> QED BY <1>1, <1>4, <1>5, <1>6 DEF TreeInv, Edges

\* Every step keeps it.
LEMMA NextKeepsTree ==
  ASSUME NEW dist, NEW up, IsTree(dist, up), Types, Types', TreeInv(up), [Next]_vars
  PROVE  TreeInv(up)'
<1> DEFINE Tree == Handshakes /\ Routes(up) /\ Reached(up) /\ Edges(up)
<1> SUFFICES ASSUME drops' = 0 PROVE Tree'
  BY DEF TreeInv
<1>1. CASE UNCHANGED vars
  <2>1. Tree
    BY <1>1 DEF TreeInv, vars, announceVars, sessionVars
  <2>2. Handshakes'
    BY <1>1, <2>1 DEF vars, announceVars, sessionVars, Handshakes, Phase, Unopened, Asked, Answered,
                      Joined, NoHelloIn
  <2>3. Routes(up)' /\ Reached(up)'
    BY <1>1, <2>1 DEF vars, announceVars, sessionVars, Routes, Routed, Reached
  <2>4. Edges(up)'
    BY <1>1, <2>1 DEF vars, announceVars, sessionVars, Edges, Edge
  <2> QED BY <2>2, <2>3, <2>4
<1>2. ASSUME NEW s \in Session, Break(s) PROVE FALSE
  BY <1>2, BreakTypes DEF Types
<1>3. ASSUME NEW s \in Session, Connect(s) \/ OnNewConnection(s) \/ OnReady(s),
             UNCHANGED announceVars
      PROVE  Tree'
  <2>1. drops' = drops
    BY <1>3 DEF Connect, OnNewConnection, OnReady
  <2>2. Tree
    BY <2>1 DEF TreeInv
  <2>3. /\ Handshakes'
        /\ \A q \in Node, x \in Session :
             /\ remote'[q][x] = remote[q][x]
             /\ \/ chan'[q][x] = chan[q][x]
                \/ /\ chan[q][x] = <<>>
                   /\ chan'[q][x] = <<Hello("connect", Client[x])>>
    BY <1>3, <2>2, OpeningHandshakes DEF Types
  <2>4. ASSUME NEW x \in Session, NEW h, h = Hello("connect", Client[x])
        PROVE  /\ h \notin Msgs /\ \A key : h \notin Pos(key) \cup Neg(key)
               /\ Len(<<h>>) = 1 /\ Len(<<>>) = 0
               /\ \A i \in 1..1 : <<h>>[i] = h
               /\ \A i \in 1..0 : FALSE
    BY <2>4 DEF Hello, Msgs, Pos, Neg
  <2>5. ASSUME NEW q \in Node, NEW x \in Session PROVE Routed(up, q, x, chan'[q][x])
    <3> DEFINE h == Hello("connect", Client[x])
    <3>1. /\ h \notin Msgs /\ Len(<<h>>) = 1 /\ \A i \in 1..1 : <<h>>[i] = h
      BY <2>4
    <3> HIDE DEF h
    <3>2. Routed(up, q, x, <<h>>)
      BY <3>1 DEF Routed
    <3>3. Routed(up, q, x, chan[q][x])
      BY <2>2 DEF Routes
    <3> QED BY <2>3, <3>2, <3>3 DEF h
  <2>6. Routes(up)'
    BY <2>5 DEF Routes, Routed
  <2>7. Reached(up)'
    <3> SUFFICES ASSUME NEW r \in Node, NEW key \in SoleKeys, key \in base[r].annos,
                        key[2] # r
                 PROVE  remote'[r][up[key[2]][r]] # NoNode
      BY <1>3 DEF Reached, announceVars
    <3>1. remote[r][up[key[2]][r]] # NoNode
      BY <2>2 DEF Reached
    <3>2. key[2] \in Node
      BY SoleKeyIs
    <3>3. up[key[2]][r] \in Session
      BY <3>2, TreeEnds
    <3> QED BY <2>3, <3>1, <3>3
  <2>8. ASSUME NEW key \in SoleKeys, NEW r \in Node, r # key[2]
        PROVE  Edge(key, r, up[key[2]][r])'
    <3> DEFINE x == up[key[2]][r]
               p == Peer(r, x)
    <3>1. x \in Session /\ p \in Node
      BY <2>8, SoleKeyIs, TreeEnds
    <3>2. Edge(key, r, x)
      BY <2>2, <2>8 DEF Edges
    <3> HIDE DEF x
    <3>3. remote'[p][x] = remote[p][x] /\ base' = base
      BY <1>3, <2>3, <3>1 DEF announceVars
    <3>4. CASE chan'[r][x] = chan[r][x]
      <4>1. Edge(key, r, x)'
        BY <3>2, <3>3, <3>4, EdgeStays
      <4> QED BY <4>1 DEF x
    <3>5. CASE chan[r][x] = <<>> /\ chan'[r][x] = <<Hello("connect", Client[x])>>
      <4> DEFINE h == Hello("connect", Client[x])
      <4>1. /\ h \notin Pos(key) \cup Neg(key)
            /\ Len(<<h>>) = 1 /\ Len(<<>>) = 0
            /\ \A i \in 1..1 : <<h>>[i] = h
            /\ \A i \in 1..0 : FALSE
        BY <2>4, <3>1
      <4>2. chan'[r][x] = <<h>> /\ chan[r][x] = <<>>
        BY <3>5
      <4> HIDE DEF h
      <4> DEFINE a == key \in base[r].annos
                 b == remote[p][x] # NoNode /\ key \in base[p].annos
      <4>3. a <=> b
        BY <3>2, <4>1, <4>2 DEF Edge, Leads
      <4> HIDE DEF a, b
      <4>4. Leads(<<h>>, Pos(key), Neg(key), a, b)
        BY <4>1, <4>3, LeadsOne
      <4>5. Edge(key, r, x)'
        BY <3>3, <4>2, <4>4 DEF Edge, a, b, Peer
      <4> QED BY <4>5 DEF x
    <3> QED BY <2>3, <2>8, <3>1, <3>4, <3>5
  <2> QED BY <2>3, <2>6, <2>7, <2>8 DEF Edges
<1>4. ASSUME NEW s \in Session, NEW r \in Node, Deliver(r, s)
      PROVE  Tree'
  <2>1. PICK m, res :
            /\ chan[r][s] # <<>> /\ m = Head(chan[r][s]) /\ Take(r, s, m, res.out)
            /\ base' = [base EXCEPT ![r] = res.base]
            /\ UNCHANGED <<local, ops>>
            /\ requests' \in [Node -> SUBSET Name]
            /\ Handles(r, s, base[r], m, res)
    BY <1>4, DeliverIs
  <2>2. Tree
    BY <2>1 DEF TreeInv, Take
  <2>3. \A q \in Node : base'[q] = IF q = r THEN res.base ELSE base[q]
    BY <2>1 DEF Types
  <2>4. Receives(r, s, m, res)
    BY <2>1, <2>3 DEF Receives
  <2>5. m \in Msgs \/ m \in Hellos
    BY <2>1 DEF Handles
  <2>6. CASE m \in Msgs
    BY <2>2, <2>4, <2>6, TellKeepsTree
  <2>7. CASE m \in Hellos
    BY <2>2, <2>4, <2>7, HelloKeepsTree
  <2> QED BY <2>5, <2>6, <2>7
<1>5. ASSUME NEW s \in Session, NEW r \in Node, Disconnected(r, s)
      PROVE  FALSE
  <2>1. drops' = drops /\ transport[s] = "down"
    BY <1>5 DEF Disconnected, ClientDisconnected, ServerDisconnected
  <2> QED BY <2>1 DEF TreeInv, Handshakes
<1>6. ASSUME NEW r \in Node, NEW n \in Name,
             Publish(r, n) \/ PublishDone(r, n) \/ PublisherGone(r, n)
      PROVE  Tree'
  <2>1. PICK res : Operates(r, res)
    BY <1>6, OperationIs
  <2>2. Tree
    BY <2>1 DEF TreeInv, Operates, Operation
  <2> QED BY <2>1, <2>2, OperationKeepsTree
<1>7. CASE Idle
  BY <1>1, <1>7 DEF Idle
<1> HIDE DEF Tree
<1> QED BY <1>1, <1>2, <1>3, <1>4, <1>5, <1>6, <1>7 DEF Next, Progress

\* The invariant of trees holds in every state.
LEMMA TreeHolds ==
  ASSUME NEW dist, NEW up, IsTree(dist, up)
  PROVE  Spec => []TreeInv(up)
<1>1. Init => TreeInv(up)
  BY InitTree
<1>2. TreeInv(up) /\ Types /\ Types' /\ [Next]_vars => TreeInv(up)'
  BY NextKeepsTree
<1> QED BY <1>1, <1>2, TypesHold, PTL DEF Spec

\* When the network is quiet, both ends of every edge know the same.
LEMMA QuietEdges ==
  ASSUME NEW dist, NEW up, IsTree(dist, up), TreeInv(up), Settled, drops = 0,
         NEW n \in Node, NEW t \in SoleTracks, NEW r \in Node, r # n
  PROVE  /\ Peer(r, up[n][r]) \in Node
         /\ dist[n][Peer(r, up[n][r])] < dist[n][r]
         /\ <<t, n>> \in base[r].annos <=> <<t, n>> \in base[Peer(r, up[n][r])].annos
<1> DEFINE s == up[n][r]
           p == Peer(r, s)
<1>1. /\ s \in Session /\ r \in Ends(s) /\ p \in Node
      /\ Prev[s] = NoSession /\ dist[n][p] < dist[n][r]
  BY TreeEnds
<1> DEFINE key == <<t, n>>
<1>2. key \in SoleKeys /\ key[2] = n
  BY DEF SoleKeys
<1> HIDE DEF key
<1>3. Edge(key, r, s) /\ Handshakes
  BY <1>2 DEF TreeInv, Edges
<1> HIDE DEF s
<1>4. transport[s] = "up"
  BY <1>1, <1>3 DEF Settled, Handshakes
<1>5. chan[r][s] = <<>> /\ chan[Client[s]][s] = <<>> /\ chan[Server[s]][s] = <<>>
  BY <1>1, EndsFacts DEF Settled
<1>6. Joined(s)
  <2>1. Phase(s)
    BY <1>1, <1>3 DEF Handshakes
  <2>2. <<Hello("connect", Client[s])>> # <<>>
    OBVIOUS
  <2> QED BY <1>4, <1>5, <2>1, <2>2 DEF Phase, Unopened, Asked, Answered
<1>7. remote[p][s] # NoNode
  BY <1>1, <1>6, EndsFacts DEF Joined, Ends, Peer
<1>8. key \in base[r].annos <=> key \in base[p].annos
  <2>1. Len(<<>>) = 0 /\ \A i \in 1..0 : FALSE
    OBVIOUS
  <2> HIDE DEF p
  <2> QED BY <1>3, <1>5, <1>7, <2>1 DEF Edge, Leads, p
<1> HIDE DEF p
<1> QED BY <1>1, <1>8 DEF s, p, key

\* So all relays know the same: a relay that does not, of those the one nearest
\* to the source, has a peer that is nearer.
LEMMA TreeAgreement ==
  ASSUME NEW dist, NEW up, IsTree(dist, up), TreeInv(up)
  PROVE  Agreement
<1> SUFFICES ASSUME Settled, drops = 0, NEW n \in Node, NEW t \in SoleTracks
             PROVE  \A r \in Node : <<t, n>> \in base[r].annos <=> <<t, n>> \in base[n].annos
  BY DEF Agreement
<1> DEFINE Q(r) == <<t, n>> \in base[r].annos <=> <<t, n>> \in base[n].annos
           T == {dist[n][r] : r \in {x \in Node : ~ Q(x)}}
<1> SUFFICES ASSUME NEW r0 \in Node, ~ Q(r0) PROVE FALSE
  OBVIOUS
<1>1. T \subseteq Nat /\ T # {}
  <2>1. \A r \in Node : dist[n][r] \in Nat
    BY DEF IsTree
  <2> HIDE DEF Q
  <2>2. dist[n][r0] \in T
    OBVIOUS
  <2> QED BY <2>1, <2>2
<1>2. PICK d \in T : \A k \in T : d <= k
  <2> HIDE DEF T
  <2> QED BY <1>1, LeastElement
<1>3. PICK r \in Node : ~ Q(r) /\ d = dist[n][r]
  <2> HIDE DEF Q
  <2> QED BY <1>2
<1>4. r # n
  BY <1>3
<1> DEFINE p == Peer(r, up[n][r])
<1>5. /\ p \in Node /\ dist[n][p] < dist[n][r]
      /\ <<t, n>> \in base[r].annos <=> <<t, n>> \in base[p].annos
  BY <1>4, QuietEdges
<1> HIDE DEF p
<1>6. ~ Q(p)
  BY <1>3, <1>5
<1>7. dist[n][p] \in T
  <2> HIDE DEF Q
  <2> QED BY <1>5, <1>6
<1>8. dist[n][p] \in Nat /\ dist[n][r] \in Nat
  BY <1>5 DEF IsTree
<1> HIDE DEF T
<1> QED BY <1>2, <1>3, <1>5, <1>7, <1>8

\* In every tree of relays, when all is quiet and no transport has failed, every
\* relay knows exactly the announcements of tracks with one source that their
\* sources hold, however ClientAnnounce, the flooding of AnnounceInfoReceived and
\* the syncs of new sessions were interleaved.
THEOREM AnnounceFloodAgreement ==
  ASSUME NEW dist, NEW up, IsTree(dist, up)
  PROVE  Spec => []Agreement
<1>1. TreeInv(up) => Agreement
  BY TreeAgreement
<1> QED BY <1>1, TreeHolds, PTL
=============================================================================
