---------------------------- MODULE PeeringProofs ----------------------------
(***************************************************************************)
(* Lemmas that the proofs about the relays share.                          *)
(*                                                                         *)
(* Of NodeTableOps: the three maps of InfoBase stay consistent for every   *)
(* number of nodes, sessions and informations.  The loop of SelectBestNode *)
(* is a recursive function on 0..MaxSession.  What it computes is shown by *)
(* taking a least counterexample, which exists in every nonempty set of    *)
(* naturals (LeastElement).                                                *)
(*                                                                         *)
(* Of PeerSessions, for whatever the relays tell each other over them: the *)
(* types of the session state, the handshake while no transport has        *)
(* failed, and what the messages of a channel come to when they are taken  *)
(* one after the other.                                                    *)
(***************************************************************************)
EXTENDS NodeTableOps, PeerSessions, FiniteSetTheorems, SequenceTheorems,
        WellFoundedInduction, TLAPS

\* Every nonempty set of naturals has a least element.
LEMMA LeastElement ==
  ASSUME NEW T, T \subseteq Nat, T # {}
  PROVE  \E m \in T : \A k \in T : m <= k
<1>1. PICK x \in T : \A y \in T : ~ (<<y, x>> \in OpToRel(<, Nat))
  BY WFMin, NatLessThanWellFounded, Zenon
<1>2. \A y \in T : ~ (y < x)
  BY <1>1 DEF OpToRel
<1> QED
  BY <1>2

-----------------------------------------------------------------------------
(***************************************************************************)
(* The node table                                                          *)
(***************************************************************************)

\* The equations of the loop of SelectBestNode over the sessions 1..k.
Runs(nodes, n, b0, k) ==
    {h \in [0..k -> {b0} \cup (1..k)] :
        /\ h[0] = b0
        /\ \A i \in 1..k : h[i] = IF SwitchesTo(nodes, n, h[i-1], i)
                                  THEN i ELSE h[i-1]}

\* The loop of SelectBestNode has a run over any number of sessions.
LEMMA RunExists ==
  ASSUME NEW nodes, NEW n, NEW b0, NEW k \in Nat
  PROVE  Runs(nodes, n, b0, k) # {}
<1> DEFINE R(j) == Runs(nodes, n, b0, j)
           T == {j \in Nat : R(j) = {}}
<1> SUFFICES ASSUME T # {} PROVE FALSE
  OBVIOUS
<1>1. PICK m \in T : \A j \in T : m <= j
  <2>1. T \subseteq Nat
    OBVIOUS
  <2> HIDE DEF T
  <2> QED BY <2>1, LeastElement
<1>2. m \in Nat /\ R(m) = {} /\ \A j \in Nat : j < m => R(j) # {}
  <2> HIDE DEF R
  <2> QED BY <1>1
<1>3. CASE m = 0
  <2> DEFINE g == [i \in 0..0 |-> b0]
  <2>1. g \in R(0)
    BY DEF Runs
  <2> QED BY <2>1, <1>2, <1>3
<1>4. CASE m # 0
  <2>1. m - 1 \in Nat /\ m - 1 < m
    BY <1>2, <1>4
  <2>2. PICK h : h \in R(m - 1)
    <3> HIDE DEF R
    <3> QED BY <1>2, <2>1
  <2> DEFINE g == [i \in 0..m |->
                     IF i # m THEN h[i]
                     ELSE IF SwitchesTo(nodes, n, h[m-1], m) THEN m ELSE h[m-1]]
  <2>3. /\ h \in [0..(m-1) -> {b0} \cup (1..(m-1))]
        /\ h[0] = b0
        /\ \A i \in 1..(m-1) : h[i] = IF SwitchesTo(nodes, n, h[i-1], i)
                                      THEN i ELSE h[i-1]
    BY <2>2 DEF Runs
  <2>4. g \in [0..m -> {b0} \cup (1..m)]
    BY <2>1, <2>3
  <2>5. g[0] = b0
    BY <2>1, <2>3
  <2>6. ASSUME NEW i \in 1..m
        PROVE  g[i] = IF SwitchesTo(nodes, n, g[i-1], i) THEN i ELSE g[i-1]
    <3>1. g[i-1] = h[i-1]
      BY <2>1
    <3>2. CASE i = m
      BY <3>1, <3>2, <2>1
    <3>3. CASE i # m
      <4>1. i \in 1..(m-1) /\ g[i] = h[i]
        BY <3>3, <2>1
      <4> QED BY <4>1, <3>1, <2>3
    <3> QED BY <3>2, <3>3
  <2>7. g \in R(m)
    <3> HIDE DEF g
    <3> QED BY <2>4, <2>5, <2>6 DEF Runs
  <2> QED BY <2>7, <1>2
<1> QED BY <1>3, <1>4

\* Scan satisfies the equations of the loop, and every session it holds is the
\* one it started from or a session it visited.
LEMMA ScanIsRun ==
  ASSUME NEW nodes, NEW n, NEW b0
  PROVE  Scan(nodes, n, b0) \in Runs(nodes, n, b0, MaxSession)
<1> USE MaxSessionAssumption
<1> DEFINE Eq(h) == h = [i \in 0..MaxSession |->
                           IF i = 0 THEN b0
                           ELSE IF SwitchesTo(nodes, n, h[i - 1], i) THEN i
                           ELSE h[i - 1]]
           s == Scan(nodes, n, b0)
<1>1. PICK f : f \in Runs(nodes, n, b0, MaxSession)
  BY RunExists
<1>2. /\ f \in [0..MaxSession -> {b0} \cup (1..MaxSession)]
      /\ f[0] = b0
      /\ \A i \in 1..MaxSession : f[i] = IF SwitchesTo(nodes, n, f[i-1], i)
                                         THEN i ELSE f[i-1]
  BY <1>1 DEF Runs
<1>3. Eq(f)
  BY <1>2
<1>4. Eq(s)
  BY <1>3 DEF Scan
<1>5. /\ DOMAIN s = 0..MaxSession
      /\ s[0] = b0
      /\ \A i \in 1..MaxSession : s[i] = IF SwitchesTo(nodes, n, s[i-1], i)
                                         THEN i ELSE s[i-1]
      /\ s = [i \in 0..MaxSession |-> s[i]]
  <2> DEFINE w == [i \in 0..MaxSession |->
                     IF i = 0 THEN b0
                     ELSE IF SwitchesTo(nodes, n, s[i - 1], i) THEN i
                     ELSE s[i - 1]]
  <2>1. s = w
    BY <1>4
  <2> HIDE DEF s
  <2>2. /\ DOMAIN w = 0..MaxSession
        /\ w[0] = b0
        /\ \A i \in 1..MaxSession : w[i] = IF SwitchesTo(nodes, n, s[i-1], i)
                                           THEN i ELSE s[i-1]
        /\ w = [i \in 0..MaxSession |-> w[i]]
    OBVIOUS
  <2> HIDE DEF w
  <2> QED BY <2>1, <2>2
<1>6. \A i \in 0..MaxSession : s[i] \in {b0} \cup (1..MaxSession)
  <2> HIDE DEF s, Eq
  <2> DEFINE T == {i \in 0..MaxSession : s[i] \notin {b0} \cup (1..MaxSession)}
  <2> SUFFICES ASSUME T # {} PROVE FALSE
    OBVIOUS
  <2>1. PICK m \in T : \A j \in T : m <= j
    <3>1. T \subseteq Nat
      OBVIOUS
    <3> HIDE DEF T
    <3> QED BY <3>1, LeastElement
  <2>2. m # 0 /\ m \in 1..MaxSession
    BY <1>5
  <2>3. m - 1 \in 0..MaxSession /\ m - 1 \notin T
    BY <2>1, <2>2
  <2>4. s[m-1] \in {b0} \cup (1..MaxSession)
    BY <2>3
  <2>5. s[m] \in {b0} \cup (1..MaxSession)
    BY <1>5, <2>2, <2>4
  <2> QED BY <2>5
<1> QED
  <2> HIDE DEF s, Eq
  <2>1. s \in [0..MaxSession -> {b0} \cup (1..MaxSession)]
    BY <1>5, <1>6
  <2> QED BY <1>5, <2>1 DEF Runs, s

\* The facts about Scan the invariants rest on: starting from no session or
\* from one with an entry, it ends on none or on one with an entry; it ends on
\* none only if no session reaches the node; and it ends where it started if
\* it never switched.
LEMMA ScanResult ==
  ASSUME NEW nodes, NEW n, NEW b0,
         b0 = NoSession \/ (b0 \in Session /\ <<n, b0>> \in DOMAIN nodes)
  PROVE  LET h == Scan(nodes, n, b0)
             r == h[MaxSession]
         IN  /\ r = NoSession \/ (r \in Session /\ <<n, r>> \in DOMAIN nodes)
             /\ r = NoSession => \A s \in Session : <<n, s>> \notin DOMAIN nodes
             /\ (\A i \in Session : ~ SwitchesTo(nodes, n, h[i-1], i)) => r = b0
             /\ (\E i \in Session : SwitchesTo(nodes, n, h[i-1], i)) => r # NoSession
<1> DEFINE h == Scan(nodes, n, b0)
           r == h[MaxSession]
           Entry(b) == b = NoSession \/ (b \in Session /\ <<n, b>> \in DOMAIN nodes)
<1> USE MaxSessionAssumption
<1>1. /\ h \in [0..MaxSession -> {b0} \cup (1..MaxSession)]
      /\ h[0] = b0
      /\ \A i \in 1..MaxSession : h[i] = IF SwitchesTo(nodes, n, h[i-1], i)
                                         THEN i ELSE h[i-1]
  BY ScanIsRun DEF Runs
<1> HIDE DEF h
<1>2. \A i \in 0..MaxSession : Entry(h[i])
  <2> DEFINE T == {i \in 0..MaxSession : ~ Entry(h[i])}
  <2> SUFFICES ASSUME T # {} PROVE FALSE
    OBVIOUS
  <2>1. PICK m \in T : \A j \in T : m <= j
    <3>1. T \subseteq Nat
      OBVIOUS
    <3> HIDE DEF T
    <3> QED BY <3>1, LeastElement
  <2>2. m # 0 /\ m \in 1..MaxSession
    BY <1>1
  <2>3. m - 1 \in 0..MaxSession /\ m - 1 \notin T
    BY <2>1, <2>2
  <2>4. Entry(h[m-1])
    BY <2>3
  <2>5. Entry(h[m])
    BY <1>1, <2>2, <2>4 DEF SwitchesTo, Session
  <2> QED BY <2>5
<1>3. ASSUME NEW k \in 0..MaxSession, h[k] # NoSession
      PROVE  r # NoSession
  <2> DEFINE T == {i \in k..MaxSession : h[i] = NoSession}
  <2> SUFFICES ASSUME T # {} PROVE FALSE
    BY <1>3
  <2>1. PICK m \in T : \A j \in T : m <= j
    <3>1. T \subseteq Nat
      OBVIOUS
    <3> HIDE DEF T
    <3> QED BY <3>1, LeastElement
  <2>2. m # k /\ m \in 1..MaxSession /\ m - 1 \in k..MaxSession
    BY <1>3
  <2>3. h[m-1] # NoSession
    BY <2>1, <2>2
  <2>4. h[m] # NoSession
    BY <1>1, <2>2, <2>3 DEF NoSession
  <2> QED BY <2>4
<1>4. ASSUME NEW i \in Session, SwitchesTo(nodes, n, h[i-1], i)
      PROVE  r # NoSession
  <2>1. i \in 0..MaxSession /\ h[i] = i /\ i # NoSession
    BY <1>1, <1>4 DEF Session, NoSession
  <2> QED BY <2>1, <1>3
<1>5. ASSUME NEW s \in Session, <<n, s>> \in DOMAIN nodes
      PROVE  r # NoSession
  <2>1. s \in 1..MaxSession /\ s - 1 \in 0..MaxSession
    BY DEF Session
  <2>2. CASE h[s-1] = NoSession
    BY <1>4, <1>5, <2>2 DEF SwitchesTo
  <2>3. CASE h[s-1] # NoSession
    BY <2>1, <2>3, <1>3
  <2> QED BY <2>2, <2>3
<1>6. ASSUME \A i \in Session : ~ SwitchesTo(nodes, n, h[i-1], i)
      PROVE  r = b0
  <2> DEFINE T == {i \in 0..MaxSession : h[i] # b0}
  <2> SUFFICES ASSUME T # {} PROVE FALSE
    OBVIOUS
  <2>1. PICK m \in T : \A j \in T : m <= j
    <3>1. T \subseteq Nat
      OBVIOUS
    <3> HIDE DEF T
    <3> QED BY <3>1, LeastElement
  <2>2. m # 0 /\ m \in 1..MaxSession /\ m - 1 \in 0..MaxSession
    BY <1>1
  <2>3. h[m-1] = b0
    BY <2>1, <2>2
  <2>4. h[m] = b0
    BY <1>1, <1>6, <2>2, <2>3 DEF Session
  <2> QED BY <2>4
<1>7. Entry(r)
  BY <1>2
<1> QED BY <1>4, <1>5, <1>6, <1>7 DEF h

-----------------------------------------------------------------------------
\* An entry for a neighbour, as a handshake makes it: no hop and no delay.
Direct(info) == Hops(info) = 0 /\ info.srtt = 0

\* The measures that SelectBestNode compares are natural numbers.
Measured(Infos) == \A info \in Infos : Hops(info) \in Nat /\ info.srtt \in Nat

\* A direct entry is never given up for one that is not: if some session
\* reaches n directly, the loop of SelectBestNode ends on one that does,
\* whatever session it starts from.
LEMMA ScanDirect ==
  ASSUME NEW nodes, NEW Infos, Measured(Infos), NEW n, NEW b0,
         nodes \in [DOMAIN nodes -> Infos],
         b0 = NoSession \/ (b0 \in Session /\ <<n, b0>> \in DOMAIN nodes),
         NEW s \in Session, <<n, s>> \in DOMAIN nodes, Direct(nodes[<<n, s>>])
  PROVE  LET r == Scan(nodes, n, b0)[MaxSession]
         IN  r \in Session /\ <<n, r>> \in DOMAIN nodes /\ Direct(nodes[<<n, r>>])
<1> DEFINE h == Scan(nodes, n, b0)
           Entry(b) == b = NoSession \/ (b \in Session /\ <<n, b>> \in DOMAIN nodes)
           Good(b) == b \in Session /\ <<n, b>> \in DOMAIN nodes /\ Direct(nodes[<<n, b>>])
<1> USE MaxSessionAssumption
<1>1. /\ h[0] = b0
      /\ \A i \in 1..MaxSession : h[i] = IF SwitchesTo(nodes, n, h[i-1], i)
                                         THEN i ELSE h[i-1]
  BY ScanIsRun DEF Runs
<1> HIDE DEF h
<1>2. \A i \in 0..MaxSession : Entry(h[i])
  <2> DEFINE T == {i \in 0..MaxSession : ~ Entry(h[i])}
  <2> SUFFICES ASSUME T # {} PROVE FALSE
    OBVIOUS
  <2>1. PICK m \in T : \A j \in T : m <= j
    <3>1. T \subseteq Nat
      OBVIOUS
    <3> HIDE DEF T
    <3> QED BY <3>1, LeastElement
  <2>2. m # 0 /\ m \in 1..MaxSession
    BY <1>1
  <2>3. m - 1 \in 0..MaxSession /\ m - 1 \notin T
    BY <2>1, <2>2
  <2>4. Entry(h[m-1])
    BY <2>3
  <2>5. Entry(h[m])
    BY <1>1, <2>2, <2>4 DEF SwitchesTo, Session
  <2> QED BY <2>5
<1>3. s \in 1..MaxSession /\ s \in 0..MaxSession /\ s - 1 \in 0..MaxSession /\ s # NoSession
  BY DEF Session, NoSession
<1>4. Good(h[s])
  <2>1. CASE SwitchesTo(nodes, n, h[s-1], s)
    BY <1>1, <1>3, <2>1
  <2>2. CASE ~ SwitchesTo(nodes, n, h[s-1], s)
    <3>1. h[s] = h[s-1] /\ h[s-1] # NoSession
      BY <1>1, <1>3, <2>2 DEF SwitchesTo
    <3>2. h[s-1] \in Session /\ <<n, h[s-1]>> \in DOMAIN nodes
      BY <1>2, <1>3, <3>1
    <3>3. nodes[<<n, h[s-1]>>] \in Infos
      BY <3>2
    <3>4. ~ Beats(nodes[<<n, s>>], nodes[<<n, h[s-1]>>])
      BY <2>2 DEF SwitchesTo
    <3>5. Direct(nodes[<<n, h[s-1]>>])
      BY <3>3, <3>4 DEF Beats, Direct, Measured
    <3> QED BY <3>1, <3>2, <3>5
  <2> QED BY <2>1, <2>2
<1>5. \A i \in s..MaxSession : Good(h[i])
  <2> DEFINE T == {i \in s..MaxSession : ~ Good(h[i])}
  <2> SUFFICES ASSUME T # {} PROVE FALSE
    OBVIOUS
  <2>1. PICK m \in T : \A j \in T : m <= j
    <3>1. T \subseteq Nat
      BY <1>3
    <3> HIDE DEF T
    <3> QED BY <3>1, LeastElement
  <2>2. m # s /\ m \in 1..MaxSession /\ m - 1 \in s..MaxSession
    BY <1>3, <1>4
  <2>3. m - 1 \notin T
    BY <2>1, <2>2
  <2>4. Good(h[m-1])
    BY <2>2, <2>3
  <2>5. CASE SwitchesTo(nodes, n, h[m-1], m)
    <3>1. h[m] = m /\ m \in Session /\ <<n, m>> \in DOMAIN nodes
      BY <1>1, <2>2, <2>5 DEF SwitchesTo, Session
    <3>2. Beats(nodes[<<n, m>>], nodes[<<n, h[m-1]>>])
      BY <2>4, <2>5 DEF SwitchesTo, Session, NoSession
    <3>3. nodes[<<n, m>>] \in Infos
      BY <3>1
    <3> QED BY <2>4, <3>2, <3>3 DEF Beats, Direct, Measured
  <2>6. CASE ~ SwitchesTo(nodes, n, h[m-1], m)
    <3>1. h[m] = h[m-1]
      BY <1>1, <2>2, <2>6
    <3> QED BY <2>4, <3>1
  <2> QED BY <2>5, <2>6
<1>6. Good(h[MaxSession])
  BY <1>3, <1>5
<1> QED BY <1>6 DEF h

\* Session c reaches n, beats every other session that does, and is beaten by
\* none.
Winner(nodes, n, c) ==
    /\ c \in Session /\ <<n, c>> \in DOMAIN nodes
    /\ \A x \in Session \ {c} : <<n, x>> \in DOMAIN nodes =>
          /\ Beats(nodes[<<n, c>>], nodes[<<n, x>>])
          /\ ~ Beats(nodes[<<n, x>>], nodes[<<n, c>>])

\* The loop of SelectBestNode takes a winner when it comes to it and never
\* leaves it, whatever session it starts from.
LEMMA ScanWinner ==
  ASSUME NEW nodes, NEW n, NEW b0,
         b0 = NoSession \/ (b0 \in Session /\ <<n, b0>> \in DOMAIN nodes),
         NEW c, Winner(nodes, n, c)
  PROVE  Scan(nodes, n, b0)[MaxSession] = c
<1> DEFINE h == Scan(nodes, n, b0)
           Entry(b) == b = NoSession \/ (b \in Session /\ <<n, b>> \in DOMAIN nodes)
<1> USE MaxSessionAssumption
<1>1. /\ h[0] = b0
      /\ \A i \in 1..MaxSession : h[i] = IF SwitchesTo(nodes, n, h[i-1], i)
                                         THEN i ELSE h[i-1]
  BY ScanIsRun DEF Runs
<1> HIDE DEF h
<1>2. \A i \in 0..MaxSession : Entry(h[i])
  <2> DEFINE T == {i \in 0..MaxSession : ~ Entry(h[i])}
  <2> SUFFICES ASSUME T # {} PROVE FALSE
    OBVIOUS
  <2>1. PICK m \in T : \A j \in T : m <= j
    <3>1. T \subseteq Nat
      OBVIOUS
    <3> HIDE DEF T
    <3> QED BY <3>1, LeastElement
  <2>2. m # 0 /\ m \in 1..MaxSession
    BY <1>1
  <2>3. m - 1 \in 0..MaxSession /\ m - 1 \notin T
    BY <2>1, <2>2
  <2>4. Entry(h[m-1])
    BY <2>3
  <2>5. Entry(h[m])
    BY <1>1, <2>2, <2>4 DEF SwitchesTo, Session
  <2> QED BY <2>5
<1>3. /\ c \in 1..MaxSession /\ c - 1 \in 0..MaxSession /\ c # NoSession
      /\ <<n, c>> \in DOMAIN nodes
  BY DEF Winner, Session, NoSession
<1>4. h[c] = c
  <2>1. CASE SwitchesTo(nodes, n, h[c-1], c)
    BY <1>1, <1>3, <2>1
  <2>2. CASE ~ SwitchesTo(nodes, n, h[c-1], c)
    <3>1. h[c] = h[c-1] /\ h[c-1] # NoSession
      BY <1>1, <1>3, <2>2 DEF SwitchesTo
    <3>2. h[c-1] \in Session /\ <<n, h[c-1]>> \in DOMAIN nodes
      BY <1>2, <1>3, <3>1
    <3>3. ~ Beats(nodes[<<n, c>>], nodes[<<n, h[c-1]>>])
      BY <1>3, <2>2 DEF SwitchesTo
    <3> QED BY <3>1, <3>2, <3>3 DEF Winner
  <2> QED BY <2>1, <2>2
<1>5. \A i \in c..MaxSession : h[i] = c
  <2> DEFINE T == {i \in c..MaxSession : h[i] # c}
  <2> SUFFICES ASSUME T # {} PROVE FALSE
    OBVIOUS
  <2>1. PICK m \in T : \A j \in T : m <= j
    <3>1. T \subseteq Nat
      BY <1>3
    <3> HIDE DEF T
    <3> QED BY <3>1, LeastElement
  <2>2. m # c /\ m \in 1..MaxSession /\ m - 1 \in c..MaxSession
    BY <1>3, <1>4
  <2>3. h[m-1] = c
    BY <2>1, <2>2
  <2>4. ~ SwitchesTo(nodes, n, c, m)
    BY <1>3, <2>2 DEF SwitchesTo, Winner, Session
  <2>5. h[m] = c
    BY <1>1, <2>2, <2>3, <2>4
  <2> QED BY <2>5
<1> QED BY <1>3, <1>5 DEF h

-----------------------------------------------------------------------------
\* The best session of n, if any, is one of the sessions that reach it.
BestOf(t, n) == n \in DOMAIN t.best => <<n, t.best[n]>> \in DOMAIN t.nodes

\* SelectBestNode touches the best session of n only, and gives n a best
\* session that reaches it whenever one does.
LEMMA SelectBestResult ==
  ASSUME NEW t, NEW Infos, TableType(t, Infos), NEW n \in Node, BestOf(t, n)
  PROVE  LET r == SelectBestNode(t, n).table
         IN  /\ TableType(r, Infos)
             /\ r.nodes = t.nodes /\ r.bySession = t.bySession
             /\ \A m \in Node \ {n} :
                   /\ m \in DOMAIN r.best <=> m \in DOMAIN t.best
                   /\ m \in DOMAIN t.best => r.best[m] = t.best[m]
             /\ BestOf(r, n)
             /\ \A s \in Session : <<n, s>> \in DOMAIN t.nodes => n \in DOMAIN r.best
<1> DEFINE b0 == GetBestPeerSession(t, n)
           h == Scan(t.nodes, n, b0)
           e == h[MaxSession]
           upd == \E i \in Session : SwitchesTo(t.nodes, n, h[i - 1], i)
           r == SelectBestNode(t, n).table
<1>1. b0 = NoSession \/ (b0 \in Session /\ <<n, b0>> \in DOMAIN t.nodes)
  BY DEF GetBestPeerSession, BestOf, TableType
<1>2. /\ e = NoSession \/ (e \in Session /\ <<n, e>> \in DOMAIN t.nodes)
      /\ e = NoSession => \A s \in Session : <<n, s>> \notin DOMAIN t.nodes
      /\ ~ upd => e = b0
      /\ upd => e # NoSession
  BY <1>1, ScanResult
<1>3. r = IF upd THEN [t EXCEPT !.best = Put(@, n, e)] ELSE t
  BY DEF SelectBestNode
<1>4. NoSession \notin Session
  BY DEF NoSession, Session
<1> HIDE DEF h, e, upd, r
<1>5. CASE upd
  <2>1. e \in Session /\ <<n, e>> \in DOMAIN t.nodes
    BY <1>2, <1>5
  <2>2. /\ r = [nodes |-> t.nodes, best |-> Put(t.best, n, e),
                bySession |-> t.bySession]
    BY <1>3, <1>5 DEF TableType
  <2>3. /\ r.nodes = t.nodes /\ r.bySession = t.bySession
        /\ r.best = Put(t.best, n, e)
    BY <2>2
  <2>4. /\ DOMAIN r.best = DOMAIN t.best \cup {n}
        /\ r.best[n] = e
        /\ \A m \in DOMAIN t.best \ {n} : r.best[m] = t.best[m]
        /\ r.best \in [DOMAIN r.best -> Session]
    BY <2>3, <2>1 DEF Put, TableType
  <2>5. TableType(r, Infos)
    BY <2>2, <2>3, <2>4 DEF TableType
  <2> QED
    BY <2>1, <2>3, <2>4, <2>5 DEF BestOf, r
<1>6. CASE ~ upd
  <2>1. r = t
    BY <1>3, <1>6
  <2>2. ASSUME NEW s \in Session, <<n, s>> \in DOMAIN t.nodes
        PROVE  n \in DOMAIN t.best
    BY <1>2, <1>6, <2>2, <1>4 DEF GetBestPeerSession
  <2> QED BY <2>1, <2>2 DEF r
<1> QED BY <1>5, <1>6

\* SelectBestNode picks a direct entry of n if there is one.
LEMMA SelectBestDirect ==
  ASSUME NEW t, NEW Infos, Measured(Infos), TableType(t, Infos),
         NEW n \in Node, BestOf(t, n),
         NEW s \in Session, <<n, s>> \in DOMAIN t.nodes, Direct(t.nodes[<<n, s>>])
  PROVE  LET r == SelectBestNode(t, n).table
         IN  n \in DOMAIN r.best /\ Direct(t.nodes[<<n, r.best[n]>>])
<1> DEFINE b0 == GetBestPeerSession(t, n)
           h == Scan(t.nodes, n, b0)
           e == h[MaxSession]
           upd == \E i \in Session : SwitchesTo(t.nodes, n, h[i - 1], i)
           r == SelectBestNode(t, n).table
<1>1. b0 = NoSession \/ (b0 \in Session /\ <<n, b0>> \in DOMAIN t.nodes)
  BY DEF GetBestPeerSession, BestOf, TableType
<1>2. ~ upd => e = b0
  BY <1>1, ScanResult
<1>3. e \in Session /\ Direct(t.nodes[<<n, e>>])
  <2>1. t.nodes \in [DOMAIN t.nodes -> Infos]
    BY DEF TableType
  <2> QED BY <1>1, <2>1, ScanDirect
<1>4. r = IF upd THEN [t EXCEPT !.best = Put(@, n, e)] ELSE t
  BY DEF SelectBestNode
<1>5. NoSession \notin Session
  BY DEF NoSession, Session
<1> HIDE DEF h, e, upd, r
<1>6. CASE upd
  <2>1. r = [nodes |-> t.nodes, best |-> Put(t.best, n, e), bySession |-> t.bySession]
    BY <1>4, <1>6 DEF TableType
  <2>2. r.best = Put(t.best, n, e)
    BY <2>1
  <2>3. n \in DOMAIN r.best /\ r.best[n] = e
    BY <2>2 DEF Put
  <2> QED BY <1>3, <2>3 DEF r
<1>7. CASE ~ upd
  <2>1. r = t /\ n \in DOMAIN t.best /\ t.best[n] = e
    BY <1>2, <1>3, <1>4, <1>5, <1>7 DEF GetBestPeerSession
  <2> QED BY <1>3, <2>1 DEF r
<1> QED BY <1>6, <1>7

\* SelectBestNode picks the winner if there is one.
LEMMA SelectBestWinner ==
  ASSUME NEW t, NEW Infos, TableType(t, Infos), NEW n \in Node, BestOf(t, n),
         NEW c, Winner(t.nodes, n, c)
  PROVE  LET r == SelectBestNode(t, n).table
         IN  n \in DOMAIN r.best /\ r.best[n] = c
<1> DEFINE b0 == GetBestPeerSession(t, n)
           h == Scan(t.nodes, n, b0)
           e == h[MaxSession]
           upd == \E i \in Session : SwitchesTo(t.nodes, n, h[i - 1], i)
           r == SelectBestNode(t, n).table
<1>1. b0 = NoSession \/ (b0 \in Session /\ <<n, b0>> \in DOMAIN t.nodes)
  BY DEF GetBestPeerSession, BestOf, TableType
<1>2. ~ upd => e = b0
  BY <1>1, ScanResult
<1>3. e = c /\ c \in Session
  BY <1>1, ScanWinner DEF Winner
<1>4. r = IF upd THEN [t EXCEPT !.best = Put(@, n, e)] ELSE t
  BY DEF SelectBestNode
<1>5. NoSession \notin Session
  BY DEF NoSession, Session
<1> HIDE DEF h, e, upd, r
<1>6. CASE upd
  <2>1. r = [nodes |-> t.nodes, best |-> Put(t.best, n, e), bySession |-> t.bySession]
    BY <1>4, <1>6 DEF TableType
  <2>2. r.best = Put(t.best, n, e)
    BY <2>1
  <2>3. n \in DOMAIN r.best /\ r.best[n] = e
    BY <2>2 DEF Put
  <2> QED BY <1>3, <2>3 DEF r
<1>7. CASE ~ upd
  <2>1. r = t /\ n \in DOMAIN t.best /\ t.best[n] = e
    BY <1>2, <1>3, <1>4, <1>5, <1>7 DEF GetBestPeerSession
  <2> QED BY <1>3, <2>1 DEF r
<1> QED BY <1>6, <1>7

-----------------------------------------------------------------------------
\* A well-formed table: its type, the session index and the best sessions.
WellFormed(t, Infos) == TableType(t, Infos) /\ IndexMatches(t) /\ BestMatches(t)

\* The best session of a neighbour is a direct one.
DirectBest(t) ==
    \A n \in Node, s \in Session :
        <<n, s>> \in DOMAIN t.nodes /\ Direct(t.nodes[<<n, s>>]) =>
            Direct(t.nodes[<<n, t.best[n]>>])

\* The best session of a node is its winner, if it has one.
WinnerBest(t) ==
    \A n \in Node : \A c : Winner(t.nodes, n, c) => t.best[n] = c

\* A winner depends on the entries of its node only.
LEMMA SameWinner ==
  ASSUME NEW nodes, NEW other, NEW n,
         \A x \in Session : /\ <<n, x>> \in DOMAIN nodes <=> <<n, x>> \in DOMAIN other
                            /\ <<n, x>> \in DOMAIN nodes =>
                                  nodes[<<n, x>>] = other[<<n, x>>]
  PROVE  \A c : Winner(nodes, n, c) => Winner(other, n, c)
BY DEF Winner

\* AddNode puts the entry, keeps the table of InfoBase well formed and the best
\* sessions of neighbours direct.
LEMMA AddNodeWellFormed ==
  ASSUME NEW t, NEW Infos, WellFormed(t, Infos), NEW s \in Session, NEW n \in Node,
         NEW info \in Infos
  PROVE  LET r == AddNode(t, s, n, info).table
         IN  /\ WellFormed(r, Infos)
             /\ r.nodes = Put(t.nodes, <<n, s>>, info)
             /\ Measured(Infos) /\ DirectBest(t) => DirectBest(r)
             /\ WinnerBest(t) => WinnerBest(r)
<1> DEFINE u == [nodes     |-> Put(t.nodes, <<n, s>>, info),
                 best      |-> t.best,
                 bySession |-> Put(t.bySession, s, IdsOf(t, s) \cup {n})]
           r == SelectBestNode(u, n).table
<1>1. AddNode(t, s, n, info).table = r
  BY DEF AddNode
<1>2. u.nodes = Put(t.nodes, <<n, s>>, info) /\ u.best = t.best
      /\ u.bySession = Put(t.bySession, s, IdsOf(t, s) \cup {n})
  OBVIOUS
<1>3. /\ DOMAIN u.nodes = DOMAIN t.nodes \cup {<<n, s>>}
      /\ u.nodes \in [DOMAIN u.nodes -> Infos]
  BY <1>2 DEF Put, WellFormed, TableType
<1>4. /\ DOMAIN u.bySession = DOMAIN t.bySession \cup {s}
      /\ u.bySession \in [DOMAIN u.bySession -> SUBSET Node]
      /\ u.bySession[s] = IdsOf(t, s) \cup {n}
      /\ \A x \in DOMAIN t.bySession \ {s} : u.bySession[x] = t.bySession[x]
  BY <1>2 DEF Put, WellFormed, TableType, IdsOf
<1>5. TableType(u, Infos)
  <2>1. u = [nodes |-> u.nodes, best |-> u.best, bySession |-> u.bySession]
    BY <1>2
  <2>2. /\ t.best \in [DOMAIN t.best -> Session] /\ DOMAIN t.best \subseteq Node
        /\ DOMAIN t.nodes \subseteq Node \X Session
        /\ DOMAIN t.bySession \subseteq Session
    BY DEF TableType, WellFormed
  <2>3. DOMAIN u.nodes \subseteq Node \X Session
    BY <1>3, <2>2
  <2>4. DOMAIN u.bySession \subseteq Session
    BY <1>4, <2>2
  <2>5. u.best \in [DOMAIN u.best -> Session] /\ DOMAIN u.best \subseteq Node
    BY <1>2, <2>2
  <2> HIDE DEF u
  <2> QED BY <1>3, <1>4, <2>1, <2>3, <2>4, <2>5 DEF TableType
<1>6. BestOf(u, n)
  BY <1>2, <1>3 DEF BestOf, WellFormed, BestMatches
<1> HIDE DEF u, r
<1>7. /\ TableType(r, Infos)
      /\ r.nodes = u.nodes /\ r.bySession = u.bySession
      /\ \A m \in Node \ {n} :
            /\ m \in DOMAIN r.best <=> m \in DOMAIN u.best
            /\ m \in DOMAIN u.best => r.best[m] = u.best[m]
      /\ BestOf(r, n)
      /\ \A x \in Session : <<n, x>> \in DOMAIN u.nodes => n \in DOMAIN r.best
  BY <1>5, <1>6, SelectBestResult DEF r
<1>8. IndexMatches(r)
  BY <1>3, <1>4, <1>7 DEF IndexMatches, WellFormed, IdsOf
<1>9. BestMatches(r)
  <2>1. ASSUME NEW m \in DOMAIN r.best
        PROVE  <<m, r.best[m]>> \in DOMAIN r.nodes
    <3>1. CASE m = n
      BY <3>1, <1>7, <2>1 DEF BestOf
    <3>2. CASE m # n
      BY <3>2, <1>2, <1>3, <1>7, <2>1 DEF BestMatches, WellFormed, TableType
    <3> QED BY <3>1, <3>2
  <2>2. ASSUME NEW m \in Node, NEW x \in Session, <<m, x>> \in DOMAIN r.nodes
        PROVE  m \in DOMAIN r.best
    BY <1>2, <1>3, <1>7, <2>2 DEF BestMatches, WellFormed
  <2> QED BY <2>1, <2>2 DEF BestMatches
<1>10. ASSUME Measured(Infos), DirectBest(t)
       PROVE  DirectBest(r)
  <2> SUFFICES ASSUME NEW m \in Node, NEW x \in Session,
                      <<m, x>> \in DOMAIN r.nodes, Direct(r.nodes[<<m, x>>])
               PROVE  Direct(r.nodes[<<m, r.best[m]>>])
    BY DEF DirectBest
  <2>1. CASE m = n
    BY <1>5, <1>6, <1>7, <1>10, <2>1, SelectBestDirect DEF r
  <2>2. CASE m # n
    <3>1. <<m, x>> \in DOMAIN t.nodes /\ t.nodes[<<m, x>>] = r.nodes[<<m, x>>]
      BY <1>2, <1>3, <1>7, <2>2 DEF Put
    <3>2. m \in DOMAIN t.best /\ r.best[m] = t.best[m]
      BY <1>2, <1>7, <2>2, <3>1 DEF WellFormed, BestMatches
    <3>3. <<m, t.best[m]>> \in DOMAIN t.nodes
      BY <3>2 DEF WellFormed, BestMatches
    <3>4. r.nodes[<<m, t.best[m]>>] = t.nodes[<<m, t.best[m]>>]
      BY <1>2, <1>7, <2>2, <3>3 DEF Put
    <3>5. Direct(t.nodes[<<m, t.best[m]>>])
      BY <1>10, <3>1 DEF DirectBest
    <3> QED BY <3>2, <3>4, <3>5
  <2> QED BY <2>1, <2>2
<1>11. ASSUME WinnerBest(t) PROVE WinnerBest(r)
  <2> SUFFICES ASSUME NEW m \in Node, NEW c, Winner(r.nodes, m, c)
               PROVE  r.best[m] = c
    BY DEF WinnerBest
  <2>1. CASE m = n
    BY <1>5, <1>6, <1>7, <2>1, SelectBestWinner DEF r
  <2>2. CASE m # n
    <3>1. ASSUME NEW x \in Session
          PROVE  /\ <<m, x>> \in DOMAIN r.nodes <=> <<m, x>> \in DOMAIN t.nodes
                 /\ <<m, x>> \in DOMAIN r.nodes =>
                       r.nodes[<<m, x>>] = t.nodes[<<m, x>>]
      BY <1>2, <1>3, <1>7, <2>2 DEF Put
    <3>2. Winner(t.nodes, m, c)
      BY <3>1, SameWinner
    <3>3. t.best[m] = c /\ m \in DOMAIN t.best
      BY <1>11, <3>2 DEF WinnerBest, Winner, WellFormed, BestMatches
    <3> QED BY <1>2, <1>7, <2>2, <3>3
  <2> QED BY <2>1, <2>2
<1> QED BY <1>1, <1>2, <1>7, <1>8, <1>9, <1>10, <1>11 DEF WellFormed

\* RemoveNode erases the entry, keeps the table of InfoBase well formed and the
\* best sessions of neighbours direct.
LEMMA RemoveNodeWellFormed ==
  ASSUME NEW t, NEW Infos, WellFormed(t, Infos), NEW s \in Session, NEW n \in Node
  PROVE  LET r == RemoveNode(t, s, n)
         IN  /\ WellFormed(r, Infos)
             /\ r.nodes = Erase(t.nodes, {<<n, s>>})
             /\ Measured(Infos) /\ DirectBest(t) => DirectBest(r)
             /\ WinnerBest(t) => WinnerBest(r)
<1> DEFINE ids == IdsOf(t, s) \ {n}
           u == [nodes     |-> Erase(t.nodes, {<<n, s>>}),
                 best      |-> Erase(t.best, {n}),
                 bySession |-> IF ids = {} THEN Erase(t.bySession, {s})
                               ELSE Put(t.bySession, s, ids)]
           r == RemoveNode(t, s, n)
<1>1. /\ u.nodes = Erase(t.nodes, {<<n, s>>})
      /\ u.best = Erase(t.best, {n})
      /\ u.bySession = IF ids = {} THEN Erase(t.bySession, {s})
                       ELSE Put(t.bySession, s, ids)
  OBVIOUS
<1>2. /\ DOMAIN u.nodes = DOMAIN t.nodes \ {<<n, s>>}
      /\ u.nodes \in [DOMAIN u.nodes -> Infos]
  BY <1>1 DEF Erase, Restrict, WellFormed, TableType
<1>3. /\ DOMAIN u.best = DOMAIN t.best \ {n}
      /\ u.best \in [DOMAIN u.best -> Session]
      /\ \A m \in DOMAIN u.best : u.best[m] = t.best[m]
  BY <1>1 DEF Erase, Restrict, WellFormed, TableType
<1>4. /\ u.bySession \in [DOMAIN u.bySession -> SUBSET Node]
      /\ DOMAIN u.bySession = IF ids = {} THEN DOMAIN t.bySession \ {s}
                              ELSE DOMAIN t.bySession \cup {s}
      /\ ids # {} => u.bySession[s] = ids
      /\ \A x \in DOMAIN t.bySession \ {s} : u.bySession[x] = t.bySession[x]
  BY <1>1 DEF Erase, Restrict, Put, WellFormed, TableType, IdsOf
<1>5. TableType(u, Infos)
  BY <1>1, <1>2, <1>3, <1>4 DEF TableType, WellFormed
<1>6. BestOf(u, n)
  BY <1>3 DEF BestOf
<1>7. r = IF n \in DOMAIN t.best THEN SelectBestNode(u, n).table ELSE u
  BY DEF RemoveNode
<1> HIDE DEF u, r, ids
<1>8. /\ TableType(r, Infos)
      /\ r.nodes = u.nodes /\ r.bySession = u.bySession
      /\ \A m \in Node \ {n} :
            /\ m \in DOMAIN r.best <=> m \in DOMAIN u.best
            /\ m \in DOMAIN u.best => r.best[m] = u.best[m]
      /\ BestOf(r, n)
      /\ \A x \in Session : <<n, x>> \in DOMAIN u.nodes => n \in DOMAIN r.best
  <2>1. CASE n \in DOMAIN t.best
    BY <1>5, <1>6, <1>7, <2>1, SelectBestResult
  <2>2. CASE n \notin DOMAIN t.best
    BY <1>2, <1>5, <1>6, <1>7, <2>2 DEF WellFormed, BestMatches
  <2> QED BY <2>1, <2>2
<1>9. IndexMatches(r)
  <2>1. ASSUME NEW m \in Node, NEW x \in Session
        PROVE  <<m, x>> \in DOMAIN r.nodes <=> m \in IdsOf(r, x)
    <3>1. CASE x = s
      BY <3>1, <1>2, <1>4, <1>8 DEF IndexMatches, WellFormed, IdsOf, ids
    <3>2. CASE x # s
      BY <3>2, <1>2, <1>4, <1>8 DEF IndexMatches, WellFormed, IdsOf
    <3> QED BY <3>1, <3>2
  <2>2. ASSUME NEW x \in DOMAIN r.bySession
        PROVE  r.bySession[x] # {}
    BY <1>4, <1>8, <2>2 DEF IndexMatches, WellFormed
  <2> QED BY <2>1, <2>2 DEF IndexMatches
<1>10. BestMatches(r)
  <2>1. ASSUME NEW m \in DOMAIN r.best
        PROVE  <<m, r.best[m]>> \in DOMAIN r.nodes
    <3>1. CASE m = n
      BY <3>1, <1>8, <2>1 DEF BestOf
    <3>2. CASE m # n
      BY <3>2, <1>2, <1>3, <1>8, <2>1 DEF BestMatches, WellFormed, TableType
    <3> QED BY <3>1, <3>2
  <2>2. ASSUME NEW m \in Node, NEW x \in Session, <<m, x>> \in DOMAIN r.nodes
        PROVE  m \in DOMAIN r.best
    BY <1>2, <1>3, <1>8, <2>2 DEF BestMatches, WellFormed
  <2> QED BY <2>1, <2>2 DEF BestMatches
<1>11. ASSUME Measured(Infos), DirectBest(t)
       PROVE  DirectBest(r)
  <2> SUFFICES ASSUME NEW m \in Node, NEW x \in Session,
                      <<m, x>> \in DOMAIN r.nodes, Direct(r.nodes[<<m, x>>])
               PROVE  Direct(r.nodes[<<m, r.best[m]>>])
    BY DEF DirectBest
  <2>0. <<m, x>> \in DOMAIN t.nodes /\ t.nodes[<<m, x>>] = r.nodes[<<m, x>>]
    BY <1>1, <1>2, <1>8 DEF Erase, Restrict
  <2>1. CASE m = n
    <3>1. n \in DOMAIN t.best
      BY <2>0, <2>1 DEF WellFormed, BestMatches
    <3>2. r = SelectBestNode(u, n).table
      BY <1>7, <3>1
    <3> QED BY <1>5, <1>6, <1>8, <1>11, <2>1, <3>2, SelectBestDirect
  <2>2. CASE m # n
    <3>1. m \in DOMAIN t.best /\ r.best[m] = t.best[m]
      BY <1>3, <1>8, <2>0, <2>2 DEF WellFormed, BestMatches
    <3>2. <<m, t.best[m]>> \in DOMAIN t.nodes
      BY <3>1 DEF WellFormed, BestMatches
    <3>3. r.nodes[<<m, t.best[m]>>] = t.nodes[<<m, t.best[m]>>]
      BY <1>1, <1>8, <2>2, <3>2 DEF Erase, Restrict
    <3>4. Direct(t.nodes[<<m, t.best[m]>>])
      BY <1>11, <2>0 DEF DirectBest
    <3> QED BY <3>1, <3>3, <3>4
  <2> QED BY <2>1, <2>2
<1>12. ASSUME WinnerBest(t) PROVE WinnerBest(r)
  <2> SUFFICES ASSUME NEW m \in Node, NEW c, Winner(r.nodes, m, c)
               PROVE  r.best[m] = c
    BY DEF WinnerBest
  <2>0. /\ c \in Session /\ <<m, c>> \in DOMAIN t.nodes /\ m \in DOMAIN t.best
    BY <1>2, <1>8 DEF Winner, WellFormed, BestMatches
  <2>1. CASE m = n
    <3>1. r = SelectBestNode(u, n).table
      BY <1>7, <2>0, <2>1
    <3>2. Winner(u.nodes, n, c)
      BY <1>8, <2>1
    <3>3. SelectBestNode(u, n).table.best[n] = c
      BY <1>5, <1>6, <3>2, SelectBestWinner
    <3> QED BY <2>1, <3>1, <3>3
  <2>2. CASE m # n
    <3>1. ASSUME NEW x \in Session
          PROVE  /\ <<m, x>> \in DOMAIN r.nodes <=> <<m, x>> \in DOMAIN t.nodes
                 /\ <<m, x>> \in DOMAIN r.nodes =>
                       r.nodes[<<m, x>>] = t.nodes[<<m, x>>]
      BY <1>1, <1>2, <1>8, <2>2 DEF Erase, Restrict
    <3>2. Winner(t.nodes, m, c)
      BY <3>1, SameWinner
    <3>3. t.best[m] = c
      BY <1>12, <3>2 DEF WinnerBest
    <3> QED BY <1>3, <1>8, <2>0, <2>2, <3>3
  <2> QED BY <2>1, <2>2
<1> QED BY <1>1, <1>8, <1>9, <1>10, <1>11, <1>12 DEF WellFormed, r

\* PurgePeerSessionInfo keeps the table of InfoBase well formed, leaves no
\* trace of the session and every entry of the others, and keeps the best
\* sessions of neighbours direct.
LEMMA PurgeWellFormed ==
  ASSUME NEW t, NEW Infos, WellFormed(t, Infos), NEW s \in Session
  PROVE  LET r == PurgePeerSessionInfo(t, s)
         IN  /\ WellFormed(r, Infos)
             /\ \A k \in DOMAIN r.nodes : k[2] # s
             /\ \A n \in DOMAIN r.best : r.best[n] # s
             /\ s \notin DOMAIN r.bySession
             /\ \A k \in DOMAIN r.nodes :
                   k \in DOMAIN t.nodes /\ r.nodes[k] = t.nodes[k]
             /\ \A n \in Node, x \in Session \ {s} :
                   <<n, x>> \in DOMAIN t.nodes => <<n, x>> \in DOMAIN r.nodes
             /\ Measured(Infos) /\ DirectBest(t) => DirectBest(r)
             /\ WinnerBest(t) => WinnerBest(r)
<1> DEFINE ids == IdsOf(t, s)
           nodes == Erase(t.nodes, ids \X {s})
           redo == ids \cap DOMAIN t.best
           Again(n) == Scan(nodes, n, NoSession)[MaxSession]
           lost == {n \in redo : Again(n) = NoSession}
           r == PurgePeerSessionInfo(t, s)
<1>1. /\ r.nodes = nodes
      /\ r.best = [n \in DOMAIN t.best \ lost |->
                     IF n \in redo THEN Again(n) ELSE t.best[n]]
      /\ r.bySession = Erase(t.bySession, {s})
      /\ r = [nodes |-> r.nodes, best |-> r.best, bySession |-> r.bySession]
  BY DEF PurgePeerSessionInfo
<1>2. /\ DOMAIN nodes = DOMAIN t.nodes \ (ids \X {s})
      /\ nodes \in [DOMAIN nodes -> Infos]
      /\ \A k \in DOMAIN nodes : nodes[k] = t.nodes[k]
  BY DEF Erase, Restrict, WellFormed, TableType
<1>3. /\ DOMAIN r.bySession = DOMAIN t.bySession \ {s}
      /\ r.bySession \in [DOMAIN r.bySession -> SUBSET Node]
      /\ \A x \in DOMAIN r.bySession : r.bySession[x] = t.bySession[x]
  BY <1>1 DEF Erase, Restrict, WellFormed, TableType
<1>4. \A n \in redo :
         /\ Again(n) = NoSession \/ (Again(n) \in Session /\ <<n, Again(n)>> \in DOMAIN nodes)
         /\ Again(n) = NoSession => \A x \in Session : <<n, x>> \notin DOMAIN nodes
  BY ScanResult
<1>0. ASSUME Measured(Infos), NEW n, NEW x \in Session, <<n, x>> \in DOMAIN nodes,
             Direct(nodes[<<n, x>>])
      PROVE  Direct(nodes[<<n, Again(n)>>])
  <2> HIDE DEF nodes
  <2> QED BY <1>0, <1>2, ScanDirect
<1>16. ASSUME NEW n, NEW c, Winner(nodes, n, c)
       PROVE  Again(n) = c
  <2> HIDE DEF nodes
  <2> QED BY <1>16, ScanWinner
<1> HIDE DEF nodes, Again, r
<1>5. /\ DOMAIN t.nodes \subseteq Node \X Session
      /\ t.best \in [DOMAIN t.best -> Session] /\ DOMAIN t.best \subseteq Node
      /\ DOMAIN t.bySession \subseteq Session
      /\ ids \subseteq Node
      /\ \A n \in Node, x \in Session : <<n, x>> \in DOMAIN t.nodes <=> n \in IdsOf(t, x)
      /\ \A n \in DOMAIN t.best : <<n, t.best[n]>> \in DOMAIN t.nodes
      /\ \A n \in Node, x \in Session : <<n, x>> \in DOMAIN t.nodes => n \in DOMAIN t.best
  BY DEF WellFormed, TableType, IndexMatches, BestMatches, IdsOf
<1>6. ASSUME NEW k \in DOMAIN nodes
      PROVE  k \in DOMAIN t.nodes /\ k[2] # s
  <2>1. k \in Node \X Session /\ k \in DOMAIN t.nodes /\ k \notin ids \X {s}
    BY <1>2, <1>5
  <2>2. k = <<k[1], k[2]>> /\ k[1] \in Node /\ k[2] \in Session
    BY <2>1
  <2> QED BY <1>5, <2>1, <2>2
<1>7. /\ DOMAIN r.best = DOMAIN t.best \ lost
      /\ \A n \in DOMAIN r.best :
            /\ r.best[n] \in Session
            /\ <<n, r.best[n]>> \in DOMAIN nodes
  <2>1. DOMAIN r.best = DOMAIN t.best \ lost
    BY <1>1
  <2>2. ASSUME NEW n \in DOMAIN r.best
        PROVE  r.best[n] \in Session /\ <<n, r.best[n]>> \in DOMAIN nodes
    <3>1. n \in DOMAIN t.best /\ n \notin lost
      BY <2>1
    <3>2. CASE n \in redo
      BY <1>1, <1>4, <3>1, <3>2
    <3>3. CASE n \notin redo
      <4>1. r.best[n] = t.best[n] /\ n \notin ids
        BY <1>1, <2>1, <3>1, <3>3
      <4> QED BY <1>2, <1>5, <3>1, <4>1
    <3> QED BY <3>2, <3>3
  <2> QED BY <2>1, <2>2
<1>8. r.best \in [DOMAIN r.best -> Session]
  <2>1. r.best = [n \in DOMAIN r.best |-> r.best[n]]
    BY <1>1
  <2> QED BY <2>1, <1>7
<1>9. TableType(r, Infos)
  BY <1>1, <1>2, <1>3, <1>5, <1>7, <1>8 DEF TableType
<1>10. IndexMatches(r)
  <2>1. ASSUME NEW n \in Node, NEW x \in Session
        PROVE  <<n, x>> \in DOMAIN r.nodes <=> n \in IdsOf(r, x)
    <3>1. CASE x = s
      BY <3>1, <1>1, <1>3, <1>6 DEF IdsOf
    <3>2. CASE x # s
      <4>1. IdsOf(r, x) = IdsOf(t, x)
        BY <3>2, <1>3 DEF IdsOf
      <4>2. <<n, x>> \in DOMAIN nodes <=> <<n, x>> \in DOMAIN t.nodes
        BY <3>2, <1>2
      <4> QED BY <1>1, <1>5, <4>1, <4>2
    <3> QED BY <3>1, <3>2
  <2>2. \A x \in DOMAIN r.bySession : r.bySession[x] # {}
    BY <1>3 DEF IndexMatches, WellFormed
  <2> QED BY <2>1, <2>2 DEF IndexMatches
<1>11. BestMatches(r)
  <2>1. ASSUME NEW n \in Node, NEW x \in Session, <<n, x>> \in DOMAIN nodes
        PROVE  n \in DOMAIN r.best
    BY <1>4, <1>5, <1>6, <1>7, <2>1
  <2> QED BY <1>1, <1>7, <2>1 DEF BestMatches
<1>12. \A n \in DOMAIN r.best : r.best[n] # s
  BY <1>6, <1>7
<1>13. ASSUME NEW n \in Node, NEW x \in Session \ {s}, <<n, x>> \in DOMAIN t.nodes
       PROVE  <<n, x>> \in DOMAIN nodes
  BY <1>2, <1>13
<1>14. ASSUME Measured(Infos), DirectBest(t)
       PROVE  DirectBest(r)
  <2> SUFFICES ASSUME NEW n \in Node, NEW x \in Session,
                      <<n, x>> \in DOMAIN nodes, Direct(nodes[<<n, x>>])
               PROVE  Direct(nodes[<<n, r.best[n]>>])
    BY <1>1 DEF DirectBest
  <2>1. n \in DOMAIN r.best
    BY <1>1, <1>11 DEF BestMatches
  <2>2. CASE n \in redo
    <3>1. r.best[n] = Again(n)
      BY <1>1, <1>7, <2>1, <2>2
    <3> QED BY <1>0, <1>14, <3>1
  <2>3. CASE n \notin redo
    <3>1. r.best[n] = t.best[n]
      BY <1>1, <1>7, <2>1, <2>3
    <3>2. <<n, x>> \in DOMAIN t.nodes /\ Direct(t.nodes[<<n, x>>])
      BY <1>2, <1>6
    <3>3. Direct(t.nodes[<<n, t.best[n]>>])
      BY <1>14, <3>2 DEF DirectBest
    <3>4. nodes[<<n, r.best[n]>>] = t.nodes[<<n, t.best[n]>>]
      BY <1>2, <1>7, <2>1, <3>1
    <3> QED BY <3>3, <3>4
  <2> QED BY <2>2, <2>3
<1>15. ASSUME WinnerBest(t)
       PROVE  WinnerBest(r)
  <2> SUFFICES ASSUME NEW n \in Node, NEW c, Winner(nodes, n, c)
               PROVE  r.best[n] = c
    BY <1>1 DEF WinnerBest
  <2>1. n \in DOMAIN r.best
    BY <1>1, <1>11 DEF BestMatches, Winner
  <2>2. CASE n \in redo
    <3>1. r.best[n] = Again(n)
      BY <1>1, <1>7, <2>1, <2>2
    <3> QED BY <1>16, <3>1
  <2>3. CASE n \notin redo
    <3>1. r.best[n] = t.best[n] /\ n \notin ids
      BY <1>1, <1>7, <2>1, <2>3
    <3>2. ASSUME NEW x \in Session
          PROVE  /\ <<n, x>> \in DOMAIN nodes <=> <<n, x>> \in DOMAIN t.nodes
                 /\ <<n, x>> \in DOMAIN nodes => nodes[<<n, x>>] = t.nodes[<<n, x>>]
      BY <1>2, <3>1
    <3>3. Winner(t.nodes, n, c)
      BY <3>2, SameWinner
    <3> QED BY <1>15, <3>1, <3>3 DEF WinnerBest
  <2> QED BY <2>2, <2>3
<1> QED BY <1>1, <1>2, <1>3, <1>6, <1>9, <1>10, <1>11, <1>12, <1>13, <1>14, <1>15 DEF WellFormed, r

-----------------------------------------------------------------------------
(***************************************************************************)
(* The sessions                                                            *)
(***************************************************************************)
Hellos == [kind : {"connect", "connectResponse"}, id : Node]

\* The messages M of a module are none of the handshake.
NoHellos(M) == \A m \in M : ~ IsHello(m)

\* What a callback may send.
Outputs(M) == [Session -> Seq(M)]

\* The types of the session state.
SessionTypes(M) ==
    /\ status \in [Node -> [Session ->
                     {"none", "connecting", "connected", "disconnected"}]]
    /\ remote \in [Node -> [Session -> Node \cup {NoNode}]]
    /\ transport \in [Session -> {"idle", "open", "accepted", "up", "down"}]
    /\ chan \in [Node -> [Session -> Seq(M \cup Hellos)]]
    /\ drops \in 0..MaxDrops

-----------------------------------------------------------------------------
(***************************************************************************)
(* Least elements and ranks                                                *)
(***************************************************************************)

\* The elements of K that the relation puts before k.
Below(K, rel, k) == {j \in K : <<j, k>> \in rel}

\* rel orders K.
Orders(rel, K) ==
    /\ \A a \in K : <<a, a>> \notin rel
    /\ \A a, b \in K : a # b => <<a, b>> \in rel \/ <<b, a>> \in rel
    /\ \A a, b, c \in K : <<a, b>> \in rel /\ <<b, c>> \in rel => <<a, c>> \in rel

\* A finite ordered set is walked by rank: every place has one element and
\* every element one place.
LEMMA Ranks ==
  ASSUME NEW K, IsFiniteSet(K), NEW rel, Orders(rel, K)
  PROVE  /\ Cardinality(K) \in Nat
         /\ \A i \in 1..Cardinality(K) :
               \E k \in K : Cardinality(Below(K, rel, k)) = i - 1
         /\ \A k \in K : Cardinality(Below(K, rel, k)) + 1 \in 1..Cardinality(K)
         /\ \A a, b \in K : Cardinality(Below(K, rel, a)) = Cardinality(Below(K, rel, b))
                              => a = b
<1> DEFINE B(k) == Below(K, rel, k)
           c == Cardinality(K)
           T == 0..(c - 1)
           f == [k \in K |-> Cardinality(B(k))]
<1>1. c \in Nat
  BY FS_CardinalityType
<1>2. ASSUME NEW k \in K
      PROVE  /\ IsFiniteSet(B(k)) /\ Cardinality(B(k)) \in Nat
             /\ Cardinality(B(k)) \in T
  <2>1. IsFiniteSet(B(k)) /\ Cardinality(B(k)) <= c
        /\ (c = Cardinality(B(k)) => K = B(k))
    <3>1. B(k) \in SUBSET K
      BY DEF Below
    <3> HIDE DEF B
    <3> QED BY <3>1, FS_Subset
  <2>2. k \notin B(k)
    BY DEF Below, Orders
  <2>3. Cardinality(B(k)) \in Nat
    BY <2>1, FS_CardinalityType
  <2> HIDE DEF B
  <2> QED BY <1>1, <2>1, <2>2, <2>3
<1>3. ASSUME NEW a \in K, NEW b \in K, <<a, b>> \in rel
      PROVE  Cardinality(B(a)) # Cardinality(B(b))
  <2>1. B(a) \in SUBSET B(b)
    BY <1>3 DEF Below, Orders
  <2>2. a \in B(b) /\ a \notin B(a)
    BY <1>3 DEF Below, Orders
  <2>3. IsFiniteSet(B(b))
    BY <1>2
  <2> HIDE DEF B
  <2> QED BY <2>1, <2>2, <2>3, FS_Subset
<1>4. \A a, b \in K : Cardinality(B(a)) = Cardinality(B(b)) => a = b
  BY <1>3 DEF Orders
<1>5. ASSUME NEW i \in 1..c
      PROVE  \E k \in K : Cardinality(B(k)) = i - 1
  <2>1. f \in Injection(K, T)
    <3>1. f \in [K -> T]
      BY <1>2
    <3>2. \A a, b \in K : f[a] = f[b] => a = b
      BY <1>4
    <3> HIDE DEF f, T
    <3> QED BY <3>1, <3>2 DEF Injection, IsInjective
  <2>2. IsFiniteSet(T) /\ Cardinality(T) = c
    <3>1. 0 \in Int /\ c - 1 \in Int /\ ~ (0 > c - 1) /\ (c - 1) - 0 + 1 = c
      BY <1>1
    <3> HIDE DEF c
    <3> QED BY <3>1, FS_Interval
  <2>3. f \in Surjection(K, T)
    <3> HIDE DEF f, T
    <3> QED BY <2>1, <2>2, FS_Injection
  <2>4. i - 1 \in T
    BY <1>1
  <2>5. PICK k \in K : f[k] = i - 1
    <3> HIDE DEF f, T
    <3> QED BY <2>3, <2>4 DEF Surjection
  <2> QED BY <2>5
<1>6. \A k \in K : Cardinality(B(k)) + 1 \in 1..c
  BY <1>1, <1>2
<1> QED
  <2> HIDE DEF B, c
  <2>1. /\ c \in Nat
        /\ \A i \in 1..c : \E k \in K : Cardinality(B(k)) = i - 1
        /\ \A k \in K : Cardinality(B(k)) + 1 \in 1..c
        /\ \A a, b \in K : Cardinality(B(a)) = Cardinality(B(b)) => a = b
    BY <1>1, <1>4, <1>5, <1>6
  <2> QED BY <2>1 DEF B, c

\* A sequence of the elements of a set has them all.
LEMMA SetToSeqIs ==
  ASSUME NEW S, IsFiniteSet(S)
  PROVE  /\ Cardinality(S) \in Nat
         /\ SetToSeq(S) \in [1..Cardinality(S) -> S]
         /\ \A x \in S : \E i \in 1..Cardinality(S) : SetToSeq(S)[i] = x
<1> DEFINE c == Cardinality(S)
           f == SetToSeq(S)
           R == {f[i] : i \in 1..c}
<1>1. c \in Nat /\ IsFiniteSet(1..c) /\ Cardinality(1..c) = c
  <2>1. c \in Nat
    BY FS_CardinalityType
  <2> HIDE DEF c
  <2> QED BY <2>1, FS_Interval
<1>2. \E g \in [1..c -> S] : IsInjective(g)
  <2>1. ExistsBijection(1..c, S)
    BY <1>1, FS_SameCardinalityBij
  <2>2. PICK g : g \in Bijection(1..c, S)
    BY <2>1 DEF ExistsBijection
  <2>3. g \in [1..c -> S] /\ \A a, b \in 1..c : g[a] = g[b] => a = b
    BY <2>2 DEF Bijection, Injection, Surjection, IsInjective
  <2> QED BY <2>3 DEF IsInjective
<1>3. f \in [1..c -> S] /\ IsInjective(f)
  BY <1>2 DEF SetToSeq
<1> HIDE DEF f, c
<1>4. f \in Bijection(1..c, R)
  BY <1>3 DEF Bijection, Injection, Surjection, IsInjective
<1>5. Cardinality(R) = c
  <2>1. ExistsBijection(1..c, R)
    BY <1>4 DEF ExistsBijection
  <2> HIDE DEF R
  <2> QED BY <1>1, <2>1, FS_CountingElements
<1>6. R = S
  <2>1. R \in SUBSET S
    BY <1>3
  <2> HIDE DEF R
  <2> QED BY <1>5, <2>1, FS_Subset DEF c
<1> QED BY <1>1, <1>3, <1>6 DEF f, c

-----------------------------------------------------------------------------
(***************************************************************************)
(* What a channel tells.  pos and neg are the messages that advertise and  *)
(* that withdraw a certain thing.  Somebody who takes all the messages of  *)
(* ch, and knows the thing if a holds, knows it in the end if b holds.     *)
(***************************************************************************)
Leads(ch, pos, neg, a, b) ==
    /\ (\A i \in 1..Len(ch) : ch[i] \notin pos \cup neg) => (a <=> b)
    /\ \A i \in 1..Len(ch) :
          /\ ch[i] \in pos \cup neg
          /\ \A j \in (i + 1)..Len(ch) : ch[j] \notin pos \cup neg
          => (ch[i] \in pos <=> b)

\* A channel in which the thing is not mentioned leaves things as they are.
LEMMA LeadsNowhere ==
  ASSUME NEW ch, NEW pos, NEW neg, NEW a, NEW b,
         \A i \in 1..Len(ch) : ch[i] \notin pos \cup neg
  PROVE  Leads(ch, pos, neg, a, b) <=> (a <=> b)
  BY DEF Leads

\* One message.
LEMMA LeadsOne ==
  ASSUME NEW m, NEW pos, NEW neg, NEW a, NEW b,
         IF m \in pos \cup neg THEN b <=> m \in pos ELSE a <=> b
  PROVE  Leads(<<m>>, pos, neg, a, b)
<1>1. Len(<<m>>) = 1 /\ <<m>>[1] = m
  OBVIOUS
<1>2. \A i \in 1..1 : i = 1
  OBVIOUS
<1>3. \A i \in 1..1 : <<m>>[i] = m
  OBVIOUS
<1> QED BY <1>1, <1>3 DEF Leads

\* One channel after the other.
LEMMA LeadsConcat ==
  ASSUME NEW S, NEW ch \in Seq(S), NEW out \in Seq(S), NEW pos, NEW neg,
         NEW a, NEW b, NEW c,
         Leads(ch, pos, neg, a, b), Leads(out, pos, neg, b, c)
  PROVE  Leads(ch \o out, pos, neg, a, c)
<1> DEFINE all == ch \o out
           l == Len(ch)
           k == Len(out)
           About(m) == m \in pos \cup neg
<1>1. /\ l \in Nat /\ k \in Nat /\ Len(all) = l + k
      /\ \A i \in 1..l : all[i] = ch[i]
      /\ \A i \in 1..k : all[l + i] = out[i]
  OBVIOUS
<1>2. ASSUME \A i \in 1..Len(all) : ~ About(all[i])
      PROVE  a <=> c
  <2>1. \A i \in 1..l : ~ About(ch[i])
    BY <1>1, <1>2
  <2>2. \A i \in 1..k : ~ About(out[i])
    <3> TAKE i \in 1..k
    <3>1. l + i \in 1..Len(all)
      BY <1>1
    <3> HIDE DEF all, l, k, About
    <3> QED BY <1>1, <1>2, <3>1
  <2> QED BY <2>1, <2>2 DEF Leads
<1>3. ASSUME NEW i \in 1..Len(all), About(all[i]),
             \A j \in (i + 1)..Len(all) : ~ About(all[j])
      PROVE  all[i] \in pos <=> c
  <2> HIDE DEF all, About, l, k
  <2>1. CASE i > l
    <3>1. i - l \in 1..k /\ all[i] = out[i - l]
      <4>1. i - l \in 1..k /\ i = l + (i - l)
        BY <1>1, <2>1
      <4> QED BY <1>1, <4>1
    <3>2. \A j \in ((i - l) + 1)..k : ~ About(out[j])
      <4> TAKE j \in ((i - l) + 1)..k
      <4>1. l + j \in (i + 1)..Len(all) /\ j \in 1..k
        BY <1>1, <3>1
      <4> QED BY <1>1, <1>3, <4>1
    <3> QED BY <1>3, <3>1, <3>2 DEF Leads, About, k
  <2>2. CASE i <= l
    <3>1. i \in 1..l /\ all[i] = ch[i]
      BY <1>1, <2>2
    <3>2. \A j \in (i + 1)..l : ~ About(ch[j])
      <4> TAKE j \in (i + 1)..l
      <4>1. j \in 1..l /\ j \in (i + 1)..Len(all)
        BY <1>1, <3>1
      <4> QED BY <1>1, <1>3, <4>1
    <3>3. ch[i] \in pos <=> b
      BY <1>3, <3>1, <3>2 DEF Leads, About, l
    <3>4. \A j \in 1..k : ~ About(out[j])
      <4> TAKE j \in 1..k
      <4>1. l + j \in (i + 1)..Len(all)
        BY <1>1, <3>1
      <4> QED BY <1>1, <1>3, <4>1
    <3>5. b <=> c
      BY <3>4 DEF Leads, About, k
    <3> QED BY <3>1, <3>3, <3>5
  <2> QED BY <1>1, <2>1, <2>2
<1> QED
  <2>1. /\ (\A i \in 1..Len(all) : all[i] \notin pos \cup neg) => (a <=> c)
        /\ \A i \in 1..Len(all) :
              /\ all[i] \in pos \cup neg
              /\ \A j \in (i + 1)..Len(all) : all[j] \notin pos \cup neg
              => (all[i] \in pos <=> c)
    BY <1>2, <1>3
  <2> HIDE DEF all
  <2>2. Leads(all, pos, neg, a, c)
    BY <2>1 DEF Leads
  <2> QED BY <2>2 DEF all

\* The first message of a channel is taken: whoever took it knows the thing if
\* it advertised it, does not if it withdrew it, and knows what it knew
\* otherwise.
LEMMA LeadsTail ==
  ASSUME NEW S, NEW ch \in Seq(S), ch # <<>>, NEW pos, NEW neg, NEW a, NEW b, NEW c,
         Leads(ch, pos, neg, a, b),
         IF Head(ch) \in pos \cup neg THEN c <=> Head(ch) \in pos ELSE c <=> a
  PROVE  Leads(Tail(ch), pos, neg, c, b)
<1> DEFINE rest == Tail(ch)
           l == Len(rest)
           About(m) == m \in pos \cup neg
<1>1. /\ l \in Nat /\ Len(ch) = l + 1 /\ Head(ch) = ch[1]
      /\ \A i \in 1..l : rest[i] = ch[i + 1]
  OBVIOUS
<1> HIDE DEF rest, l
<1>2. ASSUME \A i \in 1..l : ~ About(rest[i])
      PROVE  c <=> b
  <2>1. \A j \in 2..Len(ch) : ~ About(ch[j])
    <3> TAKE j \in 2..Len(ch)
    <3>1. j - 1 \in 1..l /\ j = (j - 1) + 1
      BY <1>1
    <3> QED BY <1>1, <1>2, <3>1
  <2>2. CASE About(ch[1])
    <3>1. 1 \in 1..Len(ch) /\ \A j \in (1 + 1)..Len(ch) : ~ About(ch[j])
      BY <1>1, <2>1
    <3> QED BY <1>1, <2>2, <3>1 DEF Leads
  <2>3. CASE ~ About(ch[1])
    <3>1. \A i \in 1..Len(ch) : ~ About(ch[i])
      <4> TAKE i \in 1..Len(ch)
      <4>1. i = 1 \/ i \in 2..Len(ch)
        BY <1>1
      <4> QED BY <2>1, <2>3, <4>1
    <3> QED BY <1>1, <2>3, <3>1 DEF Leads
  <2> QED BY <2>2, <2>3
<1>3. ASSUME NEW i \in 1..l, About(rest[i]),
             \A j \in (i + 1)..l : ~ About(rest[j])
      PROVE  rest[i] \in pos <=> b
  <2>1. i + 1 \in 1..Len(ch) /\ rest[i] = ch[i + 1]
    BY <1>1
  <2>2. \A j \in ((i + 1) + 1)..Len(ch) : ~ About(ch[j])
    <3> TAKE j \in ((i + 1) + 1)..Len(ch)
    <3>1. j - 1 \in (i + 1)..l /\ j - 1 \in 1..l /\ j = (j - 1) + 1
      BY <1>1
    <3> QED BY <1>1, <1>3, <3>1
  <2> QED BY <1>3, <2>1, <2>2 DEF Leads
<1> QED
  <2>1. Leads(rest, pos, neg, c, b)
    BY <1>2, <1>3 DEF Leads, l
  <2> QED BY <2>1 DEF rest

-----------------------------------------------------------------------------
(***************************************************************************)
(* Types                                                                   *)
(***************************************************************************)

Ends(s) == {Client[s], Server[s]}

\* The ends of a session.
LEMMA EndsFacts ==
  ASSUME NEW r \in Node, NEW s \in Session
  PROVE  /\ Client[s] \in Node /\ Server[s] \in Node /\ Client[s] # Server[s]
         /\ Peer(r, s) \in Node /\ Peer(r, s) # r /\ Peer(r, s) \in Ends(s)
         /\ r \in Ends(s) => Peer(Peer(r, s), s) = r
         /\ NoNode \notin Node
  BY TopologyAssumption DEF Peer, Ends, NoNode

\* Sent, session by session.
LEMMA SentIs ==
  ASSUME NEW ch, NEW r, NEW st, NEW rem, NEW out, NEW q \in Node, NEW s \in Session
  PROVE  Sent(ch, r, st, rem, out)[q][s] =
            IF /\ r \in Ends(s) /\ q = Peer(r, s)
               /\ st[s] = "connected" /\ transport[s] = "up"
               /\ r = Client[s] \/ rem[s] # NoNode
            THEN ch[q][s] \o out[s] ELSE ch[q][s]
  BY DEF Sent, Ends

\* What is sent has the types of what was there and what is added.
LEMMA SentType ==
  ASSUME NEW S, NEW ch, ch \in [Node -> [Session -> Seq(S)]], NEW r, NEW st, NEW rem,
         NEW out \in [Session -> Seq(S)]
  PROVE  Sent(ch, r, st, rem, out) \in [Node -> [Session -> Seq(S)]]
<1> DEFINE F == Sent(ch, r, st, rem, out)
<1>1. \A q \in Node, s \in Session : F[q][s] \in Seq(S)
  <2> TAKE q \in Node, s \in Session
  <2>1. ch[q][s] \in Seq(S) /\ out[s] \in Seq(S)
    OBVIOUS
  <2>2. ch[q][s] \o out[s] \in Seq(S)
    BY <2>1
  <2>3. F[q][s] = ch[q][s] \/ F[q][s] = ch[q][s] \o out[s]
    BY DEF Sent
  <2> HIDE DEF F
  <2> QED BY <2>1, <2>2, <2>3
<1>2. /\ DOMAIN F = Node /\ F = [q \in Node |-> F[q]]
      /\ \A q \in Node : F[q] = [s \in Session |-> F[q][s]]
  BY DEF Sent
<1> HIDE DEF F
<1> QED
  <2>1. \A q \in Node : F[q] \in [Session -> Seq(S)]
    <3> TAKE q \in Node
    <3>1. F[q] = [s \in Session |-> F[q][s]] /\ \A s \in Session : F[q][s] \in Seq(S)
      BY <1>1, <1>2
    <3> QED BY <3>1
  <2>2. F \in [Node -> [Session -> Seq(S)]]
    BY <1>2, <2>1
  <2> QED BY <2>2 DEF F

\* Outputs of the module's own messages are sequences of messages.
LEMMA OutputWider ==
  ASSUME NEW M, NEW out \in Outputs(M)
  PROVE  out \in [Session -> Seq(M \cup Hellos)]
<1>1. \A s \in Session : out[s] \in Seq(M \cup Hellos)
  <2> TAKE s \in Session
  <2>1. out[s] \in Seq(M)
    BY DEF Outputs
  <2> QED BY <2>1
<1> QED BY <1>1 DEF Outputs

\* Nothing sent is an output.
LEMMA NoOutputType == \A M : NoOutput \in Outputs(M)
  BY DEF NoOutput, Outputs

\* No session has been opened.
LEMMA InitTypes ==
  ASSUME NEW M, SessionsInit
  PROVE  SessionTypes(M)
<1>1. <<>> \in Seq(M \cup Hellos)
  OBVIOUS
<1>2. drops \in 0..MaxDrops
  BY TopologyAssumption DEF SessionsInit
<1> QED BY <1>1, <1>2 DEF SessionsInit, SessionTypes

\* The steps that open a session keep the types.
LEMMA OpeningTypes ==
  ASSUME NEW M, SessionTypes(M), NEW s \in Session,
         Connect(s) \/ OnNewConnection(s) \/ OnReady(s)
  PROVE  SessionTypes(M)'
<1>1. Client[s] \in Node /\ Server[s] \in Node
  BY TopologyAssumption
<1>2. CASE Connect(s)
  <2>1. status' \in [Node -> [Session ->
                     {"none", "connecting", "connected", "disconnected"}]]
    BY <1>1, <1>2 DEF Connect, SessionTypes
  <2>2. remote' \in [Node -> [Session -> Node \cup {NoNode}]]
    BY <1>1, <1>2 DEF Connect, SessionTypes
  <2>3. transport' \in [Session -> {"idle", "open", "accepted", "up", "down"}]
    BY <1>2 DEF Connect, SessionTypes
  <2> QED BY <1>2, <2>1, <2>2, <2>3 DEF Connect, SessionTypes
<1>3. CASE OnNewConnection(s)
  BY <1>1, <1>3 DEF OnNewConnection, SessionTypes
<1>4. CASE OnReady(s)
  <2> DEFINE hello == Hello("connect", Client[s])
  <2>1. hello \in M \cup Hellos
    BY <1>1 DEF Hello, Hellos
  <2> HIDE DEF hello
  <2>2. chan' = [chan EXCEPT ![Server[s]][s] = Append(@, hello)]
    BY <1>4 DEF OnReady, hello
  <2>3. Append(chan[Server[s]][s], hello) \in Seq(M \cup Hellos)
    BY <1>1, <2>1 DEF SessionTypes
  <2>4. chan' \in [Node -> [Session -> Seq(M \cup Hellos)]]
    BY <1>1, <2>2, <2>3 DEF SessionTypes
  <2> QED BY <1>4, <2>4 DEF OnReady, SessionTypes
<1> QED BY <1>2, <1>3, <1>4

\* The loss of a transport keeps the types.
LEMMA BreakTypes ==
  ASSUME NEW M, SessionTypes(M), NEW s \in Session, Break(s)
  PROVE  SessionTypes(M)' /\ drops' # 0
<1>1. chan' \in [Node -> [Session -> Seq(M \cup Hellos)]]
  <2>1. <<>> \in Seq(M \cup Hellos)
    OBVIOUS
  <2> QED BY <2>1 DEF Break, SessionTypes
<1>2. drops' \in 0..MaxDrops /\ drops' # 0
  BY TopologyAssumption DEF Break, SessionTypes
<1> QED BY <1>1, <1>2 DEF Break, SessionTypes

\* The ends that learn of it keep them too.
LEMMA DisconnectTypes ==
  ASSUME NEW M, SessionTypes(M), NEW s \in Session, NEW out \in Outputs(M),
         ClientDisconnected(s, out) \/ ServerDisconnected(s, out)
  PROVE  SessionTypes(M)'
<1>1. Client[s] \in Node /\ Server[s] \in Node
  BY TopologyAssumption
<1>2. out \in [Session -> Seq(M \cup Hellos)]
  BY OutputWider
<1>3. CASE ClientDisconnected(s, out)
  <2>1. chan' \in [Node -> [Session -> Seq(M \cup Hellos)]]
    BY <1>2, <1>3, SentType DEF ClientDisconnected, SessionTypes
  <2> QED BY <1>1, <1>3, <2>1 DEF ClientDisconnected, SessionTypes
<1>4. CASE ServerDisconnected(s, out)
  <2>1. chan' \in [Node -> [Session -> Seq(M \cup Hellos)]]
    BY <1>2, <1>4, SentType DEF ServerDisconnected, SessionTypes
  <2> QED BY <1>1, <1>4, <2>1 DEF ServerDisconnected, SessionTypes
<1> QED BY <1>3, <1>4

\* A relay takes a message: m is one of the module's or of the handshake.
LEMMA TakeTypes ==
  ASSUME NEW M, NoHellos(M), SessionTypes(M), NEW r \in Node, NEW s \in Session,
         chan[r][s] # <<>>, NEW m, NEW out \in Outputs(M), Take(r, s, m, out)
  PROVE  SessionTypes(M)' /\ m \in M \cup Hellos /\ (IsHello(m) <=> m \in Hellos)
<1> DEFINE S == M \cup Hellos
           answer == IF m.kind = "connect" THEN <<Hello("connectResponse", r)>> ELSE <<>>
           rest == [chan EXCEPT ![r][s] = Tail(@)]
           full == [out EXCEPT ![s] = answer \o @]
<1>1. chan[r][s] \in Seq(S) /\ chan \in [Node -> [Session -> Seq(S)]]
  BY DEF SessionTypes
<1>2. m \in S /\ Tail(chan[r][s]) \in Seq(S)
  BY <1>1 DEF Take
<1>3. IsHello(m) <=> m \in Hellos
  BY <1>2 DEF NoHellos, IsHello, Hellos
<1>4. rest \in [Node -> [Session -> Seq(S)]]
  BY <1>1, <1>2
<1>5. full \in [Session -> Seq(S)]
  <2>1. out \in [Session -> Seq(S)]
    BY OutputWider
  <2>2. Hello("connectResponse", r) \in S
    BY DEF Hello, Hellos
  <2>3. answer \in Seq(S)
    <3> DEFINE h == Hello("connectResponse", r)
    <3> HIDE DEF S, h
    <3>1. <<h>> \in Seq(S) /\ <<>> \in Seq(S)
      BY <2>2 DEF h
    <3> QED BY <3>1 DEF h
  <2>4. answer \o out[s] \in Seq(S)
    BY <2>1, <2>3
  <2> HIDE DEF answer
  <2> QED BY <2>1, <2>4
<1>6. chan' = Sent(rest, r, StatusAfter(r, s, m), RemoteAfter(r, s, m), full)
  BY DEF Take
<1>7. chan' \in [Node -> [Session -> Seq(S)]]
  <2> HIDE DEF rest, full, S
  <2> QED BY <1>4, <1>5, <1>6, SentType
<1>8. status' \in [Node -> [Session ->
                     {"none", "connecting", "connected", "disconnected"}]]
  BY DEF Take, StatusAfter, SessionTypes
<1>9. remote' \in [Node -> [Session -> Node \cup {NoNode}]]
  <2>1. IsHello(m) => m.id \in Node
    BY <1>3 DEF Hellos
  <2> QED BY <2>1 DEF Take, RemoteAfter, SessionTypes
<1> QED BY <1>2, <1>3, <1>7, <1>8, <1>9 DEF Take, SessionTypes

\* A relay sends something of its own accord.
LEMMA SendTypes ==
  ASSUME NEW M, SessionTypes(M), NEW r \in Node, NEW out \in Outputs(M),
         chan' = Sent(chan, r, status[r], remote[r], out),
         UNCHANGED <<status, remote, transport, drops>>
  PROVE  SessionTypes(M)'
<1>1. out \in [Session -> Seq(M \cup Hellos)]
  BY OutputWider
<1>2. chan' \in [Node -> [Session -> Seq(M \cup Hellos)]]
  BY <1>1, SentType DEF SessionTypes
<1> QED BY <1>2 DEF SessionTypes

-----------------------------------------------------------------------------
(***************************************************************************)
(* The handshake while no transport has failed.  A session is not open     *)
(* yet; or its Connect is on the way; or the server has answered, and sent *)
(* what it knows behind the answer; or both ends know each other.          *)
(***************************************************************************)
NoHelloIn(ch) == \A i \in 1..Len(ch) : ~ IsHello(ch[i])

Unopened(s) ==
    /\ transport[s] \in {"idle", "open", "accepted"}
    /\ remote[Client[s]][s] = NoNode /\ remote[Server[s]][s] = NoNode
    /\ chan[Client[s]][s] = <<>> /\ chan[Server[s]][s] = <<>>
    /\ status[Client[s]][s] # "connected"

Asked(s) ==
    /\ transport[s] = "up"
    /\ remote[Client[s]][s] = NoNode /\ remote[Server[s]][s] = NoNode
    /\ chan[Client[s]][s] = <<>>
    /\ chan[Server[s]][s] = <<Hello("connect", Client[s])>>
    /\ status[Client[s]][s] # "connected"

Answered(s) ==
    /\ transport[s] = "up"
    /\ remote[Client[s]][s] = NoNode /\ remote[Server[s]][s] = Client[s]
    /\ chan[Server[s]][s] = <<>>
    /\ chan[Client[s]][s] # <<>>
    /\ Head(chan[Client[s]][s]) = Hello("connectResponse", Server[s])
    /\ NoHelloIn(Tail(chan[Client[s]][s]))
    /\ status[Client[s]][s] # "connected" /\ status[Server[s]][s] = "connected"

Joined(s) ==
    /\ transport[s] = "up"
    /\ remote[Client[s]][s] = Server[s] /\ remote[Server[s]][s] = Client[s]
    /\ NoHelloIn(chan[Client[s]][s]) /\ NoHelloIn(chan[Server[s]][s])
    /\ status[Client[s]][s] = "connected" /\ status[Server[s]][s] = "connected"

Phase(s) == Unopened(s) \/ Asked(s) \/ Answered(s) \/ Joined(s)

Handshakes ==
    /\ \A s \in Session : Phase(s)
    /\ \A r \in Node, s \in Session :
          /\ status[r][s] # "disconnected"
          /\ r \notin Ends(s) => chan[r][s] = <<>>
    /\ \A s \in Session : /\ transport[s] # "down"
                          /\ Prev[s] # NoSession => transport[s] = "idle"

\* No session has been opened.
LEMMA InitHandshakes ==
  ASSUME SessionsInit
  PROVE  Handshakes
<1>1. \A s \in Session : Client[s] \in Node /\ Server[s] \in Node
  BY TopologyAssumption
<1> QED BY <1>1 DEF SessionsInit, Handshakes, Phase, Unopened

\* A session of which nothing changes stays in its phase.
LEMMA PhaseStays ==
  ASSUME NEW s \in Session, Phase(s), transport'[s] = transport[s],
         \A r \in Ends(s) : /\ status'[r][s] = status[r][s]
                             /\ remote'[r][s] = remote[r][s]
                             /\ chan'[r][s] = chan[r][s]
  PROVE  Phase(s)'
  BY DEF Phase, Unopened, Asked, Answered, Joined, Ends

\* Opening sessions keeps the handshakes.
LEMMA OpeningHandshakes ==
  ASSUME NEW M, SessionTypes(M), Handshakes, NEW s \in Session,
         Connect(s) \/ OnNewConnection(s) \/ OnReady(s)
  PROVE  Handshakes' /\ \A q \in Node, x \in Session :
             /\ remote'[q][x] = remote[q][x]
             /\ \/ chan'[q][x] = chan[q][x]
                \/ /\ chan[q][x] = <<>>
                   /\ chan'[q][x] = <<Hello("connect", Client[x])>>
<1>1. \A x \in Session : /\ Client[x] \in Node /\ Server[x] \in Node
                        /\ Client[x] # Server[x] /\ x # NoSession
  BY TopologyAssumption DEF Session, NoSession
<1>2. Phase(s)
  BY DEF Handshakes
<1>3. CASE Connect(s)
  <2>1. Prev[s] = NoSession
    <3>1. Prev[s] \in Session \cup {NoSession}
      BY TopologyAssumption
    <3> QED BY <1>1, <1>3, <3>1 DEF Connect, Handshakes
  <2>2. /\ transport[s] = "idle" /\ transport' = [transport EXCEPT ![s] = "open"]
        /\ chan' = chan
    BY <1>3 DEF Connect
  <2>3. \A q \in Node, x \in Session : remote'[q][x] = remote[q][x]
    BY <1>1, <1>3, <2>1 DEF Connect, SessionTypes
  <2>4. \A q \in Node, x \in Session :
           status'[q][x] = IF q = Client[s] /\ x = s THEN "connecting" ELSE status[q][x]
    BY <1>1, <1>3, <2>1 DEF Connect, SessionTypes
  <2>5. \A x \in Session : transport'[x] = IF x = s THEN "open" ELSE transport[x]
    BY <2>2 DEF SessionTypes
  <2>6. Unopened(s)'
    BY <1>1, <1>2, <2>2, <2>3, <2>4, <2>5
       DEF Phase, Unopened, Asked, Answered, Joined
  <2>7. ASSUME NEW x \in Session, x # s PROVE Phase(x)'
    <3>1. Phase(x)
      BY DEF Handshakes
    <3> QED BY <1>1, <2>2, <2>3, <2>4, <2>5, <2>7, <3>1, PhaseStays DEF Ends
  <2> QED BY <1>1, <2>1, <2>2, <2>3, <2>4, <2>5, <2>6, <2>7 DEF Handshakes, Phase
<1>4. CASE OnNewConnection(s)
  <2>1. /\ transport[s] = "open" /\ transport' = [transport EXCEPT ![s] = "accepted"]
        /\ chan' = chan /\ remote' = remote
    BY <1>4 DEF OnNewConnection
  <2>2. \A q \in Node, x \in Session :
           status'[q][x] = IF q = Server[s] /\ x = s THEN "connected" ELSE status[q][x]
    BY <1>1, <1>4 DEF OnNewConnection, SessionTypes
  <2>3. \A x \in Session : transport'[x] = IF x = s THEN "accepted" ELSE transport[x]
    BY <2>1 DEF SessionTypes
  <2>4. Unopened(s)'
    BY <1>1, <1>2, <2>1, <2>2, <2>3
       DEF Phase, Unopened, Asked, Answered, Joined
  <2>5. ASSUME NEW x \in Session, x # s PROVE Phase(x)'
    <3>1. Phase(x)
      BY DEF Handshakes
    <3> QED BY <1>1, <2>1, <2>2, <2>3, <2>5, <3>1, PhaseStays DEF Ends
  <2>6. Prev[s] = NoSession
    BY <2>1 DEF Handshakes
  <2> QED BY <1>1, <2>1, <2>2, <2>3, <2>4, <2>5, <2>6 DEF Handshakes, Phase
<1>5. CASE OnReady(s)
  <2> DEFINE hello == Hello("connect", Client[s])
  <2>1. /\ transport[s] = "accepted" /\ transport' = [transport EXCEPT ![s] = "up"]
        /\ status' = status /\ remote' = remote
        /\ chan' = [chan EXCEPT ![Server[s]][s] = Append(@, hello)]
    BY <1>5 DEF OnReady
  <2> HIDE DEF hello
  <2>2. \A x \in Session : transport'[x] = IF x = s THEN "up" ELSE transport[x]
    BY <2>1 DEF SessionTypes
  <2>3. Unopened(s)
    BY <1>2, <2>1 DEF Phase, Asked, Answered, Joined
  <2>4. Append(chan[Server[s]][s], hello) = <<hello>>
    BY <2>3 DEF Unopened
  <2>5. \A q \in Node, x \in Session :
           chan'[q][x] = IF q = Server[s] /\ x = s THEN <<hello>> ELSE chan[q][x]
    BY <1>1, <2>1, <2>4 DEF SessionTypes
  <2>6. Asked(s)'
    BY <1>1, <2>1, <2>2, <2>3, <2>5 DEF Unopened, Asked, hello
  <2>7. ASSUME NEW x \in Session, x # s PROVE Phase(x)'
    <3>1. Phase(x)
      BY DEF Handshakes
    <3> QED BY <1>1, <2>1, <2>2, <2>5, <2>7, <3>1, PhaseStays DEF Ends
  <2>8. Prev[s] = NoSession
    BY <2>1 DEF Handshakes
  <2>9. \A q \in Node, x \in Session : q \notin Ends(x) => chan'[q][x] = <<>>
    BY <2>5 DEF Handshakes, Ends
  <2>10. Handshakes'
    BY <2>1, <2>2, <2>6, <2>7, <2>8, <2>9 DEF Handshakes, Phase
  <2>11. chan[Server[s]][s] = <<>>
    BY <2>3 DEF Unopened
  <2> QED BY <2>1, <2>5, <2>10, <2>11 DEF hello
<1> QED BY <1>3, <1>4, <1>5

\* What relay r sends on a session leaves as soon as r has had its handshake.
SentTo(r, rem, q, x) == r \in Ends(x) /\ q = Peer(r, x) /\ rem[x] # NoNode

\* In every phase an end that knows its remote is connected, and a client that
\* does not is not.
LEMMA SentInPhase ==
  ASSUME NEW x \in Session, Phase(x), NEW r \in Node, NEW st, NEW rem,
         st[x] = status[r][x], rem[x] = remote[r][x],
         NEW ch, NEW out, NEW q \in Node
  PROVE  Sent(ch, r, st, rem, out)[q][x] =
            IF SentTo(r, rem, q, x) THEN ch[q][x] \o out[x] ELSE ch[q][x]
<1>1. /\ Client[x] \in Node /\ Server[x] \in Node /\ Client[x] # Server[x]
      /\ NoNode \notin Node
  BY EndsFacts
<1>2. r \in Ends(x) =>
         (/\ st[x] = "connected" /\ transport[x] = "up"
          /\ r = Client[x] \/ rem[x] # NoNode) <=> rem[x] # NoNode
  BY <1>1 DEF Phase, Unopened, Asked, Answered, Joined, Ends
<1>3. Sent(ch, r, st, rem, out)[q][x] =
            IF /\ r \in Ends(x) /\ q = Peer(r, x)
               /\ st[x] = "connected" /\ transport[x] = "up"
               /\ r = Client[x] \/ rem[x] # NoNode
            THEN ch[q][x] \o out[x] ELSE ch[q][x]
  BY SentIs
<1> QED BY <1>2, <1>3 DEF SentTo

\* No message of a handshake comes with the module's own messages.
LEMMA NoHelloConcat ==
  ASSUME NEW M, NoHellos(M), NEW ch \in Seq(M \cup Hellos), NEW out \in Seq(M)
  PROVE  /\ NoHelloIn(out)
         /\ NoHelloIn(ch) => NoHelloIn(ch \o out)
         /\ ch # <<>> /\ NoHelloIn(Tail(ch)) =>
               /\ ch \o out # <<>> /\ Head(ch \o out) = Head(ch)
               /\ NoHelloIn(Tail(ch \o out))
<1>1. NoHelloIn(out)
  <2>1. \A i \in 1..Len(out) : out[i] \in M
    OBVIOUS
  <2> QED BY <2>1 DEF NoHelloIn, NoHellos
<1>2. ASSUME NEW c \in Seq(M \cup Hellos), NoHelloIn(c)
      PROVE  NoHelloIn(c \o out)
  <2>1. out \in Seq(M \cup Hellos)
    OBVIOUS
  <2>2. /\ Len(c) \in Nat /\ Len(out) \in Nat /\ Len(c \o out) = Len(c) + Len(out)
        /\ \A i \in 1..Len(c \o out) :
              (c \o out)[i] = IF i <= Len(c) THEN c[i] ELSE out[i - Len(c)]
    BY <2>1, ConcatProperties
  <2> SUFFICES ASSUME NEW i \in 1..Len(c \o out) PROVE ~ IsHello((c \o out)[i])
    BY DEF NoHelloIn
  <2>3. CASE i <= Len(c)
    BY <1>2, <2>2, <2>3 DEF NoHelloIn
  <2>4. CASE ~ (i <= Len(c))
    <3>1. i - Len(c) \in 1..Len(out)
      BY <2>2, <2>4
    <3> QED BY <1>1, <2>2, <2>4, <3>1 DEF NoHelloIn
  <2> QED BY <2>3, <2>4
<1>3. ASSUME ch # <<>>, NoHelloIn(Tail(ch))
      PROVE  /\ ch \o out # <<>> /\ Head(ch \o out) = Head(ch)
             /\ NoHelloIn(Tail(ch \o out))
  <2>1. out \in Seq(M \cup Hellos)
    OBVIOUS
  <2> DEFINE S == M \cup Hellos
  <2> HIDE DEF S
  <2>2. ch \in Seq(S) /\ out \in Seq(S)
    BY <2>1 DEF S
  <2>3. /\ Tail(ch) \in Seq(S) /\ ch \o out # <<>> /\ Head(ch \o out) = Head(ch)
        /\ Tail(ch \o out) = Tail(ch) \o out
    BY <1>3, <2>2
  <2> QED BY <1>2, <1>3, <2>3 DEF S
<1> QED BY <1>1, <1>2, <1>3

\* A session over which r sends stays in its phase.
LEMMA PhaseSends ==
  ASSUME NEW M, NoHellos(M), SessionTypes(M), NEW x \in Session, Phase(x),
         NEW r \in Node, NEW out \in Outputs(M),
         transport'[x] = transport[x],
         \A q \in Ends(x) :
            /\ status'[q][x] = status[q][x] /\ remote'[q][x] = remote[q][x]
            /\ chan'[q][x] = IF SentTo(r, remote[r], q, x)
                             THEN chan[q][x] \o out[x] ELSE chan[q][x]
  PROVE  Phase(x)'
<1>1. /\ Client[x] \in Node /\ Server[x] \in Node /\ Client[x] # Server[x]
      /\ NoNode \notin Node
  BY EndsFacts
<1>2. /\ chan[Client[x]][x] \in Seq(M \cup Hellos)
      /\ chan[Server[x]][x] \in Seq(M \cup Hellos) /\ out[x] \in Seq(M)
  BY <1>1 DEF SessionTypes, Outputs
<1>3. CASE Unopened(x) \/ Asked(x)
  <2>1. \A q \in Ends(x) : ~ SentTo(r, remote[r], q, x)
    BY <1>1, <1>3 DEF SentTo, Unopened, Asked, Ends
  <2> QED BY <2>1, PhaseStays
<1>4. CASE Answered(x)
  <2>1. ~ SentTo(r, remote[r], Server[x], x)
    BY <1>1, <1>4 DEF SentTo, Answered, Ends, Peer
  <2>2. /\ chan'[Server[x]][x] = chan[Server[x]][x]
        /\ \/ chan'[Client[x]][x] = chan[Client[x]][x]
           \/ chan'[Client[x]][x] = chan[Client[x]][x] \o out[x]
    BY <2>1 DEF Ends
  <2>3. /\ chan'[Client[x]][x] # <<>>
        /\ Head(chan'[Client[x]][x]) = Hello("connectResponse", Server[x])
        /\ NoHelloIn(Tail(chan'[Client[x]][x]))
    <3> DEFINE ch == chan[Client[x]][x]
               o == out[x]
    <3>1. ch \in Seq(M \cup Hellos) /\ o \in Seq(M)
      BY <1>2
    <3>2. /\ ch # <<>> /\ Head(ch) = Hello("connectResponse", Server[x])
          /\ NoHelloIn(Tail(ch))
      BY <1>4 DEF Answered
    <3>3. chan'[Client[x]][x] \in {ch, ch \o o}
      BY <2>2
    <3> HIDE DEF ch, o
    <3>4. /\ ch \o o # <<>> /\ Head(ch \o o) = Head(ch)
          /\ NoHelloIn(Tail(ch \o o))
      BY <3>1, <3>2, NoHelloConcat
    <3> QED BY <3>2, <3>3, <3>4
  <2>4. Answered(x)'
    BY <1>4, <2>2, <2>3 DEF Answered, Ends
  <2> QED BY <2>4 DEF Phase
<1>5. CASE Joined(x)
  <2>1. \A q \in Ends(x) : NoHelloIn(chan'[q][x])
    BY <1>2, <1>5, NoHelloConcat DEF Joined, Ends
  <2>2. Joined(x)'
    BY <1>5, <2>1 DEF Joined, Ends
  <2> QED BY <2>2 DEF Phase
<1> QED BY <1>3, <1>4, <1>5 DEF Phase

\* A relay sends something of its own accord.
LEMMA SendHandshakes ==
  ASSUME NEW M, NoHellos(M), SessionTypes(M), Handshakes, NEW r \in Node,
         NEW out \in Outputs(M),
         chan' = Sent(chan, r, status[r], remote[r], out),
         UNCHANGED <<status, remote, transport, drops>>
  PROVE  /\ Handshakes'
         /\ \A q \in Node, x \in Session :
               chan'[q][x] = IF SentTo(r, remote[r], q, x)
                             THEN chan[q][x] \o out[x] ELSE chan[q][x]
<1>1. \A q \in Node, x \in Session :
         chan'[q][x] = IF SentTo(r, remote[r], q, x)
                       THEN chan[q][x] \o out[x] ELSE chan[q][x]
  <2> TAKE q \in Node, x \in Session
  <2>1. Phase(x)
    BY DEF Handshakes
  <2> QED BY <2>1, SentInPhase
<1>2. ASSUME NEW x \in Session PROVE Phase(x)'
  <2>1. Phase(x) /\ Ends(x) \subseteq Node
    BY TopologyAssumption DEF Handshakes, Ends
  <2>2. /\ transport'[x] = transport[x]
        /\ \A q \in Ends(x) :
            /\ status'[q][x] = status[q][x] /\ remote'[q][x] = remote[q][x]
            /\ chan'[q][x] = IF SentTo(r, remote[r], q, x)
                             THEN chan[q][x] \o out[x] ELSE chan[q][x]
    BY <1>1, <2>1
  <2> QED BY <2>1, <2>2, PhaseSends
<1>3. \A q \in Node, x \in Session : q \notin Ends(x) => chan'[q][x] = <<>>
  <2> SUFFICES ASSUME NEW q \in Node, NEW x \in Session, q \notin Ends(x)
               PROVE  chan'[q][x] = <<>>
    OBVIOUS
  <2>1. ~ SentTo(r, remote[r], q, x)
    BY EndsFacts DEF SentTo
  <2> QED BY <1>1, <2>1 DEF Handshakes
<1> QED BY <1>1, <1>2, <1>3 DEF Handshakes

\* What r answers to message m of session s, on session x.
Answer(r, s, m, x) ==
    IF x = s /\ m.kind = "connect" THEN <<Hello("connectResponse", r)>> ELSE <<>>

\* What it means that r takes message m of session s and sends out, while no
\* transport has failed: m is of the handshake exactly if this end has not had
\* it, and what r sends reaches its peers, behind the answer.
Taken(M, r, s, m, out) ==
    /\ r \in Ends(s) /\ m \in M \cup Hellos /\ (m \in Hellos <=> IsHello(m))
    /\ m \in Hellos <=> remote[r][s] = NoNode
    /\ m \in Hellos => m.id = Peer(r, s) /\ remote'[r][s] = Peer(r, s)
                       /\ chan[Peer(r, s)][s] = <<>>
    /\ \A q \in Node, x \in Session :
          q # r \/ x # s \/ m \notin Hellos => remote'[q][x] = remote[q][x]
    /\ chan'[r][s] = Tail(chan[r][s])
    /\ \A x \in Session : x # s => chan'[r][x] = chan[r][x]
    /\ \A q \in Node, x \in Session :
          q # r => chan'[q][x] = IF SentTo(r, remote'[r], q, x)
                                 THEN chan[q][x] \o (Answer(r, s, m, x) \o out[x])
                                 ELSE chan[q][x]

\* Taking a message keeps the handshakes.
LEMMA TakeHandshakes ==
  ASSUME NEW M, NoHellos(M), SessionTypes(M), Handshakes,
         NEW r \in Node, NEW s \in Session, chan[r][s] # <<>>,
         NEW m, NEW out \in Outputs(M), Take(r, s, m, out)
  PROVE  Handshakes' /\ Taken(M, r, s, m, out)
<1> DEFINE c == Client[s]
           v == Server[s]
           st == StatusAfter(r, s, m)
           rem == RemoteAfter(r, s, m)
           rest == [chan EXCEPT ![r][s] = Tail(@)]
           answer == IF m.kind = "connect" THEN <<Hello("connectResponse", r)>> ELSE <<>>
           full == [out EXCEPT ![s] = answer \o @]
<1>1. /\ m \in M \cup Hellos /\ (IsHello(m) <=> m \in Hellos) /\ m = Head(chan[r][s])
      /\ SessionTypes(M)'
  BY TakeTypes DEF Take
<1>2. /\ c \in Node /\ v \in Node /\ c # v /\ NoNode \notin Node
      /\ Peer(c, s) = v /\ Peer(v, s) = c /\ Ends(s) = {c, v}
  BY TopologyAssumption DEF Peer, Ends, NoNode
<1>3. r \in {c, v} /\ Phase(s)
  BY <1>2 DEF Handshakes
<1>4. \/ /\ Asked(s) /\ r = v /\ m = Hello("connect", c) /\ chan[c][s] = <<>>
         /\ Tail(chan[v][s]) = <<>>
      \/ Answered(s) /\ r = c /\ m = Hello("connectResponse", v) /\ chan[v][s] = <<>>
      \/ Joined(s) /\ ~ IsHello(m)
  <2>1. CASE Unopened(s)
    BY <1>3, <2>1 DEF Unopened
  <2>2. CASE Asked(s)
    <3>1. r = v /\ chan[v][s] = <<Hello("connect", c)>>
      BY <1>3, <2>2 DEF Asked
    <3>2. m = Hello("connect", c) /\ Tail(chan[v][s]) = <<>>
      BY <1>1, <3>1
    <3> QED BY <2>2, <3>1, <3>2 DEF Asked
  <2>3. CASE Answered(s)
    BY <1>1, <1>3, <2>3 DEF Answered
  <2>4. CASE Joined(s)
    <3>1. chan[r][s] \in Seq(M \cup Hellos) /\ NoHelloIn(chan[r][s])
      BY <1>3, <2>4 DEF Joined, SessionTypes
    <3>2. 1 \in 1..Len(chan[r][s]) /\ m = chan[r][s][1]
      BY <1>1, <3>1
    <3> QED BY <2>4, <3>1, <3>2 DEF NoHelloIn
  <2> QED BY <1>3, <2>1, <2>2, <2>3, <2>4 DEF Phase
<1>5. /\ IsHello(m) <=> remote[r][s] = NoNode
      /\ IsHello(m) => m.id = Peer(r, s) /\ chan[Peer(r, s)][s] = <<>>
      /\ transport[s] = "up"
      /\ m.kind = "connect" => Asked(s) /\ r = v
  BY <1>2, <1>3, <1>4 DEF Asked, Answered, Joined, Hello, IsHello
<1>6. /\ \A q \in Node, x \in Session :
            /\ remote'[q][x] = IF q = r /\ x = s /\ IsHello(m) THEN Peer(r, s)
                               ELSE remote[q][x]
            /\ status'[q][x] = IF q = r /\ x = s /\ IsHello(m) THEN "connected"
                               ELSE status[q][x]
      /\ remote'[r] = rem /\ status'[r] = st
      /\ transport' = transport
  BY <1>5 DEF Take, RemoteAfter, StatusAfter, SessionTypes
<1>7. chan' = Sent(rest, r, st, rem, full)
  BY DEF Take
<1>8. /\ \A q \in Node, x \in Session : q # r \/ x # s => rest[q][x] = chan[q][x]
      /\ rest[r][s] = Tail(chan[r][s])
  BY DEF SessionTypes
<1>9. \A x \in Session : full[x] = Answer(r, s, m, x) \o out[x]
  <2> TAKE x \in Session
  <2>1. out[x] \in Seq(M) /\ out \in [Session -> Seq(M)]
    BY DEF Outputs
  <2>2. CASE x = s
    <3>1. full[s] = answer \o out[s]
      <4> HIDE DEF answer
      <4> QED BY <2>1
    <3> QED BY <2>2, <3>1 DEF Answer
  <2>3. CASE x # s
    <3>1. full[x] = out[x] /\ <<>> \o out[x] = out[x]
      BY <2>1, <2>3
    <3> QED BY <2>3, <3>1 DEF Answer
  <2> QED BY <2>2, <2>3
<1> HIDE DEF rest, full, answer
<1>10. \A q \in Node, x \in Session :
          chan'[q][x] = IF SentTo(r, remote'[r], q, x)
                        THEN rest[q][x] \o (Answer(r, s, m, x) \o out[x])
                        ELSE rest[q][x]
  <2> TAKE q \in Node, x \in Session
  <2>1. CASE x # s
    <3>1. Phase(x) /\ st[x] = status[r][x] /\ rem[x] = remote[r][x]
      BY <1>6, <2>1 DEF Handshakes
    <3>2. Sent(rest, r, st, rem, full)[q][x] =
             IF SentTo(r, rem, q, x) THEN rest[q][x] \o full[x] ELSE rest[q][x]
      <4> HIDE DEF st, rem
      <4> QED BY <3>1, SentInPhase
    <3> QED BY <1>6, <1>7, <1>9, <3>2
  <2>2. CASE x = s
    <3>1. st[s] = "connected" /\ rem[s] # NoNode
      <4>1. st[s] = status'[r][s] /\ rem[s] = remote'[r][s]
        BY <1>6
      <4>2. CASE IsHello(m)
        BY <1>2, <1>3, <1>6, <4>1, <4>2
      <4>3. CASE ~ IsHello(m)
        BY <1>2, <1>3, <1>4, <1>5, <1>6, <4>1, <4>3 DEF Joined, Hello, IsHello
      <4> QED BY <4>2, <4>3
    <3>2. Sent(rest, r, st, rem, full)[q][s] =
             IF r \in Ends(s) /\ q = Peer(r, s) THEN rest[q][s] \o full[s] ELSE rest[q][s]
      <4> HIDE DEF st, rem
      <4> QED BY <1>5, <3>1, SentIs
    <3> QED BY <1>6, <1>7, <1>9, <2>2, <3>1, <3>2 DEF SentTo
  <2> QED BY <2>1, <2>2
<1>11. Taken(M, r, s, m, out)
  <2>1. chan'[r][s] = Tail(chan[r][s]) /\ \A x \in Session : x # s => chan'[r][x] = chan[r][x]
    <3>1. \A x \in Session : ~ SentTo(r, remote'[r], r, x)
      BY EndsFacts DEF SentTo
    <3> QED BY <1>8, <1>10, <3>1
  <2>2. \A q \in Node, x \in Session :
          q # r => chan'[q][x] = IF SentTo(r, remote'[r], q, x)
                                 THEN chan[q][x] \o (Answer(r, s, m, x) \o out[x])
                                 ELSE chan[q][x]
    BY <1>8, <1>10
  <2>3. r \in Ends(s)
    BY <1>2, <1>3
  <2> QED BY <1>1, <1>5, <1>6, <2>1, <2>2, <2>3 DEF Taken
<1>12. Phase(s)'
  <2>1. /\ chan[c][s] \in Seq(M \cup Hellos) /\ chan[v][s] \in Seq(M \cup Hellos)
        /\ out[s] \in Seq(M) /\ <<>> \o out[s] = out[s]
    BY <1>2 DEF SessionTypes, Outputs
  <2>2. NoHelloIn(out[s])
    BY <2>1, NoHelloConcat
  <2>3. chan'[r][s] = Tail(chan[r][s])
    BY <1>11 DEF Taken
  <2>4. chan'[Peer(r, s)][s] = chan[Peer(r, s)][s] \o (Answer(r, s, m, s) \o out[s])
    <3>1. rem[s] # NoNode
      <4>1. rem[s] = remote'[r][s]
        BY <1>6
      <4>2. CASE IsHello(m)
        BY <1>2, <1>3, <1>6, <4>1, <4>2
      <4>3. CASE ~ IsHello(m)
        BY <1>5, <1>6, <4>1, <4>3
      <4> QED BY <4>2, <4>3
    <3>2. Peer(r, s) \in Node /\ Peer(r, s) # r /\ SentTo(r, remote'[r], Peer(r, s), s)
      BY <1>2, <1>3, <1>6, <3>1 DEF SentTo
    <3> QED BY <1>11, <3>2 DEF Taken
  <2>5. CASE Asked(s) /\ r = v /\ m = Hello("connect", c) /\ chan[c][s] = <<>>
             /\ Tail(chan[v][s]) = <<>>
    <3> DEFINE h == Hello("connectResponse", v)
               o == out[s]
    <3>1. m.kind = "connect" /\ IsHello(m)
      BY <2>5 DEF Hello, IsHello
    <3>2. chan'[c][s] = <<>> \o (<<h>> \o o)
      BY <1>2, <2>4, <2>5, <3>1 DEF Answer
    <3>3. h \in M \cup Hellos /\ o \in Seq(M \cup Hellos)
      BY <1>2, <2>1 DEF Hello, Hellos
    <3> HIDE DEF h, o
    <3>4. /\ <<>> \o (<<h>> \o o) # <<>> /\ Head(<<>> \o (<<h>> \o o)) = h
          /\ Tail(<<>> \o (<<h>> \o o)) = o
      <4> DEFINE S == M \cup Hellos
      <4>1. h \in S /\ o \in Seq(S)
        BY <3>3
      <4> HIDE DEF S
      <4>2. <<h>> \o o \in Seq(S) /\ <<>> \o (<<h>> \o o) = <<h>> \o o
        BY <4>1
      <4>3. <<h>> \o o # <<>> /\ Head(<<h>> \o o) = h /\ Tail(<<h>> \o o) = o
        BY <4>1
      <4> QED BY <4>2, <4>3
    <3>5. Answered(s)'
      <4>1. /\ remote'[c][s] = NoNode /\ remote'[v][s] = c /\ transport'[s] = "up"
            /\ status'[c][s] # "connected" /\ status'[v][s] = "connected"
        BY <1>2, <1>5, <1>6, <2>5, <3>1 DEF Asked
      <4>2. chan'[v][s] = <<>>
        BY <2>3, <2>5
      <4>3. /\ chan'[c][s] # <<>> /\ Head(chan'[c][s]) = h /\ NoHelloIn(Tail(chan'[c][s]))
        BY <2>2, <3>2, <3>4 DEF o
      <4> QED BY <4>1, <4>2, <4>3 DEF Answered, h
    <3> QED BY <3>5 DEF Phase
  <2>6. CASE Answered(s) /\ r = c /\ m = Hello("connectResponse", v) /\ chan[v][s] = <<>>
    <3>1. m.kind # "connect" /\ IsHello(m)
      BY <2>6 DEF Hello, IsHello
    <3>2. chan'[v][s] = out[s]
      BY <1>2, <2>1, <2>4, <2>6, <3>1 DEF Answer
    <3>3. NoHelloIn(chan'[c][s])
      BY <2>3, <2>6 DEF Answered
    <3>4. /\ remote'[c][s] = v /\ remote'[v][s] = c /\ transport'[s] = "up"
          /\ status'[c][s] = "connected" /\ status'[v][s] = "connected"
      BY <1>2, <1>5, <1>6, <2>6, <3>1 DEF Answered
    <3>5. Joined(s)'
      BY <2>2, <3>2, <3>3, <3>4 DEF Joined
    <3> QED BY <3>5 DEF Phase
  <2>7. CASE Joined(s) /\ ~ IsHello(m)
    <3>1. m.kind # "connect"
      BY <2>7 DEF IsHello
    <3>2. chan'[Peer(r, s)][s] = chan[Peer(r, s)][s] \o out[s]
      BY <2>1, <2>4, <3>1 DEF Answer
    <3>3. NoHelloIn(chan'[Peer(r, s)][s])
      BY <1>2, <1>3, <2>1, <2>7, <3>2, NoHelloConcat DEF Joined
    <3>4. NoHelloIn(chan'[r][s])
      <4> DEFINE ch == chan[r][s]
      <4>1. ch \in Seq(M \cup Hellos) /\ ch # <<>> /\ NoHelloIn(ch)
        BY <1>3, <2>1, <2>7 DEF Joined
      <4> HIDE DEF ch
      <4>2. \A i \in 1..Len(Tail(ch)) : i + 1 \in 1..Len(ch) /\ Tail(ch)[i] = ch[i + 1]
        BY <4>1
      <4> QED BY <2>3, <4>1, <4>2 DEF NoHelloIn, ch
    <3>5. /\ remote'[c][s] = v /\ remote'[v][s] = c /\ transport'[s] = "up"
          /\ status'[c][s] = "connected" /\ status'[v][s] = "connected"
      BY <1>2, <1>5, <1>6, <2>7 DEF Joined
    <3>6. Joined(s)'
      BY <1>2, <1>3, <3>3, <3>4, <3>5 DEF Joined
    <3> QED BY <3>6 DEF Phase
  <2> QED BY <1>4, <2>5, <2>6, <2>7
<1>13. ASSUME NEW x \in Session, x # s PROVE Phase(x)'
  <2>1. Phase(x) /\ Ends(x) \subseteq Node
    BY TopologyAssumption DEF Handshakes, Ends
  <2>2. Answer(r, s, m, x) \o out[x] = out[x]
    <3>1. out[x] \in Seq(M)
      BY DEF Outputs
    <3> QED BY <1>13, <3>1 DEF Answer
  <2>3. /\ transport'[x] = transport[x]
        /\ \A q \in Ends(x) :
            /\ status'[q][x] = status[q][x] /\ remote'[q][x] = remote[q][x]
            /\ chan'[q][x] = IF SentTo(r, remote[r], q, x)
                             THEN chan[q][x] \o out[x] ELSE chan[q][x]
    <3> SUFFICES ASSUME NEW q \in Ends(x)
                 PROVE  /\ transport'[x] = transport[x]
                        /\ status'[q][x] = status[q][x] /\ remote'[q][x] = remote[q][x]
                        /\ chan'[q][x] = IF SentTo(r, remote[r], q, x)
                                         THEN chan[q][x] \o out[x] ELSE chan[q][x]
      BY <1>6
    <3>1. q \in Node /\ rest[q][x] = chan[q][x] /\ remote'[r][x] = remote[r][x]
      BY <1>6, <1>8, <1>13, <2>1
    <3>2. chan'[q][x] = IF SentTo(r, remote'[r], q, x)
                        THEN chan[q][x] \o out[x] ELSE chan[q][x]
      BY <1>10, <2>2, <3>1
    <3>3. SentTo(r, remote'[r], q, x) <=> SentTo(r, remote[r], q, x)
      BY <3>1 DEF SentTo
    <3> QED BY <1>6, <1>13, <3>1, <3>2, <3>3
  <2> QED BY <2>1, <2>3, PhaseSends
<1>14. \A q \in Node, x \in Session :
          status'[q][x] # "disconnected" /\ (q \notin Ends(x) => chan'[q][x] = <<>>)
  <2> TAKE q \in Node, x \in Session
  <2>1. status'[q][x] # "disconnected"
    BY <1>6 DEF Handshakes
  <2>2. ASSUME q \notin Ends(x) PROVE chan'[q][x] = <<>>
    <3>1. ~ SentTo(r, remote'[r], q, x)
      BY <2>2, EndsFacts DEF SentTo
    <3>2. q # r \/ x # s
      BY <1>2, <1>3, <2>2
    <3> QED BY <1>8, <1>10, <2>2, <3>1, <3>2 DEF Handshakes
  <2> QED BY <2>1, <2>2
<1> QED BY <1>6, <1>11, <1>12, <1>13, <1>14 DEF Handshakes

\* An end that knows its remote is connected, and its session was opened at the
\* start.
LEMMA KnownConnected ==
  ASSUME Handshakes, NEW s \in Session, NEW r \in Ends(s), remote[r][s] # NoNode
  PROVE  status[r][s] = "connected" /\ Prev[s] = NoSession
<1>1. Phase(s) /\ (Prev[s] # NoSession => transport[s] = "idle")
  BY DEF Handshakes
<1> QED BY <1>1 DEF Phase, Unopened, Asked, Answered, Joined, Ends

-----------------------------------------------------------------------------
(***************************************************************************)
(* Trees                                                                   *)
(***************************************************************************)

\* The session that leads from r to n, seen from its ends.
LEMMA TreeEnds ==
  ASSUME NEW dist, NEW up, IsTree(dist, up), NEW n \in Node, NEW r \in Node, r # n
  PROVE  /\ up[n][r] \in Session /\ r \in Ends(up[n][r])
         /\ Peer(r, up[n][r]) \in Node /\ Peer(r, up[n][r]) # r
         /\ Prev[up[n][r]] = NoSession
         /\ dist[n][Peer(r, up[n][r])] < dist[n][r]
         /\ Peer(r, up[n][r]) # n => up[n][Peer(r, up[n][r])] # up[n][r]
<1> DEFINE s == up[n][r]
           p == Peer(r, s)
<1>1. /\ s \in Session /\ r \in Ends(s) /\ Prev[s] = NoSession
      /\ dist[n][p] < dist[n][r]
  BY DEF IsTree, Ends
<1> HIDE DEF s
<1>2. p \in Node /\ p # r /\ Peer(p, s) = r
  BY <1>1, EndsFacts
<1>3. ASSUME p # n, up[n][p] = s PROVE FALSE
  <2> HIDE DEF p
  <2>1. dist[n][Peer(p, s)] < dist[n][p]
    BY <1>2, <1>3 DEF IsTree
  <2>2. dist[n][p] \in Nat /\ dist[n][r] \in Nat
    BY <1>2 DEF IsTree
  <2> QED BY <1>1, <1>2, <2>1, <2>2 DEF p
<1> HIDE DEF p
<1> QED BY <1>1, <1>2, <1>3 DEF p, s

\* A session that does not lead from x to n leads there from its other end.
LEMMA TreeOther ==
  ASSUME NEW dist, NEW up, IsTree(dist, up), NEW n \in Node, NEW s \in Session,
         Prev[s] = NoSession, NEW x \in Ends(s), x # n => up[n][x] # s
  PROVE  Peer(x, s) # n /\ up[n][Peer(x, s)] = s
<1>1. PICK r \in Ends(s) \ {n} : up[n][r] = s
  BY DEF IsTree, Ends
<1>2. r # x /\ x \in Node
  BY <1>1, EndsFacts, TopologyAssumption DEF Ends
<1>3. r = Peer(x, s)
  BY <1>1, <1>2, TopologyAssumption DEF Ends, Peer
<1> QED BY <1>1, <1>3
=============================================================================
