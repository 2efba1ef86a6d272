-------------------------- MODULE ClientStateProofs --------------------------
(***************************************************************************)
(* The invariants of ClientState, for any number of clients, tracks,       *)
(* namespaces and requests.                                                *)
(*                                                                         *)
(* Handlers of ClientManager loop over sets of subscriptions, handlers and *)
(* namespaces and call other handlers in the loop; the model writes such a *)
(* loop with FoldSet.  The first part shows that a loop leads from G[{}]   *)
(* to G[D] when the round for x leads from G[T] to G[T \cup {x}], by the   *)
(* well-foundedness of the order of the natural numbers.                   *)
(* The second part gives the types of the state.  The third part has, for  *)
(* each handler, a lemma that it leads from a good state to a good state,  *)
(* and the theorems follow.                                                *)
(***************************************************************************)
EXTENDS ClientState, FiniteSetTheorems, WellFoundedInduction, TLAPS

-----------------------------------------------------------------------------
(***************************************************************************)
(* Loops                                                                   *)
(***************************************************************************)

\* The element of a set that FoldSet takes next.
Pick(T) == CHOOSE x \in T : TRUE

\* The recursion of FoldSet over the subsets of D, with a function for the operator.
IsRun(f, D, base, step) ==
    f = [T \in SUBSET D |-> IF T = {} THEN base
                            ELSE step[Pick(T)][f[T \ {Pick(T)}]]]

\* A set of natural numbers that is not empty has a least element.
LEMMA LeastNat ==
  ASSUME NEW S, S \subseteq Nat, S # {}
  PROVE  \E n \in S : \A m \in S : n <= m
<1>1. PICK n \in S : \A m \in S : ~ (<<m, n>> \in OpToRel(<, Nat))
  BY WFMin, NatLessThanWellFounded, Zenon
<1>2. \A m \in S : ~ (m < n)
  BY <1>1 DEF OpToRel
<1> QED BY <1>2

\* A subset of a finite set that is not empty is one element larger than without its pick.
LEMMA PickSmaller ==
  ASSUME NEW D, IsFiniteSet(D), NEW T \in SUBSET D, T # {}
  PROVE  /\ Pick(T) \in T /\ T \ {Pick(T)} \in SUBSET D
         /\ Cardinality(T) \in Nat /\ Cardinality(T \ {Pick(T)}) \in Nat
         /\ Cardinality(T) = Cardinality(T \ {Pick(T)}) + 1
<1>1. Pick(T) \in T
  BY DEF Pick
<1>2. IsFiniteSet(T)
  BY FS_Subset
<1>3. Cardinality(T) \in Nat
  BY <1>2, FS_CardinalityType
<1>4. IsFiniteSet(T \ {Pick(T)}) /\ Cardinality(T \ {Pick(T)}) = Cardinality(T) - 1
  BY <1>1, <1>2, FS_RemoveElement
<1>5. Cardinality(T \ {Pick(T)}) \in Nat
  BY <1>4, FS_CardinalityType
<1> QED BY <1>1, <1>3, <1>4, <1>5

\* The recursion has a solution over a finite set.
LEMMA RunExists ==
  ASSUME NEW D, IsFiniteSet(D), NEW base, NEW step
  PROVE  \E f : IsRun(f, D, base, step)
<1> DEFINE Upto(n) == {T \in SUBSET D : Cardinality(T) <= n}
           R(f, n) == f = [T \in Upto(n) |-> IF T = {} THEN base
                            ELSE step[Pick(T)][f[T \ {Pick(T)}]]]
           Bad == {n \in Nat : ~ \E f : R(f, n)}
<1>1. Bad = {}
  <2> SUFFICES ASSUME Bad # {} PROVE FALSE
    OBVIOUS
  <2>1. PICK n \in Bad : \A m \in Bad : n <= m
    BY LeastNat
  <2>2. CASE n = 0
    <3> DEFINE f == [T \in Upto(0) |-> base]
    <3>1. \A T \in Upto(0) : T = {}
      <4> SUFFICES ASSUME NEW T \in Upto(0), T # {} PROVE FALSE
        OBVIOUS
      <4>1. T \in SUBSET D /\ Cardinality(T) <= 0
        OBVIOUS
      <4>2. /\ Cardinality(T) \in Nat /\ Cardinality(T \ {Pick(T)}) \in Nat
            /\ Cardinality(T) = Cardinality(T \ {Pick(T)}) + 1
        BY <4>1, PickSmaller
      <4> QED BY <4>1, <4>2
    <3>2. R(f, 0)
      BY <3>1
    <3> QED BY <3>2, <2>1, <2>2
  <2>3. CASE n # 0
    <3>1. n - 1 \in Nat /\ n - 1 \notin Bad
      <4>1. n \in Nat /\ ~ (n <= n - 1)
        BY <2>3
      <4> HIDE DEF Bad
      <4> QED BY <4>1, <2>1, <2>3
    <3>2. PICK g : R(g, n - 1)
      BY <3>1
    <3> DEFINE f == [T \in Upto(n) |-> IF T = {} THEN base
                                       ELSE step[Pick(T)][g[T \ {Pick(T)}]]]
    <3>3. ASSUME NEW T \in Upto(n), T # {}
          PROVE  T \ {Pick(T)} \in Upto(n - 1)
      BY <3>1, <3>3, <2>1, PickSmaller
    <3>4. ASSUME NEW T \in Upto(n - 1)
          PROVE  f[T] = g[T]
      <4>1. T \in Upto(n)
        <5>1. Cardinality(T) \in Nat
          BY FS_Subset, FS_CardinalityType
        <5> QED BY <3>1, <2>1, <5>1
      <4> QED BY <4>1, <3>2
    <3>5. ASSUME NEW T \in Upto(n)
          PROVE  f[T] = IF T = {} THEN base ELSE step[Pick(T)][f[T \ {Pick(T)}]]
      BY <3>3, <3>4
    <3> HIDE DEF f
    <3>6. f = [T \in Upto(n) |-> f[T]]
      BY DEF f
    <3>7. R(f, n)
      BY <3>5, <3>6
    <3> QED BY <3>7, <2>1
  <2> QED BY <2>2, <2>3
<1>2. Cardinality(D) \in Nat
  BY FS_CardinalityType
<1>3. PICK f : R(f, Cardinality(D))
  BY <1>1, <1>2
<1>4. Upto(Cardinality(D)) = SUBSET D
  BY FS_Subset
<1> QED BY <1>3, <1>4 DEF IsRun

\* What a run keeps: G[T] is what may be said after the elements of T.
LEMMA RunKeeps ==
  ASSUME NEW D, IsFiniteSet(D), NEW G, NEW it,
         it[{}] \in G[{}],
         \A T \in SUBSET D : T # {} /\ it[T \ {Pick(T)}] \in G[T \ {Pick(T)}] => it[T] \in G[T]
  PROVE  \A T \in SUBSET D : it[T] \in G[T]
<1> DEFINE Bad == {n \in Nat : \E T \in SUBSET D : Cardinality(T) = n /\ it[T] \notin G[T]}
<1>1. Bad = {}
  <2> SUFFICES ASSUME Bad # {} PROVE FALSE
    OBVIOUS
  <2>1. PICK n \in Bad : \A m \in Bad : n <= m
    BY LeastNat
  <2>2. PICK T \in SUBSET D : Cardinality(T) = n /\ it[T] \notin G[T]
    BY <2>1
  <2>3. T # {}
    BY <2>2
  <2>4. it[T \ {Pick(T)}] \notin G[T \ {Pick(T)}]
    BY <2>2, <2>3
  <2>5. Cardinality(T \ {Pick(T)}) \in Bad
    BY <2>3, <2>4, PickSmaller
  <2> QED BY <2>1, <2>2, <2>3, <2>5, PickSmaller
<1> SUFFICES ASSUME NEW T \in SUBSET D PROVE it[T] \in G[T]
  OBVIOUS
<1>2. Cardinality(T) \in Nat
  BY FS_Subset, FS_CardinalityType
<1> QED BY <1>1, <1>2

\* A run from s that stays in the sets G[T].
RunsInside(f, D, s, G, step) ==
    /\ f = [T \in SUBSET D |-> f[T]] /\ f[{}] = s
    /\ \A T \in SUBSET D : f[T] \in G[T]
    /\ \A T \in SUBSET D : T # {} => f[T] = step[Pick(T)][f[T \ {Pick(T)}]]

\* With a function for the operator, FoldSet's recursion has a run, and the run
\* stays where the steps keep it.
LEMMA RunInside ==
  ASSUME NEW D, IsFiniteSet(D), NEW s, NEW G, s \in G[{}], NEW step,
         \A T \in SUBSET D : T # {} =>
            \A a \in G[T \ {Pick(T)}] : step[Pick(T)][a] \in G[T]
  PROVE  \E f : RunsInside(f, D, s, G, step)
<1>1. PICK f : IsRun(f, D, s, step)
  BY RunExists
<1>2. /\ f = [T \in SUBSET D |-> f[T]] /\ f[{}] = s
      /\ \A T \in SUBSET D : T # {} => f[T] = step[Pick(T)][f[T \ {Pick(T)}]]
  BY <1>1 DEF IsRun
<1>3. \A T \in SUBSET D :
         T # {} /\ f[T \ {Pick(T)}] \in G[T \ {Pick(T)}] => f[T] \in G[T]
  <2> SUFFICES ASSUME NEW T \in SUBSET D, T # {},
                      NEW a \in G[T \ {Pick(T)}], a = f[T \ {Pick(T)}]
               PROVE  f[T] \in G[T]
    OBVIOUS
  <2>1. f[T] = step[Pick(T)][a]
    BY <1>2
  <2> QED BY <2>1
<1>4. \A T \in SUBSET D : f[T] \in G[T]
  BY <1>2, <1>3, RunKeeps
<1> QED BY <1>2, <1>4 DEF RunsInside

\* A set that is not empty is its pick and the rest.
LEMMA PickRest ==
  ASSUME NEW D, NEW T \in SUBSET D, T # {}
  PROVE  /\ Pick(T) \in D /\ T \ {Pick(T)} \in SUBSET D
         /\ Pick(T) \notin T \ {Pick(T)} /\ (T \ {Pick(T)}) \cup {Pick(T)} = T
<1>1. Pick(T) \in T
  BY DEF Pick
<1> QED BY <1>1

\* The loop of UnsubscribeEach leads from G[{}] to G[D] if each round does its part.
LEMMA UnsubscribeEachKeeps ==
  ASSUME NEW D, IsFiniteSet(D), NEW s, NEW G, s \in G[{}],
         \A x \in D, T \in SUBSET D : x \notin T =>
            \A a \in G[T] : UnsubscribeReceived(a, x[1], x[2]) \in G[T \cup {x}]
  PROVE  UnsubscribeEach(s, D) \in G[D]
<1> DEFINE All == UNION {G[T] : T \in SUBSET D}
           step == [x \in D |-> [a \in All |-> UnsubscribeReceived(a, x[1], x[2])]]
           P(f) == f = [T \in SUBSET D |-> IF T = {} THEN s
                         ELSE UnsubscribeReceived(f[T \ {Pick(T)}], Pick(T)[1], Pick(T)[2])]
           it == CHOOSE f : P(f)
<1>1. ASSUME NEW T \in SUBSET D, T # {}, NEW a \in G[T \ {Pick(T)}]
      PROVE  /\ UnsubscribeReceived(a, Pick(T)[1], Pick(T)[2]) \in G[T]
             /\ step[Pick(T)][a] = UnsubscribeReceived(a, Pick(T)[1], Pick(T)[2])
  <2>1. /\ Pick(T) \in D /\ T \ {Pick(T)} \in SUBSET D
        /\ Pick(T) \notin T \ {Pick(T)} /\ (T \ {Pick(T)}) \cup {Pick(T)} = T
    BY <1>1, PickRest
  <2>2. UnsubscribeReceived(a, Pick(T)[1], Pick(T)[2]) \in G[(T \ {Pick(T)}) \cup {Pick(T)}]
    BY <2>1, <1>1
  <2>3. a \in All
    BY <2>1, <1>1
  <2> HIDE DEF All
  <2> QED BY <2>1, <2>2, <2>3
<1> HIDE DEF step
<1>2. PICK f : RunsInside(f, D, s, G, step)
  <2>1. \A T \in SUBSET D : T # {} =>
           \A a \in G[T \ {Pick(T)}] : step[Pick(T)][a] \in G[T]
    BY <1>1
  <2> QED BY <2>1, RunInside
<1>3. P(f)
  <2>1. ASSUME NEW T \in SUBSET D
        PROVE  f[T] = IF T = {} THEN s
                      ELSE UnsubscribeReceived(f[T \ {Pick(T)}], Pick(T)[1], Pick(T)[2])
    BY <1>1, <1>2, PickRest DEF RunsInside
  <2> QED BY <1>2, <2>1 DEF RunsInside
<1>4. P(it)
  BY <1>3
<1> HIDE DEF it
<1>5. /\ it[{}] = s
      /\ \A T \in SUBSET D : T # {} =>
           it[T] = UnsubscribeReceived(it[T \ {Pick(T)}], Pick(T)[1], Pick(T)[2])
  BY <1>4
<1>6. \A T \in SUBSET D : it[T] \in G[T]
  <2>1. \A T \in SUBSET D :
           T # {} /\ it[T \ {Pick(T)}] \in G[T \ {Pick(T)}] => it[T] \in G[T]
    BY <1>1, <1>5
  <2> QED BY <1>5, <2>1, RunKeeps
<1>7. UnsubscribeEach(s, D) = it[D]
  BY DEF UnsubscribeEach, FoldSet, MapThenFoldSet, it, Pick
<1> QED BY <1>6, <1>7

\* So does the loop of UnsubscribeNamespaceReceived.
LEMMA LeaveHandlersKeeps ==
  ASSUME NEW D, IsFiniteSet(D), NEW s, NEW n, NEW G, s \in G[{}],
         \A x \in D, T \in SUBSET D : x \notin T =>
            \A a \in G[T] : LeaveHandler(a, x, n) \in G[T \cup {x}]
  PROVE  LeaveHandlers(s, D, n) \in G[D]
<1> DEFINE All == UNION {G[T] : T \in SUBSET D}
           step == [x \in D |-> [a \in All |-> LeaveHandler(a, x, n)]]
           P(f) == f = [T \in SUBSET D |-> IF T = {} THEN s
                         ELSE LeaveHandler(f[T \ {Pick(T)}], Pick(T), n)]
           it == CHOOSE f : P(f)
<1>1. ASSUME NEW T \in SUBSET D, T # {}, NEW a \in G[T \ {Pick(T)}]
      PROVE  /\ LeaveHandler(a, Pick(T), n) \in G[T]
             /\ step[Pick(T)][a] = LeaveHandler(a, Pick(T), n)
  <2>1. /\ Pick(T) \in D /\ T \ {Pick(T)} \in SUBSET D
        /\ Pick(T) \notin T \ {Pick(T)} /\ (T \ {Pick(T)}) \cup {Pick(T)} = T
    BY <1>1, PickRest
  <2>2. LeaveHandler(a, Pick(T), n) \in G[(T \ {Pick(T)}) \cup {Pick(T)}]
    BY <2>1, <1>1
  <2>3. a \in All
    BY <2>1, <1>1
  <2> HIDE DEF All
  <2> QED BY <2>1, <2>2, <2>3
<1> HIDE DEF step
<1>2. PICK f : RunsInside(f, D, s, G, step)
  <2>1. \A T \in SUBSET D : T # {} =>
           \A a \in G[T \ {Pick(T)}] : step[Pick(T)][a] \in G[T]
    BY <1>1
  <2> QED BY <2>1, RunInside
<1>3. P(f)
  <2>1. ASSUME NEW T \in SUBSET D
        PROVE  f[T] = IF T = {} THEN s
                      ELSE LeaveHandler(f[T \ {Pick(T)}], Pick(T), n)
    BY <1>1, <1>2, PickRest DEF RunsInside
  <2> QED BY <1>2, <2>1 DEF RunsInside
<1>4. P(it)
  BY <1>3
<1> HIDE DEF it
<1>5. /\ it[{}] = s
      /\ \A T \in SUBSET D : T # {} =>
           it[T] = LeaveHandler(it[T \ {Pick(T)}], Pick(T), n)
  BY <1>4
<1>6. \A T \in SUBSET D : it[T] \in G[T]
  <2>1. \A T \in SUBSET D :
           T # {} /\ it[T \ {Pick(T)}] \in G[T \ {Pick(T)}] => it[T] \in G[T]
    BY <1>1, <1>5
  <2> QED BY <1>5, <2>1, RunKeeps
<1>7. LeaveHandlers(s, D, n) = it[D]
  BY DEF LeaveHandlers, FoldSet, MapThenFoldSet, it, Pick
<1> QED BY <1>6, <1>7

\* So does the loop over the namespaces of a lost connection.
LEMMA UnsubscribeNamespacesKeeps ==
  ASSUME NEW D, IsFiniteSet(D), NEW s, NEW G, s \in G[{}],
         \A x \in D, T \in SUBSET D : x \notin T =>
            \A a \in G[T] : UnsubscribeNamespaceReceived(a, x[2], x[1]) \in G[T \cup {x}]
  PROVE  UnsubscribeNamespaces(s, D) \in G[D]
<1> DEFINE All == UNION {G[T] : T \in SUBSET D}
           step == [x \in D |-> [a \in All |-> UnsubscribeNamespaceReceived(a, x[2], x[1])]]
           P(f) == f = [T \in SUBSET D |-> IF T = {} THEN s
                         ELSE UnsubscribeNamespaceReceived(f[T \ {Pick(T)}], Pick(T)[2], Pick(T)[1])]
           it == CHOOSE f : P(f)
<1>1. ASSUME NEW T \in SUBSET D, T # {}, NEW a \in G[T \ {Pick(T)}]
      PROVE  /\ UnsubscribeNamespaceReceived(a, Pick(T)[2], Pick(T)[1]) \in G[T]
             /\ step[Pick(T)][a] = UnsubscribeNamespaceReceived(a, Pick(T)[2], Pick(T)[1])
  <2>1. /\ Pick(T) \in D /\ T \ {Pick(T)} \in SUBSET D
        /\ Pick(T) \notin T \ {Pick(T)} /\ (T \ {Pick(T)}) \cup {Pick(T)} = T
    BY <1>1, PickRest
  <2>2. UnsubscribeNamespaceReceived(a, Pick(T)[2], Pick(T)[1]) \in G[(T \ {Pick(T)}) \cup {Pick(T)}]
    BY <2>1, <1>1
  <2>3. a \in All
    BY <2>1, <1>1
  <2> HIDE DEF All
  <2> QED BY <2>1, <2>2, <2>3
<1> HIDE DEF step
<1>2. PICK f : RunsInside(f, D, s, G, step)
  <2>1. \A T \in SUBSET D : T # {} =>
           \A a \in G[T \ {Pick(T)}] : step[Pick(T)][a] \in G[T]
    BY <1>1
  <2> QED BY <2>1, RunInside
<1>3. P(f)
  <2>1. ASSUME NEW T \in SUBSET D
        PROVE  f[T] = IF T = {} THEN s
                      ELSE UnsubscribeNamespaceReceived(f[T \ {Pick(T)}], Pick(T)[2], Pick(T)[1])
    BY <1>1, <1>2, PickRest DEF RunsInside
  <2> QED BY <1>2, <2>1 DEF RunsInside
<1>4. P(it)
  BY <1>3
<1> HIDE DEF it
<1>5. /\ it[{}] = s
      /\ \A T \in SUBSET D : T # {} =>
           it[T] = UnsubscribeNamespaceReceived(it[T \ {Pick(T)}], Pick(T)[2], Pick(T)[1])
  BY <1>4
<1>6. \A T \in SUBSET D : it[T] \in G[T]
  <2>1. \A T \in SUBSET D :
           T # {} /\ it[T \ {Pick(T)}] \in G[T \ {Pick(T)}] => it[T] \in G[T]
    BY <1>1, <1>5
  <2> QED BY <1>5, <2>1, RunKeeps
<1>7. UnsubscribeNamespaces(s, D) = it[D]
  BY DEF UnsubscribeNamespaces, FoldSet, MapThenFoldSet, it, Pick
<1> QED BY <1>6, <1>7

\* A round of the loop of ClientAnnounce.
ForwardPair(s, x) == Forward(s, x[1], x[2], s.nodes_best[x[2]])

\* So does the loop of ClientAnnounce over the subscriptions of other relays.
LEMMA ForwardEachKeeps ==
  ASSUME NEW D, IsFiniteSet(D), NEW s, NEW G, s \in G[{}],
         \A x \in D, T \in SUBSET D : x \notin T =>
            \A a \in G[T] : ForwardPair(a, x) \in G[T \cup {x}]
  PROVE  ForwardEach(s, D) \in G[D]
<1> DEFINE All == UNION {G[T] : T \in SUBSET D}
           step == [x \in D |-> [a \in All |-> ForwardPair(a, x)]]
           P(f) == f = [T \in SUBSET D |-> IF T = {} THEN s
                         ELSE ForwardPair(f[T \ {Pick(T)}], Pick(T))]
           it == CHOOSE f : P(f)
<1>1. ASSUME NEW T \in SUBSET D, T # {}, NEW a \in G[T \ {Pick(T)}]
      PROVE  /\ ForwardPair(a, Pick(T)) \in G[T]
             /\ step[Pick(T)][a] = ForwardPair(a, Pick(T))
  <2>1. /\ Pick(T) \in D /\ T \ {Pick(T)} \in SUBSET D
        /\ Pick(T) \notin T \ {Pick(T)} /\ (T \ {Pick(T)}) \cup {Pick(T)} = T
    BY <1>1, PickRest
  <2>2. ForwardPair(a, Pick(T)) \in G[(T \ {Pick(T)}) \cup {Pick(T)}]
    BY <2>1, <1>1
  <2>3. a \in All
    BY <2>1, <1>1
  <2> HIDE DEF All
  <2> QED BY <2>1, <2>2, <2>3
<1> HIDE DEF step
<1>2. PICK f : RunsInside(f, D, s, G, step)
  <2>1. \A T \in SUBSET D : T # {} =>
           \A a \in G[T \ {Pick(T)}] : step[Pick(T)][a] \in G[T]
    BY <1>1
  <2> QED BY <2>1, RunInside
<1>3. P(f)
  <2>1. ASSUME NEW T \in SUBSET D
        PROVE  f[T] = IF T = {} THEN s
                      ELSE ForwardPair(f[T \ {Pick(T)}], Pick(T))
    BY <1>1, <1>2, PickRest DEF RunsInside
  <2> QED BY <1>2, <2>1 DEF RunsInside
<1>4. P(it)
  BY <1>3
<1> HIDE DEF it
<1>5. /\ it[{}] = s
      /\ \A T \in SUBSET D : T # {} =>
           it[T] = ForwardPair(it[T \ {Pick(T)}], Pick(T))
  BY <1>4
<1>6. \A T \in SUBSET D : it[T] \in G[T]
  <2>1. \A T \in SUBSET D :
           T # {} /\ it[T \ {Pick(T)}] \in G[T \ {Pick(T)}] => it[T] \in G[T]
    BY <1>1, <1>5
  <2> QED BY <1>5, <2>1, RunKeeps
<1>7. ForwardEach(s, D) = it[D]
  BY DEF ForwardEach, FoldSet, MapThenFoldSet, it, Pick, ForwardPair
<1> QED BY <1>6, <1>7

-----------------------------------------------------------------------------
(***************************************************************************)
(* The types of the state                                                  *)
(***************************************************************************)

\* Maps with finitely many keys of K and values of V.
Maps(K, V) == {m \in UNION {[D -> V] : D \in SUBSET K} : IsFiniteSet(DOMAIN m)}

\* What it takes to be such a map.
LEMMA MapsIs ==
  ASSUME NEW K, NEW V, NEW m
  PROVE  m \in Maps(K, V) <=> /\ DOMAIN m \in SUBSET K
                              /\ IsFiniteSet(DOMAIN m)
                              /\ m \in [DOMAIN m -> V]
<1>1. ASSUME m \in Maps(K, V)
      PROVE  /\ DOMAIN m \in SUBSET K /\ IsFiniteSet(DOMAIN m)
             /\ m \in [DOMAIN m -> V]
  <2>1. PICK D \in SUBSET K : m \in [D -> V]
    BY <1>1 DEF Maps
  <2>2. DOMAIN m = D
    BY <2>1
  <2> QED BY <1>1, <2>1, <2>2 DEF Maps
<1> QED BY <1>1 DEF Maps

\* p is the map m with the value v for each of the keys.
IsPut(p, m, keys, v) ==
    /\ DOMAIN p = DOMAIN m \cup keys
    /\ \A k \in DOMAIN p : p[k] = IF k \in keys THEN v ELSE m[k]

\* p is the map m without the keys.
IsErase(p, m, keys) ==
    /\ DOMAIN p = DOMAIN m \ keys
    /\ \A k \in DOMAIN p : p[k] = m[k]

\* Entries for more keys make a map again.
LEMMA PutAllMaps ==
  ASSUME NEW K, NEW V, NEW m \in Maps(K, V), NEW keys \in SUBSET K,
         IsFiniteSet(keys), NEW v \in V
  PROVE  /\ PutAll(m, keys, v) \in Maps(K, V)
         /\ IsPut(PutAll(m, keys, v), m, keys, v)
<1> DEFINE p == PutAll(m, keys, v)
<1>1. /\ DOMAIN m \in SUBSET K /\ IsFiniteSet(DOMAIN m) /\ m \in [DOMAIN m -> V]
  BY MapsIs
<1>2. DOMAIN p = DOMAIN m \cup keys /\ IsPut(p, m, keys, v)
  BY DEF PutAll, IsPut
<1>3. p \in [DOMAIN m \cup keys -> V]
  BY <1>1 DEF PutAll
<1>4. IsFiniteSet(DOMAIN m \cup keys)
  BY <1>1, FS_Union
<1> HIDE DEF p
<1>5. p \in Maps(K, V)
  BY <1>1, <1>2, <1>3, <1>4, MapsIs
<1> QED BY <1>2, <1>5 DEF p

\* An entry for one key makes a map again.
LEMMA PutMaps ==
  ASSUME NEW K, NEW V, NEW m \in Maps(K, V), NEW key \in K, NEW v \in V
  PROVE  /\ Put(m, key, v) \in Maps(K, V)
         /\ IsPut(Put(m, key, v), m, {key}, v)
<1> DEFINE ks == {key}
<1>1. IsFiniteSet(ks) /\ ks \in SUBSET K
  BY FS_Singleton
<1> HIDE DEF ks
<1>2. PutAll(m, ks, v) \in Maps(K, V) /\ IsPut(PutAll(m, ks, v), m, ks, v)
  BY <1>1, PutAllMaps
<1> QED BY <1>2 DEF Put, ks

\* A map without some keys is a map, of other keys.
LEMMA EraseMaps ==
  ASSUME NEW K, NEW V, NEW m \in Maps(K, V), NEW keys, NEW L,
         DOMAIN m \ keys \in SUBSET L
  PROVE  /\ Erase(m, keys) \in Maps(L, V)
         /\ IsErase(Erase(m, keys), m, keys)
<1> DEFINE p == Erase(m, keys)
<1>1. /\ DOMAIN m \in SUBSET K /\ IsFiniteSet(DOMAIN m) /\ m \in [DOMAIN m -> V]
  BY MapsIs
<1>2. DOMAIN p = DOMAIN m \ keys /\ IsErase(p, m, keys)
  BY DEF Erase, Restrict, IsErase
<1>3. p \in [DOMAIN m \ keys -> V]
  BY <1>1 DEF Erase, Restrict
<1>4. IsFiniteSet(DOMAIN m \ keys)
  BY <1>1, FS_Subset
<1> HIDE DEF p
<1>5. p \in Maps(L, V)
  BY <1>2, <1>3, <1>4, MapsIs
<1> QED BY <1>2, <1>5 DEF p

\* The empty map is a map.
LEMMA EmptyMaps ==
  ASSUME NEW K, NEW V
  PROVE  EmptyMap \in Maps(K, V) /\ DOMAIN EmptyMap = {}
<1>1. DOMAIN EmptyMap = {} /\ EmptyMap \in [{} -> V]
  BY DEF EmptyMap
<1>2. IsFiniteSet({})
  BY FS_EmptySet
<1> QED BY <1>1, <1>2, MapsIs

\* The request ids of all clients.
Req == UNION {1..MaxRequest[c] : c \in Client}

Namespaces == Prefix \cup {NameSpace[t] : t \in Track}

Handlers(C) == [initiated : BOOLEAN, subs : SUBSET (C \cup {0}),
                nss : SUBSET (Prefix \X C), paused : BOOLEAN]

\* The states that mention no client connections but those of C, except where
\* request ids are kept.
States(C) ==
    [ns_active  : Maps(Namespaces \X (C \cup {0}), SUBSET Track),
     pub_subs   : Maps(Track \X (C \cup {0}), Handlers(C)),
     pub_by_req : Maps(Nat \X Client, Track),
     sub_ns     : SUBSET (Prefix \X C),
     subscribes : Maps(Track \X C, Req),
     alias_req  : Maps(C \X Req, Track),
     sub_active : SUBSET (Track \X C \X Req),
     requests   : Maps((Client \cup {0}) \X (Nat \cup Prefix), Prefix),
     peer_subs  : SUBSET (Track \X Node),
     nodes_best : [Node -> Session \cup {NoSession}],
     sub_sns    : SUBSET (Session \X Track \X Node),
     client_fib : SUBSET (Track \X Session),
     own_subs   : SUBSET Track,
     undefined  : BOOLEAN]

\* A new State is one of them.
LEMMA EmptyState == ASSUME NEW C PROVE Empty \in States(C)
<1>1. \A K, V : EmptyMap \in Maps(K, V)
  BY EmptyMaps
<1>2. [n \in Node |-> NoSession] \in [Node -> Session \cup {NoSession}]
  OBVIOUS
<1> QED BY <1>1, <1>2 DEF Empty, States

\* A request id that is handed out is a number that no map holds.
LEMMA NextRequestFresh ==
  ASSUME NEW C, NEW s \in States(C), NEW c
  PROVE  /\ NextRequest(s, c) \in Nat \ {0}
         /\ NextRequest(s, c) \notin HeldRequests(s, c)
<1> DEFINE held == HeldRequests(s, c)
           A == {x \in DOMAIN s.alias_req \cup DOMAIN s.requests : x[1] = c}
           B == {x \in DOMAIN s.pub_by_req : x[2] = c}
<1>1. /\ IsFiniteSet(DOMAIN s.alias_req) /\ IsFiniteSet(DOMAIN s.requests)
      /\ IsFiniteSet(DOMAIN s.pub_by_req)
  BY MapsIs DEF States
<1>2. IsFiniteSet(A) /\ IsFiniteSet(B)
  <2>1. IsFiniteSet(DOMAIN s.alias_req \cup DOMAIN s.requests)
    BY <1>1, FS_Union
  <2> QED BY <1>1, <2>1, FS_Subset
<1> HIDE DEF A, B
<1>3. IsFiniteSet({k[2] : k \in A}) /\ IsFiniteSet({k[1] : k \in B})
  <2>1. ASSUME NEW S, IsFiniteSet(S), NEW i
        PROVE  IsFiniteSet({k[i] : k \in S})
    <3> DEFINE f == [k \in S |-> k[i]]
    <3>1. f \in Surjection(S, {k[i] : k \in S})
      BY DEF Surjection
    <3> QED BY <2>1, <3>1, FS_Surjection
  <2> QED BY <1>2, <2>1
<1>4. IsFiniteSet(held)
  <2>1. held = {k[2] : k \in A} \cup {k[1] : k \in B}
    BY DEF HeldRequests, A, B
  <2> QED BY <1>3, <2>1, FS_Union
<1> HIDE DEF held
<1> DEFINE n == Cardinality(held)
           ids == 1..(n + 1)
<1>5. n \in Nat
  BY <1>4, FS_CardinalityType
<1>6. \E r \in ids : r \notin held
  <2> SUFFICES ASSUME ids \in SUBSET held PROVE FALSE
    OBVIOUS
  <2>1. Cardinality(ids) <= n
    BY <1>4, FS_Subset
  <2>2. Cardinality(ids) = n + 1
    <3> HIDE DEF n
    <3>1. n + 1 \in Int /\ 1 \in Int /\ ~ (1 > n + 1)
      BY <1>5
    <3>2. Cardinality(1..(n + 1)) = (n + 1) - 1 + 1
      BY <3>1, FS_Interval
    <3> QED BY <3>2, <1>5
  <2> QED BY <1>5, <2>1, <2>2
<1>7. /\ NextRequest(s, c) \in ids /\ NextRequest(s, c) \notin held
  BY <1>6 DEF NextRequest, held
<1> QED BY <1>5, <1>7 DEF held

-----------------------------------------------------------------------------
(***************************************************************************)
(* The invariant                                                           *)
(***************************************************************************)

\* The three maps of subscribes record the same.
SameSubscribes(s) ==
    \A t \in Track, c \in Client, r \in Req :
        /\ <<t, c, r>> \in s.sub_active <=>
              <<t, c>> \in DOMAIN s.subscribes /\ s.subscribes[<<t, c>>] = r
        /\ <<t, c, r>> \in s.sub_active <=>
              <<c, r>> \in DOMAIN s.alias_req /\ s.alias_req[<<c, r>>] = t

\* One of the subscriptions of other relays is for track t.
PeerWants(subs, t) == \E n \in Node : <<t, n>> \in subs

\* A handler h of key k has the subscribers it may have, and all it must have.
Attached(s, k, h) ==
    /\ \A c \in h.subs : c # 0 => <<k[1], c>> \in DOMAIN s.subscribes
    /\ h.initiated =>
          \A c \in Client : <<k[1], c>> \in DOMAIN s.subscribes => c \in h.subs
    /\ \A x \in h.nss : /\ x \notin s.sub_ns => x[2] = k[2] /\ ~ AllowSelf
                        /\ HasSamePrefix(x[1], NameSpace[k[1]])
    /\ h.paused => h.subs \subseteq {0} /\ h.nss = {}
    /\ h.paused /\ 0 \in h.subs => h.initiated /\ ~ Forwards(s.client_fib, k[1])
    /\ /\ h.initiated /\ k[2] # 0
       /\ Forwards(s.client_fib, k[1]) /\ PeerWants(s.peer_subs, k[1])
       => 0 \in h.subs

\* A handler without subscribers is paused, unless a forwarding entry runs it.
IdlePaused(s, k, h) ==
    ~ HasSubscribers(h) => h.paused \/ Forwards(s.client_fib, k[1])

\* All handlers, but those of the keys X, are as they should be.
GoodBut(s, X) ==
    /\ SameSubscribes(s)
    /\ \A k \in DOMAIN s.pub_subs \ X :
          Attached(s, k, s.pub_subs[k]) /\ IdlePaused(s, k, s.pub_subs[k])

Good(s) == GoodBut(s, {})

\* u is good, and differs from s in handlers that are paused or gone.
Tidied(s, u, C) ==
    /\ u \in States(C) /\ Good(u)
    /\ u.sub_ns = s.sub_ns /\ u.alias_req = s.alias_req
    /\ u.pub_by_req = s.pub_by_req
    /\ DOMAIN u.pub_subs \in SUBSET DOMAIN s.pub_subs
    /\ \A k \in DOMAIN u.pub_subs : u.pub_subs[k].nss = s.pub_subs[k].nss

\* All is good but that handlers of t may be idle and not paused.
GoodButIdle(s, t) ==
    /\ SameSubscribes(s)
    /\ \A k \in DOMAIN s.pub_subs :
          /\ Attached(s, k, s.pub_subs[k])
          /\ k[1] # t => IdlePaused(s, k, s.pub_subs[k])

\* RemoveOrPausePublisherSubscribe makes up for handlers of t that have become
\* idle, and changes nothing else.
LEMMA RemoveOrPauseGood ==
  ASSUME NEW C, NEW s \in States(C), NEW t \in Track, GoodButIdle(s, t),
         NEW u, u = RemoveOrPausePublisherSubscribe(s, t)
  PROVE  Tidied(s, u, C)
<1>0. /\ SameSubscribes(s)
      /\ \A k \in DOMAIN s.pub_subs :
            /\ Attached(s, k, s.pub_subs[k])
            /\ k[1] # t => IdlePaused(s, k, s.pub_subs[k])
  BY DEF GoodButIdle
<1> DEFINE K == Track \X (C \cup {0})
           P == s.pub_subs
           keys == {k \in DOMAIN P : k[1] = t}
           idle == {k \in keys : ~ HasSubscribers(P[k])}
           left == Erase(P, {k \in idle : ~ P[k].initiated})
           subs == [k \in DOMAIN left |-> IF k \in idle
                                          THEN [left[k] EXCEPT !.paused = TRUE]
                                          ELSE left[k]]
           own == IF idle = keys THEN s.own_subs \ {t} ELSE s.own_subs
<1>1. u = IF Forwards(s.client_fib, t) THEN s
          ELSE [s EXCEPT !.pub_subs = subs, !.own_subs = own]
  BY DEF RemoveOrPausePublisherSubscribe, KeysOf
<1>2. CASE Forwards(s.client_fib, t)
  <2>1. u = s
    BY <1>1, <1>2
  <2>2. \A k \in DOMAIN s.pub_subs : IdlePaused(s, k, s.pub_subs[k])
    BY <1>0, <1>2 DEF IdlePaused
  <2> QED BY <1>0, <2>1, <2>2 DEF Good, GoodBut, Tidied
<1>3. CASE ~ Forwards(s.client_fib, t)
  <2>1. P \in Maps(K, Handlers(C)) /\ s.own_subs \in SUBSET Track
    BY DEF States
  <2>2. DOMAIN P \in SUBSET K /\ IsFiniteSet(DOMAIN P) /\ P \in [DOMAIN P -> Handlers(C)]
    BY <2>1, MapsIs
  <2> HIDE DEF K
  <2>3. /\ left \in Maps(K, Handlers(C))
        /\ IsErase(left, P, {k \in idle : ~ P[k].initiated})
    BY <2>1, <2>2, EraseMaps
  <2> HIDE DEF left
  <2>4. /\ DOMAIN left \in SUBSET K /\ IsFiniteSet(DOMAIN left)
        /\ left \in [DOMAIN left -> Handlers(C)]
    BY <2>3, MapsIs
  <2>5. /\ DOMAIN left \in SUBSET DOMAIN P
        /\ \A k \in DOMAIN left : left[k] = P[k] /\ (k \in idle => P[k].initiated)
    BY <2>3 DEF IsErase
  <2>6. ASSUME NEW k \in DOMAIN left
        PROVE  /\ subs[k] \in Handlers(C)
               /\ subs[k].subs = P[k].subs /\ subs[k].nss = P[k].nss
               /\ subs[k].initiated = P[k].initiated
               /\ subs[k].paused = (k \in idle \/ P[k].paused)
    <3>1. P[k] \in Handlers(C) /\ left[k] = P[k]
      BY <2>2, <2>5
    <3> QED BY <3>1 DEF Handlers
  <2>7. subs \in Maps(K, Handlers(C)) /\ DOMAIN subs = DOMAIN left
    <3>1. DOMAIN subs = DOMAIN left /\ subs \in [DOMAIN left -> Handlers(C)]
      BY <2>6
    <3> QED BY <2>4, <3>1, MapsIs
  <2>8. own \in SUBSET Track
    BY <2>1
  <2> HIDE DEF subs, own, idle
  <2>9. u = [s EXCEPT !.pub_subs = subs, !.own_subs = own]
    BY <1>1, <1>3
  <2>10. /\ u \in States(C) /\ u.pub_subs = subs
         /\ u.sub_ns = s.sub_ns /\ u.alias_req = s.alias_req
         /\ u.pub_by_req = s.pub_by_req
         /\ u.subscribes = s.subscribes /\ u.sub_active = s.sub_active
         /\ u.client_fib = s.client_fib /\ u.peer_subs = s.peer_subs
    BY <2>7, <2>8, <2>9 DEF States, K
  <2>11. ASSUME NEW k \in DOMAIN subs
         PROVE  Attached(u, k, subs[k]) /\ IdlePaused(u, k, subs[k])
    <3>1. k \in DOMAIN P /\ Attached(s, k, P[k]) /\ (k[1] # t => IdlePaused(s, k, P[k]))
      BY <1>0, <2>5, <2>7
    <3>2. k \in idle <=> k[1] = t /\ ~ HasSubscribers(P[k])
      BY <3>1 DEF idle
    <3>3. HasSubscribers(subs[k]) = HasSubscribers(P[k])
      BY <2>6, <2>7 DEF HasSubscribers
    <3>4. /\ subs[k].subs = P[k].subs /\ subs[k].nss = P[k].nss
          /\ subs[k].initiated = P[k].initiated
          /\ subs[k].paused = (k \in idle \/ P[k].paused)
      BY <2>6, <2>7
    <3>5. Attached(u, k, subs[k])
      BY <2>10, <3>1, <3>2, <3>3, <3>4 DEF Attached, HasSubscribers
    <3>6. IdlePaused(u, k, subs[k])
      BY <2>10, <3>1, <3>2, <3>3, <3>4 DEF IdlePaused
    <3> QED BY <3>5, <3>6
  <2>12. Good(u)
    BY <1>0, <2>10, <2>11 DEF Good, GoodBut, SameSubscribes
  <2> QED BY <2>5, <2>6, <2>7, <2>10, <2>12 DEF Tidied
<1> QED BY <1>2, <1>3

\* A map with the same keys and other values of the right kind is a map.
LEMMA SameKeysMaps ==
  ASSUME NEW K, NEW V, NEW m \in Maps(K, V), NEW p, DOMAIN p = DOMAIN m,
         p \in [DOMAIN m -> V]
  PROVE  p \in Maps(K, V)
BY MapsIs

\* What RemoveSubscriber leaves of a handler.
LEMMA RemoveSubscriberHandler ==
  ASSUME NEW C, NEW h \in Handlers(C), NEW c, NEW g, g = RemoveSubscriber(h, c)
  PROVE  /\ g \in Handlers(C) /\ g.subs = h.subs \ {c} /\ g.nss = h.nss
         /\ g.initiated = h.initiated
         /\ g.paused = (h.paused \/ ~ HasSubscribers(g))
<1> DEFINE rest == [h EXCEPT !.subs = @ \ {c}]
<1>1. /\ rest \in Handlers(C) /\ rest.subs = h.subs \ {c} /\ rest.nss = h.nss
      /\ rest.initiated = h.initiated /\ rest.paused = h.paused
  BY DEF Handlers
<1> HIDE DEF rest
<1>2. g = [rest EXCEPT !.paused = rest.paused \/ ~ HasSubscribers(rest)]
  BY DEF RemoveSubscriber, rest
<1>3. /\ g \in Handlers(C) /\ g.subs = rest.subs /\ g.nss = rest.nss
      /\ g.initiated = rest.initiated
      /\ g.paused = (rest.paused \/ ~ HasSubscribers(rest))
  BY <1>1, <1>2 DEF Handlers, HasSubscribers
<1> QED BY <1>1, <1>3 DEF HasSubscribers

\* UnsubscribeReceived ends the subscription of the request, if there is one, in
\* all maps and handlers.
LEMMA UnsubscribeGood ==
  ASSUME NEW C \in SUBSET Client, NEW s \in States(C), Good(s), NEW c \in C, NEW r,
         NEW u, u = UnsubscribeReceived(s, c, r)
  PROVE  /\ u \in States(C) /\ Good(u) /\ u.sub_ns = s.sub_ns
         /\ DOMAIN u.alias_req = DOMAIN s.alias_req \ {<<c, r>>}
<1> DEFINE t == s.alias_req[<<c, r>>]
<1>1. CASE <<c, r>> \notin DOMAIN s.alias_req
  BY <1>1 DEF UnsubscribeReceived
<1>2. CASE <<c, r>> \in DOMAIN s.alias_req
  <2> DEFINE P == s.pub_subs
             K == Track \X (C \cup {0})
             subs == [k \in DOMAIN P |-> IF k[1] = t THEN RemoveSubscriber(P[k], c)
                                         ELSE P[k]]
             alias == Erase(s.alias_req, {<<c, r>>})
             left == Erase(s.subscribes, {<<t, c>>})
             active == s.sub_active \ {<<t, c, r>>}
             v == [s EXCEPT !.alias_req = alias, !.pub_subs = subs,
                            !.sub_active = active, !.subscribes = left]
  <2>1. /\ s.alias_req \in Maps(C \X Req, Track) /\ P \in Maps(K, Handlers(C))
        /\ s.subscribes \in Maps(Track \X C, Req)
        /\ s.sub_active \in SUBSET (Track \X C \X Req)
    BY DEF States
  <2>2. /\ DOMAIN s.alias_req \in SUBSET (C \X Req)
        /\ s.alias_req \in [DOMAIN s.alias_req -> Track]
        /\ DOMAIN s.subscribes \in SUBSET (Track \X C)
        /\ s.subscribes \in [DOMAIN s.subscribes -> Req]
        /\ DOMAIN P \in SUBSET K /\ P \in [DOMAIN P -> Handlers(C)]
    BY <2>1, MapsIs
  <2>3. t \in Track /\ r \in Req /\ c \in Client
    BY <1>2, <2>2
  <2>4. /\ <<t, c, r>> \in s.sub_active /\ <<t, c>> \in DOMAIN s.subscribes
        /\ s.subscribes[<<t, c>>] = r
    BY <1>2, <2>3 DEF Good, GoodBut, SameSubscribes
  <2>5. u = RemoveOrPausePublisherSubscribe(v, t)
    BY <1>2, <2>4 DEF UnsubscribeReceived, UpdateHandlers
  <2> HIDE DEF t
  <2>6. /\ alias \in Maps(C \X Req, Track) /\ IsErase(alias, s.alias_req, {<<c, r>>})
        /\ left \in Maps(Track \X C, Req) /\ IsErase(left, s.subscribes, {<<t, c>>})
    BY <2>1, <2>2, EraseMaps
  <2> HIDE DEF alias, left
  <2>7. ASSUME NEW k \in DOMAIN P
        PROVE  /\ subs[k] \in Handlers(C)
               /\ k[1] # t => subs[k] = P[k]
               /\ k[1] = t => /\ subs[k].subs = P[k].subs \ {c}
                              /\ subs[k].nss = P[k].nss
                              /\ subs[k].initiated = P[k].initiated
                              /\ subs[k].paused = (P[k].paused \/ ~ HasSubscribers(subs[k]))
    BY <2>2, RemoveSubscriberHandler
  <2>8. subs \in Maps(K, Handlers(C)) /\ DOMAIN subs = DOMAIN P
    <3>1. DOMAIN subs = DOMAIN P /\ subs \in [DOMAIN P -> Handlers(C)]
      BY <2>7
    <3> QED BY <2>1, <3>1, SameKeysMaps
  <2> HIDE DEF subs
  <2>9. active \in SUBSET (Track \X C \X Req)
    BY <2>1
  <2> HIDE DEF active
  <2>10. /\ v \in States(C) /\ v.pub_subs = subs /\ v.alias_req = alias
         /\ v.subscribes = left /\ v.sub_active = active
         /\ v.sub_ns = s.sub_ns /\ v.client_fib = s.client_fib
         /\ v.peer_subs = s.peer_subs
    BY <2>6, <2>8, <2>9 DEF States, K
  <2> HIDE DEF v
  <2>11. SameSubscribes(v)
    <3>0. /\ v.alias_req = alias /\ v.subscribes = left /\ v.sub_active = active
      BY <2>10
    <3> SUFFICES ASSUME NEW t1 \in Track, NEW c1 \in Client, NEW r1 \in Req
                 PROVE  /\ <<t1, c1, r1>> \in v.sub_active <=>
                             <<t1, c1>> \in DOMAIN v.subscribes /\ v.subscribes[<<t1, c1>>] = r1
                        /\ <<t1, c1, r1>> \in v.sub_active <=>
                             <<c1, r1>> \in DOMAIN v.alias_req /\ v.alias_req[<<c1, r1>>] = t1
      BY Zenon DEF SameSubscribes
    <3>1. /\ <<t1, c1, r1>> \in s.sub_active <=>
               <<t1, c1>> \in DOMAIN s.subscribes /\ s.subscribes[<<t1, c1>>] = r1
          /\ <<t1, c1, r1>> \in s.sub_active <=>
               <<c1, r1>> \in DOMAIN s.alias_req /\ s.alias_req[<<c1, r1>>] = t1
      BY DEF Good, GoodBut, SameSubscribes
    <3>2. <<t1, c1, r1>> \in active <=>
            <<t1, c1, r1>> \in s.sub_active /\ ~ (t1 = t /\ c1 = c /\ r1 = r)
      BY DEF active
    <3>3. /\ <<t1, c1>> \in DOMAIN left <=>
               <<t1, c1>> \in DOMAIN s.subscribes /\ ~ (t1 = t /\ c1 = c)
          /\ <<t1, c1>> \in DOMAIN left => left[<<t1, c1>>] = s.subscribes[<<t1, c1>>]
      BY <2>6 DEF IsErase
    <3>4. /\ <<c1, r1>> \in DOMAIN alias <=>
               <<c1, r1>> \in DOMAIN s.alias_req /\ ~ (c1 = c /\ r1 = r)
          /\ <<c1, r1>> \in DOMAIN alias => alias[<<c1, r1>>] = s.alias_req[<<c1, r1>>]
      BY <2>6 DEF IsErase
    <3>5. s.alias_req[<<c, r>>] = t
      BY DEF t
    <3> QED BY <2>4, <3>0, <3>1, <3>2, <3>3, <3>4, <3>5
  <2>12. ASSUME NEW k \in DOMAIN subs
         PROVE  Attached(v, k, subs[k]) /\ (k[1] # t => IdlePaused(v, k, subs[k]))
    <3>1. k \in DOMAIN P /\ Attached(s, k, P[k]) /\ IdlePaused(s, k, P[k])
      BY <2>8 DEF Good, GoodBut
    <3>2. \A c1 : <<k[1], c1>> \in DOMAIN left <=>
             <<k[1], c1>> \in DOMAIN s.subscribes /\ ~ (k[1] = t /\ c1 = c)
      BY <2>6 DEF IsErase
    <3>3. CASE k[1] # t
      <4>1. subs[k] = P[k]
        BY <2>7, <3>1, <3>3
      <4> QED BY <2>10, <3>1, <3>2, <3>3, <4>1 DEF Attached, IdlePaused
    <3>4. CASE k[1] = t
      <4>1. /\ subs[k].subs = P[k].subs \ {c} /\ subs[k].nss = P[k].nss
            /\ subs[k].initiated = P[k].initiated
            /\ subs[k].paused = (P[k].paused \/ ~ HasSubscribers(subs[k]))
        BY <2>7, <3>1, <3>4
      <4>2. c # 0
        BY <2>3, ClientAssumption
      <4>3. /\ subs[k].paused => subs[k].subs \subseteq {0} /\ subs[k].nss = {}
            /\ subs[k].paused /\ 0 \in subs[k].subs => P[k].paused /\ 0 \in P[k].subs
        BY <3>1, <4>1 DEF Attached, HasSubscribers
      <4>4. 0 \in P[k].subs => 0 \in subs[k].subs
        BY <4>1, <4>2
      <4> QED BY <2>10, <3>1, <3>2, <3>4, <4>1, <4>3, <4>4 DEF Attached
    <3> QED BY <3>3, <3>4
  <2>13. GoodButIdle(v, t) /\ v \in States(C)
    BY <2>10, <2>11, <2>12 DEF GoodButIdle
  <2>14. Tidied(v, u, C)
    <3> HIDE DEF P, K
    <3> QED BY <2>3, <2>5, <2>13, RemoveOrPauseGood
  <2> QED BY <2>6, <2>10, <2>14 DEF IsErase, Tidied
<1> QED BY <1>1, <1>2

\* What AddSubscriber leaves of a handler.
LEMMA AddSubscribersHandler ==
  ASSUME NEW C, NEW h \in Handlers(C), NEW cs \in SUBSET (C \cup {0}),
         NEW g, g = AddSubscribers(h, cs)
  PROVE  /\ g \in Handlers(C) /\ g.subs = h.subs \cup cs /\ g.nss = h.nss
         /\ g.initiated = h.initiated
         /\ g.paused = (h.paused /\ cs \subseteq h.subs)
<1>1. CASE cs \subseteq h.subs
  <2>1. g = h /\ h.subs \cup cs = h.subs
    BY <1>1 DEF AddSubscribers
  <2>2. h.paused \in BOOLEAN
    BY DEF Handlers
  <2> QED BY <1>1, <2>1, <2>2
<1>2. CASE ~ (cs \subseteq h.subs)
  <2>1. g = [h EXCEPT !.subs = h.subs \cup cs, !.paused = FALSE]
    BY <1>2 DEF AddSubscribers
  <2> QED BY <1>2, <2>1 DEF Handlers
<1> QED BY <1>1, <1>2

\* What AddSubscribeNamespace leaves of a handler.
LEMMA AddNamespacesHandler ==
  ASSUME NEW C, NEW h \in Handlers(C), NEW xs \in SUBSET (Prefix \X C),
         NEW g, g = AddSubscribeNamespaces(h, xs)
  PROVE  /\ g \in Handlers(C) /\ g.subs = h.subs /\ g.nss = h.nss \cup xs
         /\ g.initiated = h.initiated
         /\ g.paused = (h.paused /\ xs \subseteq h.nss)
<1>1. CASE xs \subseteq h.nss
  <2>1. g = h /\ h.nss \cup xs = h.nss
    BY <1>1 DEF AddSubscribeNamespaces
  <2>2. h.paused \in BOOLEAN
    BY DEF Handlers
  <2> QED BY <1>1, <2>1, <2>2
<1>2. CASE ~ (xs \subseteq h.nss)
  <2>1. g = [h EXCEPT !.nss = h.nss \cup xs, !.paused = FALSE]
    BY <1>2 DEF AddSubscribeNamespaces
  <2> QED BY <1>2, <2>1 DEF Handlers
<1> QED BY <1>1, <1>2

\* The image of a finite set is finite.
LEMMA ImageFinite ==
  ASSUME NEW S, IsFiniteSet(S), NEW f
  PROVE  IsFiniteSet({f[k] : k \in S})
<1> DEFINE g == [k \in S |-> f[k]]
<1>1. g \in Surjection(S, {f[k] : k \in S})
  BY DEF Surjection
<1> QED BY <1>1, FS_Surjection

\* u has the state of PeerManager of s, but for own_subs.
SamePeering(s, u) ==
    /\ u.peer_subs = s.peer_subs /\ u.client_fib = s.client_fib
    /\ u.nodes_best = s.nodes_best /\ u.sub_sns = s.sub_sns

\* u is s but for handlers of t with subscriber c for new connections, which
\* publish namespaces, and the maps that go with them.
Asked(s, u, t, c, new) ==
    /\ u.subscribes = s.subscribes /\ u.alias_req = s.alias_req
    /\ u.sub_active = s.sub_active /\ u.sub_ns = s.sub_ns
    /\ SamePeering(s, u)
    /\ DOMAIN u.ns_active = DOMAIN s.ns_active
    /\ IsPut(u.pub_subs, s.pub_subs, {<<t, p>> : p \in new}, Handler(FALSE, {c}))

\* SubscribeToAnnouncers makes the handlers.
LEMMA SubscribeToAnnouncersState ==
  ASSUME NEW C \in SUBSET Client, NEW s \in States(C), NEW t \in Track, NEW c \in C \cup {0},
         NEW keys \in SUBSET DOMAIN s.ns_active, \A k \in keys : k[2] # 0,
         NEW u, u = SubscribeToAnnouncers(s, keys, t, c)
  PROVE  u \in States(C) /\ Asked(s, u, t, c, {k[2] : k \in keys})
<1> DEFINE N == Namespaces \X (C \cup {0})
           K == Track \X (C \cup {0})
           h == Handler(FALSE, {c})
           f == [k \in keys |-> <<t, k[2]>>]
           g == [k \in keys |-> <<NextRequest(s, k[2]), k[2]>>]
           new == {f[k] : k \in keys}
           ids == {g[k] : k \in keys}
           active == [k \in DOMAIN s.ns_active |-> IF k \in keys THEN s.ns_active[k] \cup {t}
                                                   ELSE s.ns_active[k]]
           subs == PutAll(s.pub_subs, new, h)
           reqs == PutAll(s.pub_by_req, ids, t)
<1>1. /\ s.ns_active \in Maps(N, SUBSET Track) /\ s.pub_subs \in Maps(K, Handlers(C))
      /\ s.pub_by_req \in Maps(Nat \X Client, Track)
  BY DEF States
<1>2. /\ DOMAIN s.ns_active \in SUBSET N /\ IsFiniteSet(DOMAIN s.ns_active)
      /\ s.ns_active \in [DOMAIN s.ns_active -> SUBSET Track]
  BY <1>1, MapsIs
<1>3. IsFiniteSet(keys)
  BY <1>2, FS_Subset
<1>4. IsFiniteSet(new) /\ IsFiniteSet(ids)
  <2> HIDE DEF f, g
  <2> QED BY <1>3, ImageFinite
<1>5. new \in SUBSET K
  BY <1>2
<1>6. ids \in SUBSET (Nat \X Client)
  <2>1. \A k \in keys : NextRequest(s, k[2]) \in Nat
    BY NextRequestFresh
  <2>2. \A k \in keys : k[2] \in Client
    BY <1>2
  <2> QED BY <2>1, <2>2
<1>7. h \in Handlers(C)
  BY DEF Handler, Handlers
<1>8. active \in Maps(N, SUBSET Track) /\ DOMAIN active = DOMAIN s.ns_active
  <2>1. DOMAIN active = DOMAIN s.ns_active /\ active \in [DOMAIN s.ns_active -> SUBSET Track]
    BY <1>2
  <2> HIDE DEF active, N
  <2> QED BY <1>1, <2>1, SameKeysMaps
<1>9. /\ new = {<<t, k[2]>> : k \in keys}
      /\ ids = {<<NextRequest(s, k[2]), k[2]>> : k \in keys}
      /\ new = {<<t, p>> : p \in {k[2] : k \in keys}}
  OBVIOUS
<1> HIDE DEF new, ids, h
<1>10. subs \in Maps(K, Handlers(C)) /\ IsPut(subs, s.pub_subs, new, h)
  <2> HIDE DEF K
  <2> QED BY <1>1, <1>4, <1>5, <1>7, PutAllMaps
<1>11. reqs \in Maps(Nat \X Client, Track)
  BY <1>1, <1>4, <1>6, PutAllMaps
<1>12. u = [s EXCEPT !.ns_active = active, !.pub_subs = subs, !.pub_by_req = reqs]
  BY <1>9 DEF SubscribeToAnnouncers, h
<1> HIDE DEF active, subs, reqs
<1>13. u \in States(C) /\ u.ns_active = active /\ u.pub_subs = subs
  BY <1>8, <1>10, <1>11, <1>12 DEF States, N, K
<1>14. /\ u.subscribes = s.subscribes /\ u.alias_req = s.alias_req
       /\ u.sub_active = s.sub_active /\ u.sub_ns = s.sub_ns
       /\ SamePeering(s, u)
  BY <1>12 DEF States, SamePeering
<1> QED BY <1>8, <1>9, <1>10, <1>13, <1>14 DEF Asked, h

\* A subscribe of c to t may be recorded under the request id r.
Recordable(s, c, r, t) ==
    c # 0 => r \in Req /\ <<c, r>> \notin DOMAIN s.alias_req
             /\ <<t, c>> \notin DOMAIN s.subscribes

\* The subscribes of u are those of s and the one of c to t.
Recorded(s, u, c, t) ==
    /\ u.pub_subs = s.pub_subs /\ u.ns_active = s.ns_active /\ u.sub_ns = s.sub_ns
    /\ SamePeering(s, u)
    /\ SameSubscribes(u)
    /\ DOMAIN u.subscribes = DOMAIN s.subscribes \cup (IF c = 0 THEN {} ELSE {<<t, c>>})

\* RecordSubscribe adds a subscription to all three maps.
LEMMA RecordSubscribeState ==
  ASSUME NEW C \in SUBSET Client, NEW s \in States(C), SameSubscribes(s),
         NEW t \in Track, NEW c \in C \cup {0}, NEW r, Recordable(s, c, r, t),
         NEW u, u = RecordSubscribe(s, c, r, t)
  PROVE  u \in States(C) /\ Recorded(s, u, c, t)
<1>1. CASE c = 0
  BY <1>1 DEF RecordSubscribe, Recorded, SamePeering
<1>2. CASE c # 0
  <2>1. /\ c \in C /\ c \in Client /\ r \in Req
        /\ <<c, r>> \notin DOMAIN s.alias_req /\ <<t, c>> \notin DOMAIN s.subscribes
    BY <1>2 DEF Recordable
  <2> DEFINE active == s.sub_active \cup {<<t, c, r>>}
             alias == Put(s.alias_req, <<c, r>>, t)
             subs == Put(s.subscribes, <<t, c>>, r)
             own == s.own_subs \cup {t}
  <2>2. u = [s EXCEPT !.sub_active = active, !.alias_req = alias,
                      !.subscribes = subs, !.own_subs = own]
    BY <1>2, <2>1 DEF RecordSubscribe
  <2>3. /\ s.alias_req \in Maps(C \X Req, Track) /\ s.subscribes \in Maps(Track \X C, Req)
        /\ s.sub_active \in SUBSET (Track \X C \X Req) /\ s.own_subs \in SUBSET Track
    BY DEF States
  <2>4. alias \in Maps(C \X Req, Track) /\ IsPut(alias, s.alias_req, {<<c, r>>}, t)
    <3>1. <<c, r>> \in C \X Req
      BY <2>1
    <3> QED BY <2>3, <3>1, PutMaps
  <2>5. subs \in Maps(Track \X C, Req) /\ IsPut(subs, s.subscribes, {<<t, c>>}, r)
    <3>1. <<t, c>> \in Track \X C
      BY <2>1
    <3> QED BY <2>1, <2>3, <3>1, PutMaps
  <2>6. active \in SUBSET (Track \X C \X Req) /\ own \in SUBSET Track
    BY <2>1, <2>3
  <2> HIDE DEF active, alias, subs, own
  <2>7. /\ u \in States(C)
        /\ u.sub_active = active /\ u.alias_req = alias /\ u.subscribes = subs
    BY <2>2, <2>4, <2>5, <2>6 DEF States
  <2>8. /\ u.pub_subs = s.pub_subs /\ u.ns_active = s.ns_active /\ u.sub_ns = s.sub_ns
        /\ SamePeering(s, u)
    BY <2>2 DEF States, SamePeering
  <2>9. DOMAIN u.subscribes = DOMAIN s.subscribes \cup {<<t, c>>}
    BY <2>5, <2>7 DEF IsPut
  <2>10. SameSubscribes(u)
    <3> SUFFICES ASSUME NEW t1 \in Track, NEW c1 \in Client, NEW r1 \in Req
                 PROVE  /\ <<t1, c1, r1>> \in u.sub_active <=>
                             <<t1, c1>> \in DOMAIN u.subscribes /\ u.subscribes[<<t1, c1>>] = r1
                        /\ <<t1, c1, r1>> \in u.sub_active <=>
                             <<c1, r1>> \in DOMAIN u.alias_req /\ u.alias_req[<<c1, r1>>] = t1
      BY Zenon DEF SameSubscribes
    <3>1. /\ <<t1, c1, r1>> \in s.sub_active <=>
               <<t1, c1>> \in DOMAIN s.subscribes /\ s.subscribes[<<t1, c1>>] = r1
          /\ <<t1, c1, r1>> \in s.sub_active <=>
               <<c1, r1>> \in DOMAIN s.alias_req /\ s.alias_req[<<c1, r1>>] = t1
      BY DEF SameSubscribes
    <3>2. <<t1, c1, r1>> \in active <=>
            <<t1, c1, r1>> \in s.sub_active \/ (t1 = t /\ c1 = c /\ r1 = r)
      BY DEF active
    <3>3. /\ <<t1, c1>> \in DOMAIN subs <=>
               <<t1, c1>> \in DOMAIN s.subscribes \/ (t1 = t /\ c1 = c)
          /\ <<t1, c1>> \in DOMAIN subs =>
               subs[<<t1, c1>>] = IF t1 = t /\ c1 = c THEN r ELSE s.subscribes[<<t1, c1>>]
      BY <2>5 DEF IsPut
    <3>4. /\ <<c1, r1>> \in DOMAIN alias <=>
               <<c1, r1>> \in DOMAIN s.alias_req \/ (c1 = c /\ r1 = r)
          /\ <<c1, r1>> \in DOMAIN alias =>
               alias[<<c1, r1>>] = IF c1 = c /\ r1 = r THEN t ELSE s.alias_req[<<c1, r1>>]
      BY <2>4 DEF IsPut
    <3> QED BY <2>1, <2>7, <3>1, <3>2, <3>3, <3>4
  <2> QED BY <1>2, <2>7, <2>8, <2>9, <2>10 DEF Recorded
<1> QED BY <1>1, <1>2

\* What ProcessSubscribe leaves of a handler of the track.
JoinedBy(h, g, c) ==
    /\ g.subs = h.subs \cup {c} /\ g.nss = h.nss /\ g.initiated = h.initiated
    /\ g.paused = (h.paused /\ ~ h.initiated /\ c \in h.subs)

\* c has joined the handlers of t, and there may be new ones for c.
Processed(s, u, c, t) ==
    /\ u.sub_ns = s.sub_ns /\ SamePeering(s, u)
    /\ DOMAIN u.ns_active = DOMAIN s.ns_active
    /\ SameSubscribes(u)
    /\ DOMAIN u.subscribes = DOMAIN s.subscribes \cup (IF c = 0 THEN {} ELSE {<<t, c>>})
    /\ DOMAIN s.pub_subs \subseteq DOMAIN u.pub_subs
    /\ \A k \in DOMAIN u.pub_subs :
          LET g == u.pub_subs[k]
              h == s.pub_subs[k]
          IN  /\ k \notin DOMAIN s.pub_subs => k[1] = t /\ g = Handler(FALSE, {c})
              /\ k \in DOMAIN s.pub_subs /\ k[1] # t => g = h
              /\ k \in DOMAIN s.pub_subs /\ k[1] = t => JoinedBy(h, g, c)

\* ProcessSubscribe as a whole.
LEMMA ProcessSubscribeState ==
  ASSUME NEW C \in SUBSET Client, NEW s \in States(C), SameSubscribes(s),
         NEW t \in Track, NEW c \in C \cup {0}, NEW r, Recordable(s, c, r, t),
         NEW u, u = ProcessSubscribe(s, c, r, t)
  PROVE  u \in States(C) /\ Processed(s, u, c, t)
<1> DEFINE K == Track \X (C \cup {0})
           known == RecordSubscribe(s, c, r, t)
           Joined(h) == AddSubscribers([h EXCEPT !.paused = h.paused /\ ~ h.initiated], {c})
           subs == [k \in DOMAIN known.pub_subs |->
                      IF k[1] = t THEN Joined(known.pub_subs[k]) ELSE known.pub_subs[k]]
           joined == [known EXCEPT !.pub_subs = subs]
           announcers == {x \in DOMAIN s.ns_active :
                             /\ HasSamePrefix(x[1], NameSpace[t]) /\ x[2] # 0
                             /\ <<t, x[2]>> \notin DOMAIN s.pub_subs}
           asked == {CHOOSE x \in announcers : x[2] = p : p \in {x[2] : x \in announcers}}
<1>1. u = SubscribeToAnnouncers(joined, asked, t, c)
  BY DEF ProcessSubscribe, UpdateHandlers
<1>2. asked \in SUBSET announcers
  <2> HIDE DEF announcers
  <2> SUFFICES ASSUME NEW y \in announcers
               PROVE  (CHOOSE x \in announcers : x[2] = y[2]) \in announcers
    OBVIOUS
  <2> QED OBVIOUS
<1>3. /\ asked \in SUBSET DOMAIN s.ns_active
      /\ \A x \in asked : x[2] # 0 /\ <<t, x[2]>> \notin DOMAIN s.pub_subs
  BY <1>2
<1> HIDE DEF asked
<1>4. known \in States(C) /\ Recorded(s, known, c, t)
  BY RecordSubscribeState
<1>5. known.pub_subs = s.pub_subs /\ known.ns_active = s.ns_active
  BY <1>4 DEF Recorded
<1> HIDE DEF known
<1>6. s.pub_subs \in Maps(K, Handlers(C))
  BY DEF States
<1>7. s.pub_subs \in [DOMAIN s.pub_subs -> Handlers(C)]
  BY <1>6, MapsIs
<1>8. ASSUME NEW h \in Handlers(C)
      PROVE  Joined(h) \in Handlers(C) /\ JoinedBy(h, Joined(h), c)
  <2> DEFINE g == [h EXCEPT !.paused = h.paused /\ ~ h.initiated]
             cs == {c}
  <2>1. /\ g \in Handlers(C) /\ g.subs = h.subs /\ g.nss = h.nss
        /\ g.initiated = h.initiated /\ g.paused = (h.paused /\ ~ h.initiated)
    BY DEF Handlers
  <2>2. cs \in SUBSET (C \cup {0})
    OBVIOUS
  <2> DEFINE j == AddSubscribers(g, cs)
  <2> HIDE DEF g, cs
  <2>3. /\ j \in Handlers(C) /\ j.subs = g.subs \cup cs /\ j.nss = g.nss
        /\ j.initiated = g.initiated
        /\ j.paused = (g.paused /\ cs \subseteq g.subs)
    BY <2>1, <2>2, AddSubscribersHandler
  <2>4. Joined(h) = j
    BY DEF g, cs
  <2> HIDE DEF j, Joined
  <2> QED BY <2>1, <2>3, <2>4 DEF JoinedBy, cs
<1> HIDE DEF Joined
<1>9. /\ DOMAIN subs = DOMAIN s.pub_subs
      /\ \A k \in DOMAIN s.pub_subs : 
           /\ subs[k] \in Handlers(C)
           /\ k[1] # t => subs[k] = s.pub_subs[k]
           /\ k[1] = t => JoinedBy(s.pub_subs[k], subs[k], c)
  BY <1>5, <1>7, <1>8
<1>10. subs \in Maps(K, Handlers(C))
  <2>1. subs \in [DOMAIN s.pub_subs -> Handlers(C)]
    BY <1>5, <1>9
  <2> HIDE DEF subs, K
  <2> QED BY <1>6, <1>9, <2>1, SameKeysMaps
<1> HIDE DEF subs
<1>11. /\ joined \in States(C) /\ joined.pub_subs = subs
       /\ joined.ns_active = known.ns_active /\ joined.sub_ns = known.sub_ns
       /\ SamePeering(known, joined)
       /\ joined.subscribes = known.subscribes /\ joined.alias_req = known.alias_req
       /\ joined.sub_active = known.sub_active
  BY <1>4, <1>10 DEF States, K, SamePeering
<1> HIDE DEF joined
<1>12. u \in States(C) /\ Asked(joined, u, t, c, {x[2] : x \in asked})
  <2>1. asked \in SUBSET DOMAIN joined.ns_active
    BY <1>3, <1>5, <1>11
  <2> QED BY <1>1, <1>3, <1>11, <2>1, SubscribeToAnnouncersState
<1> DEFINE new == {<<t, p>> : p \in {x[2] : x \in asked}}
<1>13. \A k \in new : k[1] = t /\ k \notin DOMAIN s.pub_subs
  BY <1>3
<1>14. IsPut(u.pub_subs, subs, new, Handler(FALSE, {c}))
  BY <1>11, <1>12 DEF Asked
<1> HIDE DEF new
<1>15. /\ DOMAIN s.pub_subs \subseteq DOMAIN u.pub_subs
       /\ \A k \in DOMAIN u.pub_subs :
            /\ k \notin DOMAIN s.pub_subs => k[1] = t /\ u.pub_subs[k] = Handler(FALSE, {c})
            /\ k \in DOMAIN s.pub_subs => u.pub_subs[k] = subs[k]
  BY <1>9, <1>13, <1>14 DEF IsPut
<1>16. \A k \in DOMAIN u.pub_subs :
          /\ k \notin DOMAIN s.pub_subs => k[1] = t /\ u.pub_subs[k] = Handler(FALSE, {c})
          /\ k \in DOMAIN s.pub_subs /\ k[1] # t => u.pub_subs[k] = s.pub_subs[k]
          /\ k \in DOMAIN s.pub_subs /\ k[1] = t => JoinedBy(s.pub_subs[k], u.pub_subs[k], c)
  BY <1>9, <1>15
<1>17. /\ u.sub_ns = s.sub_ns /\ SamePeering(s, u)
       /\ DOMAIN u.ns_active = DOMAIN s.ns_active
       /\ SameSubscribes(u)
       /\ DOMAIN u.subscribes = DOMAIN s.subscribes \cup (IF c = 0 THEN {} ELSE {<<t, c>>})
  BY <1>4, <1>11, <1>12 DEF Recorded, Asked, SameSubscribes, SamePeering
<1> QED BY <1>12, <1>15, <1>16, <1>17 DEF Processed

\* A subscribe of a client leaves a good state.
LEMMA SubscribeGood ==
  ASSUME NEW C \in SUBSET Client, NEW s \in States(C), Good(s),
         NEW t \in Track, NEW c \in C, NEW r, Recordable(s, c, r, t),
         NEW u, u = ProcessSubscribe(s, c, r, t)
  PROVE  u \in States(C) /\ Good(u)
<1>0. c # 0
  BY ClientAssumption
<1>1. /\ SameSubscribes(s)
      /\ \A k \in DOMAIN s.pub_subs :
           Attached(s, k, s.pub_subs[k]) /\ IdlePaused(s, k, s.pub_subs[k])
  BY DEF Good, GoodBut
<1>2. u \in States(C) /\ Processed(s, u, c, t)
  BY <1>1, ProcessSubscribeState
<1>3. /\ u.sub_ns = s.sub_ns /\ u.client_fib = s.client_fib
      /\ u.peer_subs = s.peer_subs /\ SameSubscribes(u)
      /\ DOMAIN u.subscribes = DOMAIN s.subscribes \cup {<<t, c>>}
  BY <1>0, <1>2 DEF Processed, SamePeering
<1>4. ASSUME NEW k \in DOMAIN u.pub_subs
      PROVE  Attached(u, k, u.pub_subs[k]) /\ IdlePaused(u, k, u.pub_subs[k])
  <2> DEFINE g == u.pub_subs[k]
             h == s.pub_subs[k]
  <2>1. /\ k \notin DOMAIN s.pub_subs => k[1] = t /\ g = Handler(FALSE, {c})
        /\ k \in DOMAIN s.pub_subs /\ k[1] # t => g = h
        /\ k \in DOMAIN s.pub_subs /\ k[1] = t => JoinedBy(h, g, c)
    BY <1>2 DEF Processed
  <2>2. k \in DOMAIN s.pub_subs => Attached(s, k, h) /\ IdlePaused(s, k, h)
    BY <1>1
  <2>3. \A c1 : <<k[1], c1>> \in DOMAIN u.subscribes <=>
             <<k[1], c1>> \in DOMAIN s.subscribes \/ (k[1] = t /\ c1 = c)
    BY <1>3
  <2> HIDE DEF g, h
  <2>4. CASE k \notin DOMAIN s.pub_subs
    <3>1. k[1] = t /\ g.subs = {c} /\ g.nss = {} /\ g.initiated = FALSE /\ g.paused = FALSE
      BY <2>1, <2>4 DEF Handler
    <3> QED BY <1>0, <2>3, <3>1 DEF Attached, IdlePaused, HasSubscribers, g
  <2>5. CASE k \in DOMAIN s.pub_subs /\ k[1] # t
    BY <1>3, <2>1, <2>2, <2>3, <2>5 DEF Attached, IdlePaused, g
  <2>6. CASE k \in DOMAIN s.pub_subs /\ k[1] = t
    <3>1. /\ g.subs = h.subs \cup {c} /\ g.nss = h.nss /\ g.initiated = h.initiated
          /\ g.paused = (h.paused /\ ~ h.initiated /\ c \in h.subs)
      BY <2>1, <2>6 DEF JoinedBy
    <3>2. HasSubscribers(g) /\ ~ g.paused
      BY <1>0, <2>2, <2>6, <3>1 DEF Attached, HasSubscribers
    <3> QED BY <1>0, <1>3, <2>2, <2>3, <2>6, <3>1, <3>2 DEF Attached, IdlePaused, g
  <2> QED BY <2>4, <2>5, <2>6
<1> QED BY <1>2, <1>3, <1>4 DEF Good, GoodBut

\* SameSubscribes is about three maps.
LEMMA SameSubscribesKept ==
  ASSUME NEW s, NEW u, SameSubscribes(s), u.subscribes = s.subscribes,
         u.alias_req = s.alias_req, u.sub_active = s.sub_active
  PROVE  SameSubscribes(u)
<1> SUFFICES ASSUME NEW t \in Track, NEW c \in Client, NEW r \in Req
             PROVE  /\ <<t, c, r>> \in u.sub_active <=>
                          <<t, c>> \in DOMAIN u.subscribes /\ u.subscribes[<<t, c>>] = r
                    /\ <<t, c, r>> \in u.sub_active <=>
                          <<c, r>> \in DOMAIN u.alias_req /\ u.alias_req[<<c, r>>] = t
  BY Zenon DEF SameSubscribes
<1>1. /\ <<t, c, r>> \in s.sub_active <=>
           <<t, c>> \in DOMAIN s.subscribes /\ s.subscribes[<<t, c>>] = r
      /\ <<t, c, r>> \in s.sub_active <=>
           <<c, r>> \in DOMAIN s.alias_req /\ s.alias_req[<<c, r>>] = t
  BY DEF SameSubscribes
<1> QED BY <1>1

\* The handler of key k is as PublishReceived makes it, but that the peering
\* side may have joined.
NewlyMade(s, k) ==
    /\ k \in DOMAIN s.pub_subs
    /\ s.pub_subs[k].initiated /\ s.pub_subs[k].subs \subseteq {0}
    /\ s.pub_subs[k].nss = {} /\ ~ s.pub_subs[k].paused

\* u is good but for fresh handlers, with the subscriptions and routes of s; the
\* peering side has not left a handler.
Forwarded(s, u, X, C) ==
    /\ u \in States(C) /\ GoodBut(u, X) /\ \A k \in X : NewlyMade(u, k)
    /\ DOMAIN u.subscribes = DOMAIN s.subscribes /\ u.sub_ns = s.sub_ns
    /\ DOMAIN u.ns_active = DOMAIN s.ns_active
    /\ u.peer_subs = s.peer_subs /\ u.nodes_best = s.nodes_best
    /\ \A k \in DOMAIN u.pub_subs :
          k \notin DOMAIN s.pub_subs \/ 0 \in s.pub_subs[k].subs => 0 \in u.pub_subs[k].subs

\* A new entry of t is one of no other track.
LEMMA ForwardsAdded ==
  ASSUME NEW fib, NEW t, NEW key, NEW t1, t1 # t
  PROVE  Forwards(fib \cup {<<t, key>>}, t1) <=> Forwards(fib, t1)
BY DEF Forwards

\* Serving a subscription of another relay keeps the state good but for the
\* handlers that have been made by the calling PublishReceived, and attaches the
\* peering side to all handlers of the track.
LEMMA ForwardGood ==
  ASSUME NEW C \in SUBSET Client, NEW s \in States(C), NEW X, GoodBut(s, X),
         \A k \in X : NewlyMade(s, k), NEW t \in Track, NEW n \in Node,
         NEW key, s.nodes_best[n] # NoSession => key \in Session,
         NEW u, u = Forward(s, t, n, key)
  PROVE  /\ Forwarded(s, u, X, C)
         /\ \A k \in DOMAIN u.pub_subs : k[1] = t => 0 \in u.pub_subs[k].subs
<1>1. /\ SameSubscribes(s)
      /\ \A k \in DOMAIN s.pub_subs \ X :
           Attached(s, k, s.pub_subs[k]) /\ IdlePaused(s, k, s.pub_subs[k])
  BY DEF GoodBut
<1> DEFINE z == 0
           p == ProcessSubscribe(s, z, z, t)
           best == s.nodes_best[n]
<1>2. p \in States(C) /\ Processed(s, p, z, t)
  <2>1. z \in C \cup {0} /\ Recordable(s, z, z, t)
    BY DEF Recordable
  <2> HIDE DEF z
  <2> QED BY <1>1, <2>1, ProcessSubscribeState
<1> DEFINE entered == [p EXCEPT !.sub_sns = p.sub_sns \cup {<<best, t, n>>},
                                !.client_fib = p.client_fib \cup {<<t, key>>}]
<1>3. u = p \/ (best # NoSession /\ u = entered)
  BY DEF Forward
<1>4. best # NoSession => best \in Session /\ key \in Session
  BY DEF States
<1> HIDE DEF p, best
<1>5. /\ u \in States(C) /\ u.pub_subs = p.pub_subs /\ u.sub_ns = p.sub_ns
      /\ u.ns_active = p.ns_active /\ u.subscribes = p.subscribes
      /\ u.alias_req = p.alias_req /\ u.sub_active = p.sub_active
      /\ u.peer_subs = p.peer_subs /\ u.nodes_best = p.nodes_best
      /\ \A t1 : t1 # t => (Forwards(u.client_fib, t1) <=> Forwards(p.client_fib, t1))
  <2>1. CASE u = p
    BY <1>2, <2>1
  <2>2. CASE best # NoSession /\ u = entered
    <3> DEFINE sns == p.sub_sns \cup {<<best, t, n>>}
               fib == p.client_fib \cup {<<t, key>>}
    <3>1. /\ p.sub_sns \in SUBSET (Session \X Track \X Node)
          /\ p.client_fib \in SUBSET (Track \X Session)
      BY <1>2 DEF States
    <3>2. sns \in SUBSET (Session \X Track \X Node) /\ fib \in SUBSET (Track \X Session)
      BY <1>4, <2>2, <3>1
    <3>3. \A t1 : t1 # t => (Forwards(fib, t1) <=> Forwards(p.client_fib, t1))
      BY ForwardsAdded
    <3>4. u = [p EXCEPT !.sub_sns = sns, !.client_fib = fib]
      BY <2>2
    <3> HIDE DEF sns, fib
    <3>5. /\ u \in States(C) /\ u.pub_subs = p.pub_subs /\ u.sub_ns = p.sub_ns
          /\ u.ns_active = p.ns_active /\ u.subscribes = p.subscribes
          /\ u.alias_req = p.alias_req /\ u.sub_active = p.sub_active
          /\ u.peer_subs = p.peer_subs /\ u.nodes_best = p.nodes_best
          /\ u.client_fib = fib
      BY <1>2, <3>2, <3>4 DEF States
    <3> QED BY <3>3, <3>5
  <2> QED BY <1>3, <2>1, <2>2
<1>6. /\ u.sub_ns = s.sub_ns /\ DOMAIN u.ns_active = DOMAIN s.ns_active
      /\ DOMAIN u.subscribes = DOMAIN s.subscribes
      /\ u.peer_subs = s.peer_subs /\ u.nodes_best = s.nodes_best
      /\ \A t1 : t1 # t => (Forwards(u.client_fib, t1) <=> Forwards(s.client_fib, t1))
      /\ DOMAIN s.pub_subs \subseteq DOMAIN u.pub_subs
  BY <1>2, <1>5 DEF Processed, SamePeering
<1>7. SameSubscribes(u)
  <2>1. SameSubscribes(p)
    BY <1>2 DEF Processed
  <2> QED BY <1>5, <2>1, SameSubscribesKept
<1>8. ASSUME NEW k \in DOMAIN u.pub_subs
      PROVE  /\ k \notin DOMAIN s.pub_subs =>
                  k[1] = t /\ u.pub_subs[k] = Handler(FALSE, {0})
             /\ k \in DOMAIN s.pub_subs /\ k[1] # t => u.pub_subs[k] = s.pub_subs[k]
             /\ k \in DOMAIN s.pub_subs /\ k[1] = t => JoinedBy(s.pub_subs[k], u.pub_subs[k], 0)
  BY <1>2, <1>5 DEF Processed
<1>9. ASSUME NEW k \in DOMAIN u.pub_subs
      PROVE  /\ k[1] = t => 0 \in u.pub_subs[k].subs
             /\ k \notin DOMAIN s.pub_subs \/ 0 \in s.pub_subs[k].subs => 0 \in u.pub_subs[k].subs
  <2>1. k \in DOMAIN s.pub_subs /\ k[1] = t => u.pub_subs[k].subs = s.pub_subs[k].subs \cup {0}
    BY <1>8 DEF JoinedBy
  <2>2. k \notin DOMAIN s.pub_subs => u.pub_subs[k].subs = {0}
    BY <1>8 DEF Handler
  <2>3. k \in DOMAIN s.pub_subs /\ k[1] # t => u.pub_subs[k] = s.pub_subs[k]
    BY <1>8
  <2> QED BY <2>1, <2>2, <2>3
<1>10. ASSUME NEW k \in X
       PROVE  NewlyMade(u, k)
  <2>1. NewlyMade(s, k) /\ k \in DOMAIN s.pub_subs /\ k \in DOMAIN u.pub_subs
    BY <1>6 DEF NewlyMade
  <2>2. CASE k[1] # t
    BY <1>8, <2>1, <2>2 DEF NewlyMade
  <2>3. CASE k[1] = t
    <3> DEFINE g == u.pub_subs[k]
               h == s.pub_subs[k]
    <3>1. /\ g.subs = h.subs \cup {0} /\ g.nss = h.nss /\ g.initiated = h.initiated
          /\ g.paused = (h.paused /\ ~ h.initiated /\ 0 \in h.subs)
      BY <1>8, <2>1, <2>3 DEF JoinedBy
    <3>2. h.initiated /\ h.subs \subseteq {0} /\ h.nss = {} /\ ~ h.paused
      BY <2>1 DEF NewlyMade
    <3> HIDE DEF g, h
    <3>3. g.initiated /\ g.subs \subseteq {0} /\ g.nss = {} /\ ~ g.paused
      BY <3>1, <3>2
    <3> QED BY <2>1, <3>3 DEF NewlyMade, g
  <2> QED BY <2>2, <2>3
<1>11. ASSUME NEW k \in DOMAIN u.pub_subs \ X
       PROVE  Attached(u, k, u.pub_subs[k]) /\ IdlePaused(u, k, u.pub_subs[k])
  <2> DEFINE g == u.pub_subs[k]
             h == s.pub_subs[k]
  <2>1. /\ k \notin DOMAIN s.pub_subs => k[1] = t /\ g = Handler(FALSE, {0})
        /\ k \in DOMAIN s.pub_subs /\ k[1] # t => g = h
        /\ k \in DOMAIN s.pub_subs /\ k[1] = t => JoinedBy(h, g, 0)
    BY <1>8
  <2>2. k \in DOMAIN s.pub_subs => Attached(s, k, h) /\ IdlePaused(s, k, h)
    BY <1>1
  <2> HIDE DEF g, h
  <2>4. CASE k \notin DOMAIN s.pub_subs
    <3>1. k[1] = t /\ g.subs = {0} /\ g.nss = {} /\ g.initiated = FALSE /\ g.paused = FALSE
      BY <2>1, <2>4 DEF Handler
    <3> QED BY <1>6, <3>1 DEF Attached, IdlePaused, HasSubscribers, g
  <2>5. CASE k \in DOMAIN s.pub_subs /\ k[1] # t
    <3>1. g = h /\ (Forwards(u.client_fib, k[1]) <=> Forwards(s.client_fib, k[1]))
      BY <1>6, <2>1, <2>5
    <3> QED BY <1>6, <2>2, <2>5, <3>1 DEF Attached, IdlePaused, g
  <2>6. CASE k \in DOMAIN s.pub_subs /\ k[1] = t
    <3>1. /\ g.subs = h.subs \cup {0} /\ g.nss = h.nss /\ g.initiated = h.initiated
          /\ g.paused = (h.paused /\ ~ h.initiated /\ 0 \in h.subs)
      BY <2>1, <2>6 DEF JoinedBy
    <3>2. HasSubscribers(g) /\ 0 \in g.subs /\ ~ g.paused
      BY <2>2, <2>6, <3>1 DEF Attached, HasSubscribers
    <3> QED BY <1>6, <2>2, <2>6, <3>1, <3>2 DEF Attached, IdlePaused, g
  <2> QED BY <2>4, <2>5, <2>6
<1> QED BY <1>5, <1>6, <1>7, <1>9, <1>10, <1>11 DEF Forwarded, GoodBut

\* So does serving all subscriptions of other relays to a namespace.
LEMMA ClientAnnounceGood ==
  ASSUME NEW C \in SUBSET Client, NEW s \in States(C), NEW X, GoodBut(s, X),
         \A k \in X : NewlyMade(s, k), NEW ns, NEW u, u = ClientAnnounce(s, ns)
  PROVE  /\ Forwarded(s, u, X, C)
         /\ \A k \in DOMAIN u.pub_subs :
               HasSamePrefix(ns, NameSpace[k[1]]) /\ PeerWants(s.peer_subs, k[1])
               => 0 \in u.pub_subs[k].subs
<1> DEFINE D == {x \in s.peer_subs : HasSamePrefix(ns, NameSpace[x[1]])}
           Served(a, T) == \A k \in DOMAIN a.pub_subs :
                              (\E x \in T : x[1] = k[1]) => 0 \in a.pub_subs[k].subs
           G == [T \in SUBSET D |->
                   {a \in States(C) : Forwarded(s, a, X, C) /\ Served(a, T)}]
<1>1. D \in SUBSET (Track \X Node) /\ IsFiniteSet(D)
  <2>1. D \in SUBSET (Track \X Node)
    BY DEF States
  <2>2. IsFiniteSet(Track) /\ IsFiniteSet(Node)
    BY ClientAssumption
  <2>3. IsFiniteSet(Track \X Node)
    BY <2>2, FS_Product
  <2> QED BY <2>1, <2>3, FS_Subset
<1>2. \A t, n : HasSamePrefix(ns, NameSpace[t]) /\ <<t, n>> \in s.peer_subs
                => \E x \in D : x[1] = t
  <2> SUFFICES ASSUME NEW t, NEW n, HasSamePrefix(ns, NameSpace[t]), <<t, n>> \in s.peer_subs
               PROVE  \E x \in D : x[1] = t
    OBVIOUS
  <2> DEFINE y == <<t, n>>
  <2>1. y \in s.peer_subs /\ y[1] = t
    OBVIOUS
  <2> HIDE DEF y
  <2> QED BY <2>1
<1> HIDE DEF D
<1>3. s \in G[{}]
  BY DEF Forwarded
<1>4. \A x \in D, T \in SUBSET D : x \notin T =>
         \A a \in G[T] : ForwardPair(a, x) \in G[T \cup {x}]
  <2> SUFFICES ASSUME NEW x \in D, NEW T \in SUBSET D, NEW a \in G[T]
               PROVE  ForwardPair(a, x) \in G[T \cup {x}]
    OBVIOUS
  <2> DEFINE t == x[1]
             n == x[2]
             key == a.nodes_best[n]
             b == Forward(a, t, n, key)
  <2>1. a \in States(C) /\ Forwarded(s, a, X, C) /\ Served(a, T)
    OBVIOUS
  <2>2. GoodBut(a, X) /\ \A k \in X : NewlyMade(a, k)
    BY <2>1 DEF Forwarded
  <2>3. t \in Track /\ n \in Node
    BY <1>1
  <2>4. a.nodes_best[n] # NoSession => key \in Session
    BY <2>1, <2>3 DEF States
  <2> HIDE DEF t, n, key, G, Served
  <2>5. /\ Forwarded(a, b, X, C)
        /\ \A k \in DOMAIN b.pub_subs : k[1] = t => 0 \in b.pub_subs[k].subs
    BY <2>1, <2>2, <2>3, <2>4, ForwardGood
  <2> HIDE DEF b
  <2>6. b \in States(C) /\ Forwarded(s, b, X, C)
    <3>1. ASSUME NEW k \in DOMAIN b.pub_subs,
                 k \notin DOMAIN s.pub_subs \/ 0 \in s.pub_subs[k].subs
          PROVE  0 \in b.pub_subs[k].subs
      BY <2>1, <2>5, <3>1 DEF Forwarded
    <3> QED BY <2>1, <2>5, <3>1 DEF Forwarded
  <2>7. Served(b, T \cup {x})
    <3>1. ASSUME NEW k \in DOMAIN b.pub_subs, NEW y \in T \cup {x}, y[1] = k[1]
          PROVE  0 \in b.pub_subs[k].subs
      <4>1. CASE y = x
        BY <2>5, <3>1, <4>1 DEF t
      <4>2. CASE y \in T
        BY <2>1, <2>5, <3>1, <4>2 DEF Forwarded, Served
      <4> QED BY <4>1, <4>2
    <3> QED BY <3>1 DEF Served
  <2>8. T \cup {x} \in SUBSET D
    OBVIOUS
  <2>9. b \in G[T \cup {x}]
    BY <2>6, <2>7, <2>8 DEF G
  <2> QED BY <2>9 DEF ForwardPair, b, t, n, key
<1> HIDE DEF G
<1>5. ForwardEach(s, D) \in G[D]
  BY <1>1, <1>3, <1>4, ForwardEachKeeps
<1>6. Forwarded(s, u, X, C) /\ Served(u, D)
  BY <1>5 DEF ClientAnnounce, G, D
<1>7. ASSUME NEW k \in DOMAIN u.pub_subs, HasSamePrefix(ns, NameSpace[k[1]]),
             PeerWants(s.peer_subs, k[1])
      PROVE  0 \in u.pub_subs[k].subs
  BY <1>2, <1>6, <1>7 DEF PeerWants
<1> QED BY <1>6, <1>7

\* A handler made by PublishReceived gets the subscribers that came first, and is
\* paused if there are none.
LEMMA PublishGood ==
  ASSUME NEW C \in SUBSET Client, NEW s \in States(C), Good(s), NEW t \in Track,
         NEW c \in C \cup {0}, NEW r, c # 0 => r \in Nat,
         NEW u, u = PublishReceived(s, c, r, t)
  PROVE  u \in States(C) /\ Good(u)
<1> DEFINE K == Track \X (C \cup {0})
           key == <<t, c>>
           X == {key}
           h0 == Handler(TRUE, {})
           made == Put(s.pub_subs, key, h0)
           reqs == IF c = 0 THEN s.pub_by_req ELSE Put(s.pub_by_req, <<r, c>>, t)
           stored == [s EXCEPT !.pub_subs = made, !.pub_by_req = reqs]
           told == IF c = 0 THEN stored ELSE ClientAnnounce(stored, NameSpace[t])
           subs == {k[2] : k \in {x \in DOMAIN s.subscribes : x[1] = t}}
           nss == {x \in s.sub_ns : HasSamePrefix(x[1], NameSpace[t])}
           g0 == told.pub_subs[key]
           g1 == AddSubscribers(g0, subs)
           h == AddSubscribeNamespaces(g1, nss)
           has_subs == Forwards(told.client_fib, t) \/ subs # {} \/ nss # {}
           g == IF has_subs THEN h ELSE [h EXCEPT !.paused = TRUE]
<1>1. u = [told EXCEPT !.pub_subs[key] = g]
  BY DEF PublishReceived
<1>2. /\ s.pub_subs \in Maps(K, Handlers(C)) /\ s.pub_by_req \in Maps(Nat \X Client, Track)
      /\ s.subscribes \in Maps(Track \X C, Req) /\ s.sub_ns \in SUBSET (Prefix \X C)
  BY DEF States
<1>3. DOMAIN s.subscribes \in SUBSET (Track \X C)
  BY <1>2, MapsIs
<1>4. 0 \notin C
  BY ClientAssumption
<1>5. key \in K /\ h0 \in Handlers(C)
  BY DEF Handler, Handlers
<1>6. made \in Maps(K, Handlers(C)) /\ IsPut(made, s.pub_subs, X, h0)
  <2> HIDE DEF K, key, h0
  <2> QED BY <1>2, <1>5, PutMaps
<1>7. reqs \in Maps(Nat \X Client, Track)
  <2>1. CASE c # 0
    <3> DEFINE w == <<r, c>>
    <3>1. w \in Nat \X Client
      BY <2>1
    <3> HIDE DEF w
    <3>2. Put(s.pub_by_req, w, t) \in Maps(Nat \X Client, Track)
      BY <1>2, <3>1, PutMaps
    <3> QED BY <2>1, <3>2 DEF w
  <2> QED BY <1>2, <2>1
<1> HIDE DEF made, reqs
<1>8. /\ stored \in States(C) /\ stored.pub_subs = made /\ stored.sub_ns = s.sub_ns
      /\ stored.subscribes = s.subscribes /\ stored.alias_req = s.alias_req
      /\ stored.sub_active = s.sub_active /\ SamePeering(s, stored)
  BY <1>6, <1>7 DEF States, K, SamePeering
<1> HIDE DEF stored
<1>9. GoodBut(stored, X)
  <2>1. ASSUME NEW k \in DOMAIN made \ X
        PROVE  Attached(stored, k, made[k]) /\ IdlePaused(stored, k, made[k])
    <3>1. k \in DOMAIN s.pub_subs /\ made[k] = s.pub_subs[k]
      BY <1>6 DEF IsPut
    <3>2. Attached(s, k, s.pub_subs[k]) /\ IdlePaused(s, k, s.pub_subs[k])
      BY <3>1 DEF Good, GoodBut
    <3> QED BY <1>8, <3>1, <3>2 DEF Attached, IdlePaused, SamePeering
  <2>2. SameSubscribes(stored)
    <3>1. SameSubscribes(s)
      BY DEF Good, GoodBut
    <3> QED BY <1>8, <3>1, SameSubscribesKept
  <2> QED BY <1>8, <2>1, <2>2 DEF GoodBut
<1>10. \A k \in X : NewlyMade(stored, k)
  <2>1. key \in DOMAIN made /\ made[key] = h0
    BY <1>6 DEF IsPut
  <2>2. h0.initiated = TRUE /\ h0.subs = {} /\ h0.nss = {} /\ h0.paused = FALSE
    BY DEF Handler
  <2> HIDE DEF key, h0
  <2> QED BY <1>8, <2>1, <2>2 DEF NewlyMade
<1>11. /\ Forwarded(stored, told, X, C)
       /\ c # 0 /\ PeerWants(told.peer_subs, t) => 0 \in told.pub_subs[key].subs
  <2>1. CASE c = 0
    BY <1>8, <1>9, <1>10, <2>1 DEF Forwarded
  <2>2. CASE c # 0
    <3> DEFINE ns == NameSpace[t]
               v == ClientAnnounce(stored, ns)
    <3>1. key \in X /\ key[1] = t /\ HasSamePrefix(ns, ns)
      <4>1. IsPrefix(ns, ns)
        BY ClientAssumption DEF IsPrefix
      <4> HIDE DEF ns
      <4> QED BY <4>1 DEF HasSamePrefix
    <3>2. told = v
      BY <2>2
    <3> HIDE DEF X, v, key
    <3>3. /\ Forwarded(stored, v, X, C)
          /\ \A k \in DOMAIN v.pub_subs :
                HasSamePrefix(ns, NameSpace[k[1]]) /\ PeerWants(stored.peer_subs, k[1])
                => 0 \in v.pub_subs[k].subs
      <4> HIDE DEF ns
      <4> QED BY <1>8, <1>9, <1>10, ClientAnnounceGood DEF v
    <3>4. key \in DOMAIN v.pub_subs /\ v.peer_subs = stored.peer_subs
      BY <3>1, <3>3 DEF Forwarded, NewlyMade
    <3>5. PeerWants(v.peer_subs, t) => 0 \in v.pub_subs[key].subs
      BY <3>1, <3>3, <3>4
    <3> HIDE DEF told
    <3> QED BY <2>2, <3>2, <3>3, <3>5
  <2> QED BY <2>1, <2>2
<1> HIDE DEF told
<1>12. /\ told \in States(C) /\ SameSubscribes(told)
       /\ DOMAIN told.subscribes = DOMAIN s.subscribes /\ told.sub_ns = s.sub_ns
       /\ \A k \in DOMAIN told.pub_subs \ X :
             Attached(told, k, told.pub_subs[k]) /\ IdlePaused(told, k, told.pub_subs[k])
  BY <1>8, <1>11 DEF Forwarded, GoodBut
<1>13. NewlyMade(told, key)
  BY <1>11 DEF Forwarded
<1>14. /\ key \in DOMAIN told.pub_subs /\ g0.initiated /\ g0.subs \subseteq {0}
       /\ g0.nss = {} /\ ~ g0.paused
       /\ c # 0 /\ PeerWants(told.peer_subs, t) => 0 \in g0.subs
  BY <1>11, <1>13 DEF NewlyMade
<1>15. told.pub_subs \in Maps(K, Handlers(C))
  BY <1>12 DEF States
<1>16. told.pub_subs \in [DOMAIN told.pub_subs -> Handlers(C)]
  BY <1>15, MapsIs
<1>17. g0 \in Handlers(C)
  BY <1>14, <1>16
<1>18. subs \in SUBSET C /\ nss \in SUBSET (Prefix \X C)
  BY <1>2, <1>3
<1>19. \A c1 \in Client : c1 \in subs <=> <<t, c1>> \in DOMAIN s.subscribes
  BY <1>3
<1> HIDE DEF g0, subs
<1>20. /\ g1 \in Handlers(C) /\ g1.subs = g0.subs \cup subs /\ g1.nss = g0.nss
       /\ g1.initiated = g0.initiated
       /\ g1.paused = (g0.paused /\ subs \subseteq g0.subs)
  <2>1. subs \in SUBSET (C \cup {0})
    BY <1>18
  <2> QED BY <1>17, <2>1, AddSubscribersHandler
<1> HIDE DEF g1
<1>21. /\ h \in Handlers(C) /\ h.subs = g1.subs /\ h.nss = g1.nss \cup nss
       /\ h.initiated = g1.initiated
       /\ h.paused = (g1.paused /\ nss \subseteq g1.nss)
  <2> HIDE DEF nss
  <2> QED BY <1>18, <1>20, AddNamespacesHandler
<1> HIDE DEF h
<1>22. /\ h \in Handlers(C) /\ h.subs = g0.subs \cup subs /\ h.nss = nss
       /\ h.initiated /\ ~ h.paused
  BY <1>14, <1>20, <1>21
<1>23. /\ g \in Handlers(C) /\ g.subs = g0.subs \cup subs /\ g.nss = nss
       /\ g.initiated /\ (g.paused <=> ~ has_subs)
  <2>1. CASE has_subs
    BY <1>22, <2>1
  <2>2. CASE ~ has_subs
    <3>1. g = [h EXCEPT !.paused = TRUE]
      BY <2>2
    <3> HIDE DEF has_subs
    <3>2. /\ g \in Handlers(C) /\ g.subs = h.subs /\ g.nss = h.nss
          /\ g.initiated = h.initiated /\ g.paused = TRUE
      BY <1>22, <3>1 DEF Handlers
    <3> QED BY <1>22, <2>2, <3>2
  <2> QED BY <2>1, <2>2
<1> HIDE DEF g
<1> DEFINE all == [told.pub_subs EXCEPT ![key] = g]
<1>24. /\ DOMAIN all = DOMAIN told.pub_subs /\ all[key] = g
       /\ \A k \in DOMAIN told.pub_subs \ X : all[k] = told.pub_subs[k]
  BY <1>14, <1>16
<1>25. all \in Maps(K, Handlers(C))
  <2>1. all \in [DOMAIN told.pub_subs -> Handlers(C)]
    BY <1>16, <1>23
  <2> HIDE DEF all, K
  <2> QED BY <1>15, <1>24, <2>1, SameKeysMaps
<1>26. u = [told EXCEPT !.pub_subs = all]
  BY <1>1, <1>12 DEF States
<1> HIDE DEF all
<1>27. /\ u \in States(C) /\ u.pub_subs = all /\ u.sub_ns = told.sub_ns
       /\ u.subscribes = told.subscribes /\ u.alias_req = told.alias_req
       /\ u.sub_active = told.sub_active /\ u.client_fib = told.client_fib
       /\ u.peer_subs = told.peer_subs
  BY <1>12, <1>25, <1>26 DEF States, K
<1>28. Attached(u, key, g) /\ IdlePaused(u, key, g)
  <2>1. /\ g.paused => g.subs \subseteq {0} /\ g.nss = {}
        /\ g.paused => g.initiated /\ ~ Forwards(u.client_fib, t)
    BY <1>14, <1>23, <1>27
  <2>2. ~ HasSubscribers(g) => g.paused \/ Forwards(u.client_fib, t)
    BY <1>23, <1>27 DEF HasSubscribers
  <2>3. \A c1 \in g.subs : c1 # 0 => <<t, c1>> \in DOMAIN u.subscribes
    BY <1>12, <1>14, <1>18, <1>19, <1>23, <1>27
  <2>4. \A c1 \in Client : <<t, c1>> \in DOMAIN u.subscribes => c1 \in g.subs
    BY <1>12, <1>19, <1>23, <1>27
  <2>5. \A x \in g.nss : x \in u.sub_ns /\ HasSamePrefix(x[1], NameSpace[t])
    BY <1>12, <1>23, <1>27
  <2>6. c # 0 /\ PeerWants(u.peer_subs, t) => 0 \in g.subs
    BY <1>14, <1>23, <1>27
  <2>7. key[1] = t /\ key[2] = c
    OBVIOUS
  <2> HIDE DEF key
  <2> QED BY <2>1, <2>2, <2>3, <2>4, <2>5, <2>6, <2>7 DEF Attached, IdlePaused
<1>29. ASSUME NEW k \in DOMAIN told.pub_subs \ X
       PROVE  Attached(u, k, all[k]) /\ IdlePaused(u, k, all[k])
  <2>1. Attached(told, k, told.pub_subs[k]) /\ IdlePaused(told, k, told.pub_subs[k])
    BY <1>12
  <2> QED BY <1>24, <1>27, <2>1 DEF Attached, IdlePaused
<1>30. SameSubscribes(u)
  BY <1>12, <1>27, SameSubscribesKept
<1>31. \A k \in DOMAIN u.pub_subs :
          Attached(u, k, u.pub_subs[k]) /\ IdlePaused(u, k, u.pub_subs[k])
  <2> HIDE DEF key
  <2> QED BY <1>24, <1>27, <1>28, <1>29
<1> QED BY <1>27, <1>30, <1>31 DEF Good, GoodBut

\* u has the subscriptions of s.
SameBasis(s, u) ==
    /\ u.subscribes = s.subscribes /\ u.alias_req = s.alias_req
    /\ u.sub_active = s.sub_active /\ u.sub_ns = s.sub_ns
    /\ u.client_fib = s.client_fib /\ u.peer_subs = s.peer_subs

\* A state that keeps no client connections but those of B.
LEMMA StatesNarrowed ==
  ASSUME NEW C, NEW B, NEW s \in States(C),
         NEW subs \in Maps(Track \X (B \cup {0}), Handlers(B)),
         NEW active \in Maps(Namespaces \X (B \cup {0}), SUBSET Track),
         s.sub_ns \in SUBSET (Prefix \X B), s.subscribes \in Maps(Track \X B, Req),
         s.alias_req \in Maps(B \X Req, Track), s.sub_active \in SUBSET (Track \X B \X Req),
         NEW u, u = [s EXCEPT !.pub_subs = subs, !.ns_active = active]
  PROVE  u \in States(B)
BY DEF States

\* A state is good if the one before was, and the handlers that are new or have
\* changed are as they should be.
LEMMA GoodCarried ==
  ASSUME NEW s, NEW u, Good(s), SameBasis(s, u),
         \A k \in DOMAIN u.pub_subs :
            \/ k \in DOMAIN s.pub_subs /\ u.pub_subs[k] = s.pub_subs[k]
            \/ Attached(u, k, u.pub_subs[k]) /\ IdlePaused(u, k, u.pub_subs[k])
  PROVE  Good(u)
<1>1. SameSubscribes(u)
  <2>1. SameSubscribes(s)
    BY DEF Good, GoodBut
  <2> QED BY <2>1, SameSubscribesKept DEF SameBasis
<1>2. ASSUME NEW k \in DOMAIN u.pub_subs
      PROVE  Attached(u, k, u.pub_subs[k]) /\ IdlePaused(u, k, u.pub_subs[k])
  <2>1. CASE k \in DOMAIN s.pub_subs /\ u.pub_subs[k] = s.pub_subs[k]
    <3>1. Attached(s, k, s.pub_subs[k]) /\ IdlePaused(s, k, s.pub_subs[k])
      BY <2>1 DEF Good, GoodBut
    <3> QED BY <2>1, <3>1 DEF Attached, IdlePaused, SameBasis
  <2> QED BY <2>1
<1> QED BY <1>1, <1>2 DEF Good, GoodBut

\* What is in subscribe_active_ is in the other two maps.
LEMMA ActiveSubscribed ==
  ASSUME NEW s, SameSubscribes(s), NEW t \in Track, NEW c \in Client, NEW r \in Req,
         <<t, c, r>> \in s.sub_active
  PROVE  <<t, c>> \in DOMAIN s.subscribes /\ <<c, r>> \in DOMAIN s.alias_req
BY DEF SameSubscribes

\* What is in subscribes is in subscribe_active_.
LEMMA SubscribedActive ==
  ASSUME NEW s, SameSubscribes(s), NEW t \in Track, NEW c \in Client, NEW r \in Req,
         <<t, c>> \in DOMAIN s.subscribes, s.subscribes[<<t, c>>] = r
  PROVE  <<t, c, r>> \in s.sub_active
<1>1. <<t, c, r>> \in s.sub_active <=>
        <<t, c>> \in DOMAIN s.subscribes /\ s.subscribes[<<t, c>>] = r
  BY DEF SameSubscribes
<1> QED BY <1>1

\* PublishNamespaceReceived makes handlers for the subscribers that came first.
LEMMA PublishNamespaceGood ==
  ASSUME NEW C \in SUBSET Client, NEW s \in States(C), Good(s), NEW ns \in Prefix,
         NEW c \in C \cup {0}, NEW r \in Nat \cup Prefix,
         NEW u, u = PublishNamespaceReceived(s, c, r, ns)
  PROVE  u \in States(C) /\ Good(u)
<1> DEFINE N == Namespaces \X (C \cup {0})
           K == Track \X (C \cup {0})
           R == (Client \cup {0}) \X (Nat \cup Prefix)
           key == <<ns, c>>
           req == <<c, r>>
           reqs == Put(s.requests, req, ns)
           asked == [s EXCEPT !.requests = reqs]
           new == key \notin DOMAIN s.ns_active
           noted == IF new THEN [asked EXCEPT !.ns_active = Put(asked.ns_active, key, {})]
                    ELSE asked
           wanted == {t \in Track : \E x \in s.sub_active : x[1] = t}
           fresh == {t \in wanted : /\ HasSamePrefix(NameSpace[t], ns)
                                    /\ t \notin noted.ns_active[key]}
           Of(t) == Handler(FALSE, {x[2] : x \in {y \in s.sub_active : y[1] = t}})
           Q == fresh \X {c}
           active == [noted.ns_active EXCEPT ![key] = noted.ns_active[key] \cup fresh]
           subs == [k \in DOMAIN noted.pub_subs \cup Q |->
                      IF k \in Q THEN Of(k[1]) ELSE noted.pub_subs[k]]
           subscribed == [noted EXCEPT !.ns_active = active, !.pub_subs = subs]
<1>1. /\ s.requests \in Maps(R, Prefix) /\ s.ns_active \in Maps(N, SUBSET Track)
      /\ s.pub_subs \in Maps(K, Handlers(C))
      /\ s.sub_active \in SUBSET (Track \X C \X Req)
  BY DEF States
<1>2. reqs \in Maps(R, Prefix)
  <2>1. req \in R
    OBVIOUS
  <2> HIDE DEF req, R
  <2> QED BY <1>1, <2>1, PutMaps
<1> HIDE DEF reqs
<1>3. /\ asked \in States(C) /\ asked.ns_active = s.ns_active
      /\ asked.pub_subs = s.pub_subs /\ SameBasis(s, asked)
  BY <1>2 DEF States, SameBasis, R
<1> HIDE DEF asked
<1>4. /\ noted \in States(C) /\ noted.pub_subs = s.pub_subs /\ SameBasis(s, noted)
      /\ noted.ns_active \in Maps(N, SUBSET Track) /\ key \in DOMAIN noted.ns_active
  <2>1. CASE new
    <3> DEFINE e == {}
               more == Put(asked.ns_active, key, e)
    <3>1. key \in N /\ e \in SUBSET Track
      BY DEF Namespaces
    <3>2. more \in Maps(N, SUBSET Track) /\ IsPut(more, s.ns_active, {key}, e)
      <4> HIDE DEF key, e, N
      <4> QED BY <1>1, <1>3, <3>1, PutMaps
    <3>3. noted = [asked EXCEPT !.ns_active = more]
      BY <2>1
    <3> HIDE DEF more, noted
    <3>4. /\ noted \in States(C) /\ noted.pub_subs = s.pub_subs /\ SameBasis(s, noted)
          /\ noted.ns_active = more
      BY <1>3, <3>2, <3>3 DEF States, SameBasis, N
    <3> QED BY <3>2, <3>4 DEF IsPut
  <2>2. CASE ~ new
    <3>1. noted = asked
      BY <2>2
    <3> HIDE DEF noted
    <3> QED BY <1>1, <1>3, <2>2, <3>1
  <2> QED BY <2>1, <2>2
<1>5. Good(noted)
  <2> HIDE DEF noted
  <2> QED BY <1>4, GoodCarried
<1>6. u = IF c = 0 THEN noted
          ELSE IF new THEN ClientAnnounce(subscribed, ns) ELSE subscribed
  <2>1. subscribed = [noted EXCEPT
            !.ns_active[key] = @ \cup fresh,
            !.pub_subs = [k \in DOMAIN @ \cup Q |->
                            IF k \in Q THEN Of(k[1]) ELSE @[k]]]
    <3> HIDE DEF noted, fresh, Q, key
    <3> QED BY <1>4 DEF States
  <2> HIDE DEF subscribed
  <2> QED BY <2>1 DEF PublishNamespaceReceived, asked, reqs
<1> HIDE DEF noted
<1>7. CASE c = 0
  BY <1>4, <1>5, <1>6, <1>7
<1>8. CASE c # 0
  <2>1. c \in C
    BY <1>8
  <2>2. fresh \in SUBSET Track /\ IsFiniteSet(fresh)
    <3>1. fresh \in SUBSET Track
      OBVIOUS
    <3> HIDE DEF fresh
    <3> QED BY <3>1, ClientAssumption, FS_Subset
  <2>3. ASSUME NEW t \in fresh
        PROVE  /\ Of(t) \in Handlers(C) /\ Of(t).subs # {} /\ Of(t).initiated = FALSE
               /\ Of(t).nss = {} /\ Of(t).paused = FALSE
               /\ \A c1 \in Of(t).subs : c1 # 0 /\ <<t, c1>> \in DOMAIN s.subscribes
    <3> DEFINE cs == {x[2] : x \in {y \in s.sub_active : y[1] = t}}
    <3>1. cs \in SUBSET C
      BY <1>1
    <3>2. cs # {}
      OBVIOUS
    <3>3. ASSUME NEW c1 \in cs
          PROVE  c1 # 0 /\ <<t, c1>> \in DOMAIN s.subscribes
      <4>1. PICK y \in s.sub_active : y[1] = t /\ y[2] = c1
        OBVIOUS
      <4>2. y[3] \in Req /\ c1 \in Client /\ y = <<t, c1, y[3]>> /\ t \in Track
        BY <1>1, <4>1
      <4>3. SameSubscribes(s)
        BY DEF Good, GoodBut
      <4>4. <<t, c1>> \in DOMAIN s.subscribes
        <5> DEFINE r1 == y[3]
        <5>1. r1 \in Req /\ <<t, c1, r1>> \in s.sub_active
          BY <4>2
        <5> HIDE DEF r1
        <5> QED BY <4>2, <4>3, <5>1, ActiveSubscribed
      <4> QED BY <4>2, <4>4, ClientAssumption
    <3> HIDE DEF cs
    <3>4. /\ Handler(FALSE, cs) \in Handlers(C) /\ Handler(FALSE, cs).subs = cs
          /\ Handler(FALSE, cs).initiated = FALSE
          /\ Handler(FALSE, cs).nss = {} /\ Handler(FALSE, cs).paused = FALSE
      BY <3>1 DEF Handler, Handlers
    <3>5. Of(t) = Handler(FALSE, cs)
      BY DEF cs
    <3> HIDE DEF Of
    <3> QED BY <3>2, <3>3, <3>4, <3>5
  <2> HIDE DEF Of, fresh
  <2>4. active \in Maps(N, SUBSET Track)
    <3>1. noted.ns_active \in [DOMAIN noted.ns_active -> SUBSET Track]
      BY <1>4, MapsIs
    <3>2. DOMAIN active = DOMAIN noted.ns_active
          /\ active \in [DOMAIN noted.ns_active -> SUBSET Track]
      BY <1>4, <2>2, <3>1
    <3> HIDE DEF active, N
    <3> QED BY <1>4, <3>2, SameKeysMaps
  <2>5. IsFiniteSet(Q) /\ Q \in SUBSET K
    <3> DEFINE f == [t \in fresh |-> <<t, c>>]
    <3>1. Q = {f[t] : t \in fresh}
      OBVIOUS
    <3> HIDE DEF f
    <3>2. IsFiniteSet(Q)
      BY <2>2, <3>1, ImageFinite
    <3> QED BY <2>2, <3>2
  <2>6. s.pub_subs \in [DOMAIN s.pub_subs -> Handlers(C)] /\ DOMAIN s.pub_subs \in SUBSET K
        /\ IsFiniteSet(DOMAIN s.pub_subs)
    BY <1>1, MapsIs
  <2>7. /\ DOMAIN subs = DOMAIN s.pub_subs \cup Q
        /\ \A k \in DOMAIN subs \ Q : k \in DOMAIN s.pub_subs /\ subs[k] = s.pub_subs[k]
        /\ \A k \in DOMAIN subs : k \in Q => k[1] \in fresh /\ subs[k] = Of(k[1])
    BY <1>4
  <2>8. subs \in Maps(K, Handlers(C))
    <3>1. \A k \in DOMAIN subs : subs[k] \in Handlers(C)
      BY <2>3, <2>6, <2>7
    <3>2. subs \in [DOMAIN subs -> Handlers(C)]
      BY <3>1
    <3> HIDE DEF subs, Q
    <3>3. IsFiniteSet(DOMAIN subs)
      <4>1. IsFiniteSet(DOMAIN s.pub_subs \cup Q)
        BY <2>5, <2>6, FS_Union
      <4> QED BY <2>7, <4>1
    <3> QED BY <2>5, <2>6, <2>7, <3>2, <3>3, MapsIs
  <2> HIDE DEF subs, active
  <2>9. /\ subscribed \in States(C) /\ subscribed.pub_subs = subs
        /\ SameBasis(s, subscribed)
    BY <1>4, <2>4, <2>8 DEF States, SameBasis, N, K
  <2> HIDE DEF subscribed
  <2>10. ASSUME NEW k \in DOMAIN subs, k \in Q
         PROVE  Attached(subscribed, k, subs[k]) /\ IdlePaused(subscribed, k, subs[k])
    <3> DEFINE h == subs[k]
    <3>1. k[1] \in fresh /\ h = Of(k[1])
      BY <2>7, <2>10
    <3>2. /\ h.subs # {} /\ h.initiated = FALSE /\ h.nss = {} /\ h.paused = FALSE
          /\ \A c1 \in h.subs : c1 # 0 /\ <<k[1], c1>> \in DOMAIN s.subscribes
      BY <2>3, <3>1
    <3> HIDE DEF h
    <3> QED BY <2>9, <3>2 DEF Attached, IdlePaused, HasSubscribers, SameBasis, h
  <2>11. Good(subscribed)
    <3>1. \A k \in DOMAIN subscribed.pub_subs :
             \/ k \in DOMAIN s.pub_subs /\ subscribed.pub_subs[k] = s.pub_subs[k]
             \/ Attached(subscribed, k, subscribed.pub_subs[k])
                /\ IdlePaused(subscribed, k, subscribed.pub_subs[k])
      <4> HIDE DEF Q
      <4> QED BY <2>7, <2>9, <2>10
    <3> QED BY <2>9, <3>1, GoodCarried
  <2>12. CASE ~ new
    BY <1>6, <1>8, <2>9, <2>11, <2>12
  <2>13. CASE new
    <3> DEFINE X == {}
    <3>1. u = ClientAnnounce(subscribed, ns)
      BY <1>6, <1>8, <2>13
    <3>2. GoodBut(subscribed, X) /\ \A k \in X : NewlyMade(subscribed, k)
      BY <2>11 DEF Good
    <3> HIDE DEF X
    <3>3. Forwarded(subscribed, u, X, C)
      BY <2>9, <3>1, <3>2, ClientAnnounceGood
    <3> QED BY <3>3 DEF Forwarded, Good, X
  <2> QED BY <2>12, <2>13
<1> QED BY <1>7, <1>8

\* Erasing handlers and changing what is announced leaves a good state.
LEMMA ErasedGood ==
  ASSUME NEW C, NEW s \in States(C), Good(s), NEW keys,
         NEW active \in Maps(Namespaces \X (C \cup {0}), SUBSET Track),
         NEW u, u = [s EXCEPT !.pub_subs = Erase(s.pub_subs, keys), !.ns_active = active]
  PROVE  u \in States(C) /\ Good(u)
<1> DEFINE K == Track \X (C \cup {0})
           left == Erase(s.pub_subs, keys)
<1>1. s.pub_subs \in Maps(K, Handlers(C))
  BY DEF States
<1>2. DOMAIN s.pub_subs \in SUBSET K
  BY <1>1, MapsIs
<1> HIDE DEF K
<1>3. left \in Maps(K, Handlers(C)) /\ IsErase(left, s.pub_subs, keys)
  BY <1>1, <1>2, EraseMaps
<1> HIDE DEF left
<1>4. u = [s EXCEPT !.pub_subs = left, !.ns_active = active]
  BY DEF left
<1>5. u \in States(C) /\ u.pub_subs = left /\ SameBasis(s, u)
  BY <1>3, <1>4 DEF States, SameBasis, K
<1>6. \A k \in DOMAIN u.pub_subs :
         k \in DOMAIN s.pub_subs /\ u.pub_subs[k] = s.pub_subs[k]
  BY <1>3, <1>5 DEF IsErase
<1> QED BY <1>5, <1>6, GoodCarried

\* The end of a published namespace erases its handlers.
LEMMA PublishNamespaceDoneGood ==
  ASSUME NEW C, NEW s \in States(C), Good(s), NEW c, NEW r,
         NEW u, u = PublishNamespaceDoneReceived(s, c, r)
  PROVE  u \in States(C) /\ Good(u)
<1> DEFINE N == Namespaces \X (C \cup {0})
           ns == s.requests[<<c, r>>]
           key == <<ns, c>>
           tracks == IF key \in DOMAIN s.ns_active THEN s.ns_active[key] ELSE {}
           keys == tracks \X {c}
           active == Erase(s.ns_active, {key})
<1>1. CASE <<c, r>> \notin DOMAIN s.requests
  BY <1>1 DEF PublishNamespaceDoneReceived
<1>2. CASE <<c, r>> \in DOMAIN s.requests
  <2>1. u = [s EXCEPT !.pub_subs = Erase(s.pub_subs, keys), !.ns_active = active]
    BY <1>2 DEF PublishNamespaceDoneReceived
  <2>2. s.ns_active \in Maps(N, SUBSET Track)
    BY DEF States
  <2>3. active \in Maps(N, SUBSET Track)
    <3>1. DOMAIN s.ns_active \in SUBSET N
      BY <2>2, MapsIs
    <3> HIDE DEF N
    <3>2. DOMAIN s.ns_active \ {key} \in SUBSET N
      BY <3>1
    <3> QED BY <2>2, <3>2, EraseMaps
  <2> HIDE DEF keys, active
  <2> QED BY <2>1, <2>3, ErasedGood
<1> QED BY <1>1, <1>2

\* A loop of UnsubscribeReceived leaves a good state.
LEMMA UnsubscribeEachGood ==
  ASSUME NEW C \in SUBSET Client, NEW s \in States(C), Good(s),
         NEW D, IsFiniteSet(D), \A x \in D : x[1] \in C,
         NEW u, u = UnsubscribeEach(s, D)
  PROVE  /\ u \in States(C) /\ Good(u) /\ u.sub_ns = s.sub_ns
         /\ \A x \in D : <<x[1], x[2]>> \notin DOMAIN u.alias_req
         /\ DOMAIN u.alias_req \in SUBSET DOMAIN s.alias_req
<1> DEFINE P(a, T) == /\ Good(a) /\ a.sub_ns = s.sub_ns
                      /\ \A x \in T : <<x[1], x[2]>> \notin DOMAIN a.alias_req
                      /\ DOMAIN a.alias_req \in SUBSET DOMAIN s.alias_req
           G == [T \in SUBSET D |-> {a \in States(C) : P(a, T)}]
<1>1. s \in G[{}]
  OBVIOUS
<1>2. \A x \in D, T \in SUBSET D : x \notin T =>
         \A a \in G[T] : UnsubscribeReceived(a, x[1], x[2]) \in G[T \cup {x}]
  <2> SUFFICES ASSUME NEW x \in D, NEW T \in SUBSET D, NEW a \in G[T]
               PROVE  UnsubscribeReceived(a, x[1], x[2]) \in G[T \cup {x}]
    OBVIOUS
  <2> DEFINE c == x[1]
             r == x[2]
             b == UnsubscribeReceived(a, c, r)
  <2>1. a \in States(C) /\ P(a, T)
    OBVIOUS
  <2>2. c \in C
    OBVIOUS
  <2> HIDE DEF c, r, G
  <2>3. /\ b \in States(C) /\ Good(b) /\ b.sub_ns = a.sub_ns
        /\ DOMAIN b.alias_req = DOMAIN a.alias_req \ {<<c, r>>}
    BY <2>1, <2>2, UnsubscribeGood
  <2> HIDE DEF b
  <2>4. P(b, T \cup {x})
    BY <2>1, <2>3 DEF c, r
  <2>5. T \cup {x} \in SUBSET D
    OBVIOUS
  <2>6. b \in G[T \cup {x}]
    BY <2>3, <2>4, <2>5 DEF G
  <2> QED BY <2>6 DEF b, c, r
<1> HIDE DEF G
<1>3. u \in G[D]
  BY <1>1, <1>2, UnsubscribeEachKeeps
<1> QED BY <1>3 DEF G

\* The end of a published track erases its handler and, when it was the last one,
\* may end the subscriptions of the track.
LEMMA PublishDoneGood ==
  ASSUME NEW C \in SUBSET Client, NEW s \in States(C), Good(s), NEW c, NEW r,
         NEW u, u = PublishDoneReceived(s, c, r)
  PROVE  u \in States(C) /\ Good(u)
<1> DEFINE t == s.pub_by_req[<<r, c>>]
           keys == {<<t, c>>}
           gone == [s EXCEPT !.pub_subs = Erase(s.pub_subs, keys)]
           mine == {x \in DOMAIN s.subscribes : x[1] = t}
           f == [k \in mine |-> <<k[2], s.subscribes[k]>>]
           D == {f[k] : k \in mine}
           ends == IF KeysOf(gone, t) = {} /\ ~ DetachedSubs
                   THEN UnsubscribeEach(gone, D) ELSE gone
           left == Erase(ends.pub_by_req, {<<r, c>>})
<1>1. CASE <<r, c>> \notin DOMAIN s.pub_by_req
  BY <1>1 DEF PublishDoneReceived
<1>2. CASE <<r, c>> \in DOMAIN s.pub_by_req
  <2>1. D = {<<k[2], s.subscribes[k]>> : k \in mine}
    OBVIOUS
  <2>2. u = [ends EXCEPT !.pub_by_req = left]
    <3> HIDE DEF D
    <3> QED BY <1>2, <2>1 DEF PublishDoneReceived
  <2> HIDE DEF left
  <2>3. gone \in States(C) /\ Good(gone)
    <3>1. s.ns_active \in Maps(Namespaces \X (C \cup {0}), SUBSET Track)
      BY DEF States
    <3>2. gone = [s EXCEPT !.pub_subs = Erase(s.pub_subs, keys), !.ns_active = s.ns_active]
      BY DEF States
    <3> HIDE DEF gone, keys
    <3> QED BY <3>1, <3>2, ErasedGood
  <2> HIDE DEF gone
  <2>4. IsFiniteSet(DOMAIN s.subscribes) /\ DOMAIN s.subscribes \in SUBSET (Track \X C)
    <3>1. s.subscribes \in Maps(Track \X C, Req)
      BY DEF States
    <3> QED BY <3>1, MapsIs
  <2>5. IsFiniteSet(D)
    <3>1. IsFiniteSet(mine)
      BY <2>4, FS_Subset
    <3> HIDE DEF f, mine
    <3> QED BY <3>1, ImageFinite
  <2>6. \A x \in D : x[1] \in C
    <3> SUFFICES ASSUME NEW k \in mine PROVE f[k][1] \in C
      BY Zenon
    <3>1. f[k] = <<k[2], s.subscribes[k]>> /\ k \in Track \X C
      BY <2>4
    <3> QED BY <3>1
  <2> HIDE DEF D
  <2>7. ends \in States(C) /\ Good(ends)
    <3> DEFINE e == UnsubscribeEach(gone, D)
    <3>1. e \in States(C) /\ Good(e)
      BY <2>3, <2>5, <2>6, UnsubscribeEachGood
    <3> HIDE DEF e
    <3>2. ends = e \/ ends = gone
      BY DEF e
    <3> QED BY <2>3, <3>1, <3>2
  <2> HIDE DEF ends
  <2>8. left \in Maps(Nat \X Client, Track)
    <3>1. ends.pub_by_req \in Maps(Nat \X Client, Track)
      BY <2>7 DEF States
    <3>2. DOMAIN ends.pub_by_req \ {<<r, c>>} \in SUBSET (Nat \X Client)
      BY <3>1, MapsIs
    <3> QED BY <3>1, <3>2, EraseMaps DEF left
  <2>9. u \in States(C) /\ u.pub_subs = ends.pub_subs /\ SameBasis(ends, u)
    BY <2>2, <2>7, <2>8 DEF States, SameBasis
  <2> QED BY <2>7, <2>9, GoodCarried
<1> QED BY <1>1, <1>2

\* A subscribed namespace joins the handlers of the tracks in it.
LEMMA SubscribeNamespaceGood ==
  ASSUME NEW C \in SUBSET Client, NEW s \in States(C), Good(s), NEW c \in C,
         NEW ns \in Prefix, NEW u, u = SubscribeNamespaceReceived(s, c, ns)
  PROVE  u \in States(C) /\ Good(u)
<1> DEFINE K == Track \X (C \cup {0})
           x == <<ns, c>>
           xs == {x}
           P == s.pub_subs
           J(k) == (AllowSelf \/ k[2] # c) /\ IsPrefix(ns, NameSpace[k[1]])
           subs == [k \in DOMAIN P |-> IF J(k) THEN AddSubscribeNamespaces(P[k], xs)
                                       ELSE P[k]]
           more == s.sub_ns \cup xs
<1>1. u = [s EXCEPT !.sub_ns = more, !.pub_subs = subs]
  BY DEF SubscribeNamespaceReceived
<1>2. P \in Maps(K, Handlers(C)) /\ s.sub_ns \in SUBSET (Prefix \X C)
  BY DEF States
<1>3. P \in [DOMAIN P -> Handlers(C)]
  BY <1>2, MapsIs
<1>4. xs \in SUBSET (Prefix \X C) /\ more \in SUBSET (Prefix \X C)
  BY <1>2
<1>5. ASSUME NEW k \in DOMAIN P
      PROVE  /\ subs[k] \in Handlers(C)
             /\ ~ J(k) => subs[k] = P[k]
             /\ J(k) => /\ subs[k].subs = P[k].subs /\ subs[k].nss = P[k].nss \cup xs
                        /\ subs[k].initiated = P[k].initiated
                        /\ subs[k].paused = (P[k].paused /\ xs \subseteq P[k].nss)
  <2> DEFINE h == P[k]
             g == AddSubscribeNamespaces(h, xs)
  <2>1. h \in Handlers(C)
    BY <1>3
  <2>2. subs[k] = IF J(k) THEN g ELSE h
    OBVIOUS
  <2> HIDE DEF h, xs, subs
  <2>3. /\ g \in Handlers(C) /\ g.subs = h.subs /\ g.nss = h.nss \cup xs
        /\ g.initiated = h.initiated /\ g.paused = (h.paused /\ xs \subseteq h.nss)
    BY <1>4, <2>1, AddNamespacesHandler
  <2> HIDE DEF g, J
  <2> QED BY <2>1, <2>2, <2>3 DEF h
<1>6. subs \in Maps(K, Handlers(C)) /\ DOMAIN subs = DOMAIN P
  <2>1. DOMAIN subs = DOMAIN P /\ subs \in [DOMAIN P -> Handlers(C)]
    BY <1>5
  <2> HIDE DEF subs, K
  <2> QED BY <1>2, <2>1, SameKeysMaps
<1> HIDE DEF subs
<1>7. /\ u \in States(C) /\ u.pub_subs = subs /\ u.sub_ns = more
      /\ u.subscribes = s.subscribes /\ u.alias_req = s.alias_req
      /\ u.sub_active = s.sub_active /\ u.client_fib = s.client_fib
      /\ u.peer_subs = s.peer_subs
  BY <1>1, <1>4, <1>6 DEF States, K
<1>8. SameSubscribes(s) /\ \A k \in DOMAIN P : Attached(s, k, P[k]) /\ IdlePaused(s, k, P[k])
  BY DEF Good, GoodBut
<1>9. SameSubscribes(u)
  BY <1>7, <1>8, SameSubscribesKept
<1>10. ASSUME NEW k \in DOMAIN P
       PROVE  Attached(u, k, subs[k]) /\ IdlePaused(u, k, subs[k])
  <2> DEFINE h == P[k]
             g == subs[k]
  <2>1. Attached(s, k, h) /\ IdlePaused(s, k, h)
    BY <1>8
  <2>2. CASE ~ J(k)
    <3>1. g = h
      BY <1>5, <2>2
    <3> HIDE DEF g, h, J
    <3> QED BY <1>7, <2>1, <3>1 DEF Attached, IdlePaused, g
  <2>3. CASE J(k)
    <3>1. /\ g.subs = h.subs /\ g.nss = h.nss \cup xs /\ g.initiated = h.initiated
          /\ g.paused = (h.paused /\ xs \subseteq h.nss)
      BY <1>5, <2>3
    <3>2. HasSamePrefix(x[1], NameSpace[k[1]])
      BY <2>3 DEF HasSamePrefix
    <3> HIDE DEF g, h, J, x
    <3>3. HasSubscribers(g) /\ ~ g.paused
      BY <2>1, <3>1 DEF Attached, HasSubscribers
    <3> QED BY <1>7, <2>1, <3>1, <3>2, <3>3 DEF Attached, IdlePaused, g
  <2> QED BY <2>2, <2>3
<1> QED BY <1>6, <1>7, <1>9, <1>10 DEF Good, GoodBut

\* u is good and has the subscriptions of s; no handler has got a namespace, and
\* those of the keys have lost x.
LeftBy(s, u, keys, x, C) ==
    /\ u \in States(C) /\ Good(u)
    /\ u.sub_ns = s.sub_ns /\ u.alias_req = s.alias_req
    /\ DOMAIN u.pub_subs \in SUBSET DOMAIN s.pub_subs
    /\ \A k \in DOMAIN u.pub_subs :
          /\ u.pub_subs[k].nss \in SUBSET s.pub_subs[k].nss
          /\ k \in keys => x \notin u.pub_subs[k].nss

\* One round of UnsubscribeNamespaceReceived's loop.
LEMMA LeaveHandlerGood ==
  ASSUME NEW C, NEW s \in States(C), Good(s), NEW key, NEW x,
         NEW u, u = LeaveHandler(s, key, x)
  PROVE  LeftBy(s, u, {key}, x, C)
<1> DEFINE K == Track \X (C \cup {0})
           P == s.pub_subs
           t == key[1]
           h == P[key]
           g == [h EXCEPT !.nss = h.nss \ {x}]
           subs == [P EXCEPT ![key] = g]
           v == [s EXCEPT !.pub_subs = subs]
           left == RemoveOrPausePublisherSubscribe(v, t)
           bad == left.undefined \/ key \notin DOMAIN left.pub_subs
<1>1. CASE key \notin DOMAIN P
  <2>1. u = s
    BY <1>1 DEF LeaveHandler
  <2> QED BY <1>1, <2>1 DEF LeftBy
<1>2. CASE key \in DOMAIN P
  <2>1. u = [left EXCEPT !.undefined = bad]
    <3>1. [s EXCEPT !.pub_subs[key] = RemoveSubscribeNamespace(@, x)] = v
      BY DEF RemoveSubscribeNamespace, States
    <3> HIDE DEF v, t
    <3> QED BY <1>2, <3>1 DEF LeaveHandler, t
  <2>2. P \in Maps(K, Handlers(C))
    BY DEF States
  <2>3. P \in [DOMAIN P -> Handlers(C)] /\ DOMAIN P \in SUBSET K
    BY <2>2, MapsIs
  <2>4. t \in Track /\ h \in Handlers(C)
    BY <1>2, <2>3
  <2> HIDE DEF t, h
  <2>5. /\ g \in Handlers(C) /\ g.subs = h.subs /\ g.nss = h.nss \ {x}
        /\ g.initiated = h.initiated /\ g.paused = h.paused
    BY <2>4 DEF Handlers
  <2> HIDE DEF g
  <2>6. /\ DOMAIN subs = DOMAIN P /\ subs[key] = g
        /\ \A k \in DOMAIN P : k # key => subs[k] = P[k]
    BY <1>2
  <2>7. subs \in Maps(K, Handlers(C))
    <3>1. subs \in [DOMAIN P -> Handlers(C)]
      BY <1>2, <2>3, <2>5
    <3> HIDE DEF subs, K
    <3> QED BY <2>2, <2>6, <3>1, SameKeysMaps
  <2> HIDE DEF subs
  <2>8. v \in States(C) /\ v.pub_subs = subs /\ SameBasis(s, v)
    BY <2>7 DEF States, SameBasis, K
  <2> HIDE DEF v
  <2>9. /\ SameSubscribes(s)
        /\ \A k \in DOMAIN P : Attached(s, k, P[k]) /\ IdlePaused(s, k, P[k])
    BY DEF Good, GoodBut
  <2>10. SameSubscribes(v)
    BY <2>8, <2>9, SameSubscribesKept DEF SameBasis
  <2>11. ASSUME NEW k \in DOMAIN subs
         PROVE  Attached(v, k, subs[k]) /\ (k[1] # t => IdlePaused(v, k, subs[k]))
    <3>1. k \in DOMAIN P /\ Attached(s, k, P[k]) /\ IdlePaused(s, k, P[k])
      BY <2>6, <2>9
    <3>2. CASE k # key
      <4>1. subs[k] = P[k]
        BY <2>6, <3>1, <3>2
      <4> QED BY <2>8, <3>1, <4>1 DEF Attached, IdlePaused, SameBasis
    <3>3. CASE k = key
      <4>1. subs[k] = g /\ k[1] = t /\ Attached(s, k, h)
        BY <2>6, <3>1, <3>3 DEF h, t
      <4>2. g.paused => g.subs \subseteq {0} /\ g.nss = {}
        BY <2>5, <4>1 DEF Attached
      <4>3. Attached(v, k, g)
        BY <2>5, <2>8, <4>1, <4>2 DEF Attached, SameBasis
      <4> QED BY <4>1, <4>3
    <3> QED BY <3>2, <3>3
  <2>12. GoodButIdle(v, t)
    BY <2>8, <2>10, <2>11 DEF GoodButIdle
  <2>13. Tidied(v, left, C)
    BY <2>4, <2>8, <2>12, RemoveOrPauseGood
  <2>14. /\ left \in States(C) /\ Good(left)
         /\ left.sub_ns = s.sub_ns /\ left.alias_req = s.alias_req
         /\ DOMAIN left.pub_subs \in SUBSET DOMAIN P
         /\ \A k \in DOMAIN left.pub_subs : left.pub_subs[k].nss = subs[k].nss
    BY <2>6, <2>8, <2>13 DEF Tidied, SameBasis
  <2> HIDE DEF left
  <2>15. bad \in BOOLEAN
    BY <2>14 DEF States
  <2> HIDE DEF bad
  <2>16. u \in States(C) /\ u.pub_subs = left.pub_subs /\ SameBasis(left, u)
    BY <2>1, <2>14, <2>15 DEF States, SameBasis
  <2>17. Good(u)
    BY <2>14, <2>16, GoodCarried
  <2>18. ASSUME NEW k \in DOMAIN u.pub_subs
         PROVE  /\ u.pub_subs[k].nss \in SUBSET P[k].nss
                /\ k \in {key} => x \notin u.pub_subs[k].nss
    <3>1. u.pub_subs[k].nss = subs[k].nss /\ k \in DOMAIN P
      BY <2>14, <2>16
    <3>2. CASE k = key
      BY <2>5, <2>6, <3>1, <3>2 DEF h
    <3>3. CASE k # key
      BY <2>6, <3>1, <3>3
    <3> QED BY <3>2, <3>3
  <2> QED BY <2>14, <2>16, <2>17, <2>18 DEF LeftBy, SameBasis
<1> QED BY <1>1, <1>2

\* The loop as a whole.
LEMMA LeaveHandlersGood ==
  ASSUME NEW C, NEW s \in States(C), Good(s), NEW D, IsFiniteSet(D), NEW x,
         NEW u, u = LeaveHandlers(s, D, x)
  PROVE  LeftBy(s, u, D, x, C)
<1> DEFINE G == [T \in SUBSET D |-> {a \in States(C) : LeftBy(s, a, T, x, C)}]
<1>1. s \in G[{}]
  BY DEF LeftBy
<1>2. \A y \in D, T \in SUBSET D : y \notin T =>
         \A a \in G[T] : LeaveHandler(a, y, x) \in G[T \cup {y}]
  <2> SUFFICES ASSUME NEW y \in D, NEW T \in SUBSET D, NEW a \in G[T]
               PROVE  LeaveHandler(a, y, x) \in G[T \cup {y}]
    OBVIOUS
  <2> DEFINE b == LeaveHandler(a, y, x)
  <2>1. a \in States(C) /\ LeftBy(s, a, T, x, C)
    OBVIOUS
  <2> HIDE DEF G
  <2>2. LeftBy(a, b, {y}, x, C)
    <3>1. a \in States(C) /\ Good(a)
      BY <2>1 DEF LeftBy
    <3> QED BY <3>1, LeaveHandlerGood
  <2> HIDE DEF b
  <2>3. b \in States(C) /\ LeftBy(s, b, T \cup {y}, x, C)
    BY <2>1, <2>2 DEF LeftBy
  <2>4. T \cup {y} \in SUBSET D
    OBVIOUS
  <2>5. b \in G[T \cup {y}]
    BY <2>3, <2>4 DEF G
  <2> QED BY <2>5 DEF b
<1> HIDE DEF G
<1>3. u \in G[D]
  BY <1>1, <1>2, LeaveHandlersKeeps
<1> QED BY <1>3 DEF G

\* The end of a namespace subscription, which leaves the handlers of the loop.
LEMMA UnsubscribeNamespaceGood ==
  ASSUME NEW C \in SUBSET Client, NEW s \in States(C), Good(s), NEW c, NEW ns,
         NEW u, u = UnsubscribeNamespaceReceived(s, c, ns)
  PROVE  /\ u \in States(C) /\ Good(u)
         /\ u.sub_ns = s.sub_ns \ {<<ns, c>>} /\ u.alias_req = s.alias_req
<1> DEFINE x == <<ns, c>>
           D == {k \in DOMAIN s.pub_subs :
                    /\ AllowSelf \/ k[2] # c
                    /\ HasSamePrefix(ns, NameSpace[k[1]])}
           a == LeaveHandlers(s, D, x)
           less == a.sub_ns \ {x}
<1>1. CASE x \notin s.sub_ns
  <2>1. u = s
    BY <1>1 DEF UnsubscribeNamespaceReceived
  <2> QED BY <1>1, <2>1
<1>2. CASE x \in s.sub_ns
  <2>1. u = [a EXCEPT !.sub_ns = less]
    BY <1>2 DEF UnsubscribeNamespaceReceived
  <2>2. IsFiniteSet(D)
    <3>1. s.pub_subs \in Maps(Track \X (C \cup {0}), Handlers(C))
      BY DEF States
    <3>2. IsFiniteSet(DOMAIN s.pub_subs)
      BY <3>1, MapsIs
    <3> QED BY <3>2, FS_Subset
  <2>3. LeftBy(s, a, D, x, C)
    <3> HIDE DEF D, x
    <3> QED BY <2>2, LeaveHandlersGood
  <2> HIDE DEF a
  <2>4. /\ a \in States(C) /\ Good(a)
        /\ a.sub_ns = s.sub_ns /\ a.alias_req = s.alias_req
        /\ DOMAIN a.pub_subs \in SUBSET DOMAIN s.pub_subs
        /\ \A k \in DOMAIN a.pub_subs : k \in D => x \notin a.pub_subs[k].nss
    BY <2>3 DEF LeftBy
  <2>5. /\ u \in States(C) /\ u.pub_subs = a.pub_subs /\ u.sub_ns = less
        /\ u.subscribes = a.subscribes /\ u.alias_req = a.alias_req
        /\ u.sub_active = a.sub_active /\ u.client_fib = a.client_fib
        /\ u.peer_subs = a.peer_subs
    BY <2>1, <2>4 DEF States
  <2>6. /\ SameSubscribes(a)
        /\ \A k \in DOMAIN a.pub_subs :
             Attached(a, k, a.pub_subs[k]) /\ IdlePaused(a, k, a.pub_subs[k])
    BY <2>4 DEF Good, GoodBut
  <2>7. SameSubscribes(u)
    BY <2>5, <2>6, SameSubscribesKept
  <2>8. ASSUME NEW k \in DOMAIN a.pub_subs
        PROVE  Attached(u, k, a.pub_subs[k]) /\ IdlePaused(u, k, a.pub_subs[k])
    <3> DEFINE h == a.pub_subs[k]
    <3>1. Attached(a, k, h) /\ IdlePaused(a, k, h) /\ (k \in D => x \notin h.nss)
      BY <2>4, <2>6
    <3>2. x \in h.nss => k[2] = c /\ ~ AllowSelf
      <4> SUFFICES ASSUME x \in h.nss PROVE k[2] = c /\ ~ AllowSelf
        OBVIOUS
      <4>1. HasSamePrefix(ns, NameSpace[k[1]])
        <5>1. HasSamePrefix(x[1], NameSpace[k[1]])
          <6> HIDE DEF h, x
          <6> QED BY <3>1 DEF Attached
        <5> QED BY <5>1
      <4>2. k \in DOMAIN s.pub_subs /\ k \notin D
        BY <2>4, <3>1
      <4> QED BY <4>1, <4>2
    <3>3. x[2] = c
      OBVIOUS
    <3> HIDE DEF h, x, D
    <3>4. \A y \in h.nss : y \notin u.sub_ns => y[2] = k[2] /\ ~ AllowSelf
      BY <2>5, <3>1, <3>2, <3>3 DEF Attached
    <3>5. Attached(u, k, h)
      BY <2>5, <3>1, <3>4 DEF Attached
    <3>6. IdlePaused(u, k, h)
      BY <2>5, <3>1 DEF IdlePaused
    <3> QED BY <3>5, <3>6 DEF h
  <2>9. Good(u)
    BY <2>5, <2>7, <2>8 DEF Good, GoodBut
  <2> QED BY <2>4, <2>5, <2>9
<1> QED BY <1>1, <1>2

\* The subscriptions of a connection end.
LEMMA EndSubscriptionsGood ==
  ASSUME NEW C \in SUBSET Client, NEW s \in States(C), Good(s), NEW c \in C,
         NEW u, u = EndSubscriptions(s, c)
  PROVE  /\ u \in States(C) /\ Good(u)
         /\ \A x \in u.sub_ns : x[2] # c
         /\ \A k \in DOMAIN u.alias_req : k[1] # c
<1> DEFINE D == {x \in s.sub_ns : x[2] = c}
           left == UnsubscribeNamespaces(s, D)
           E == {k \in DOMAIN left.alias_req : k[1] = c}
           P(a, T) == Good(a) /\ a.sub_ns \in SUBSET (s.sub_ns \ T)
           G == [T \in SUBSET D |-> {a \in States(C) : P(a, T)}]
<1>1. D \in SUBSET (Prefix \X C) /\ IsFiniteSet(D)
  <2>1. D \in SUBSET (Prefix \X C)
    BY DEF States
  <2>2. IsFiniteSet(Client) /\ IsFiniteSet(Prefix)
    BY ClientAssumption
  <2>3. IsFiniteSet(C)
    BY <2>2, FS_Subset
  <2>4. IsFiniteSet(Prefix \X C)
    BY <2>2, <2>3, FS_Product
  <2> QED BY <2>1, <2>4, FS_Subset
<1>2. s \in G[{}]
  OBVIOUS
<1>3. \A x \in D, T \in SUBSET D : x \notin T =>
         \A a \in G[T] : UnsubscribeNamespaceReceived(a, x[2], x[1]) \in G[T \cup {x}]
  <2> SUFFICES ASSUME NEW x \in D, NEW T \in SUBSET D, NEW a \in G[T]
               PROVE  UnsubscribeNamespaceReceived(a, x[2], x[1]) \in G[T \cup {x}]
    OBVIOUS
  <2> DEFINE d == x[2]
             ns == x[1]
             b == UnsubscribeNamespaceReceived(a, d, ns)
  <2>1. a \in States(C) /\ P(a, T)
    OBVIOUS
  <2>2. x = <<ns, d>>
    BY <1>1
  <2> HIDE DEF d, ns, G, D
  <2>3. /\ b \in States(C) /\ Good(b)
        /\ b.sub_ns = a.sub_ns \ {<<ns, d>>} /\ b.alias_req = a.alias_req
    BY <2>1, UnsubscribeNamespaceGood
  <2> HIDE DEF b
  <2>4. P(b, T \cup {x})
    BY <2>1, <2>2, <2>3
  <2>5. T \cup {x} \in SUBSET D
    OBVIOUS
  <2>6. b \in G[T \cup {x}]
    BY <2>3, <2>4, <2>5 DEF G
  <2> QED BY <2>6 DEF b, d, ns
<1>4. left \in G[D]
  <2> HIDE DEF G, D
  <2> QED BY <1>1, <1>2, <1>3, UnsubscribeNamespacesKeeps
<1> HIDE DEF left
<1>5. left \in States(C) /\ Good(left) /\ left.sub_ns \in SUBSET (s.sub_ns \ D)
  BY <1>4
<1>6. left.alias_req \in Maps(C \X Req, Track)
  BY <1>5 DEF States
<1>7. DOMAIN left.alias_req \in SUBSET (C \X Req) /\ IsFiniteSet(DOMAIN left.alias_req)
  BY <1>6, MapsIs
<1>8. IsFiniteSet(E) /\ \A x \in E : x[1] \in C
  BY <1>7, FS_Subset
<1>9. u = UnsubscribeEach(left, E)
  BY DEF EndSubscriptions, left
<1>10. \A x \in E : x = <<x[1], x[2]>>
  BY <1>7
<1>11. \A k \in DOMAIN left.alias_req : k[1] = c => k \in E
  OBVIOUS
<1> HIDE DEF E, G
<1>12. /\ u \in States(C) /\ Good(u) /\ u.sub_ns = left.sub_ns
       /\ \A x \in E : <<x[1], x[2]>> \notin DOMAIN u.alias_req
       /\ DOMAIN u.alias_req \in SUBSET DOMAIN left.alias_req
  BY <1>5, <1>8, <1>9, UnsubscribeEachGood
<1>13. \A x \in u.sub_ns : x[2] # c
  BY <1>5, <1>12
<1>14. \A k \in DOMAIN u.alias_req : k[1] # c
  BY <1>10, <1>11, <1>12
<1> QED BY <1>12, <1>13, <1>14

\* After a connection is lost no map mentions it, but those of request ids.
LEMMA ConnectionLostGood ==
  ASSUME NEW C \in SUBSET Client, NEW s \in States(C), Good(s), NEW c \in C,
         NEW u, u = ConnectionLost(s, c)
  PROVE  u \in States(C \ {c}) /\ Good(u)
<1> DEFINE B == C \ {c}
           K == Track \X (C \cup {0})
           L == Track \X (B \cup {0})
           N == Namespaces \X (C \cup {0})
           M == Namespaces \X (B \cup {0})
           e == EndSubscriptions(s, c)
           subs == Erase(e.pub_subs, {k \in DOMAIN e.pub_subs : k[2] = c})
           active == Erase(e.ns_active, {k \in DOMAIN e.ns_active : k[2] = c})
<1>0. c # 0 /\ c \in Client
  BY ClientAssumption
<1>1. /\ e \in States(C) /\ Good(e)
      /\ \A x \in e.sub_ns : x[2] # c
      /\ \A k \in DOMAIN e.alias_req : k[1] # c
  BY EndSubscriptionsGood
<1> HIDE DEF e
<1>2. u = [e EXCEPT !.pub_subs = subs, !.ns_active = active]
  BY DEF ConnectionLost, e
<1>3. /\ e.pub_subs \in Maps(K, Handlers(C)) /\ e.ns_active \in Maps(N, SUBSET Track)
      /\ e.subscribes \in Maps(Track \X C, Req) /\ e.alias_req \in Maps(C \X Req, Track)
      /\ e.sub_active \in SUBSET (Track \X C \X Req) /\ e.sub_ns \in SUBSET (Prefix \X C)
  BY <1>1 DEF States
<1>4. /\ DOMAIN e.pub_subs \in SUBSET K /\ DOMAIN e.ns_active \in SUBSET N
      /\ DOMAIN e.subscribes \in SUBSET (Track \X C) /\ IsFiniteSet(DOMAIN e.subscribes)
      /\ DOMAIN e.alias_req \in SUBSET (C \X Req) /\ IsFiniteSet(DOMAIN e.alias_req)
      /\ e.subscribes \in [DOMAIN e.subscribes -> Req]
      /\ e.alias_req \in [DOMAIN e.alias_req -> Track]
      /\ e.pub_subs \in [DOMAIN e.pub_subs -> Handlers(C)]
  BY <1>3, MapsIs
<1>5. SameSubscribes(e) /\ \A k \in DOMAIN e.pub_subs : Attached(e, k, e.pub_subs[k])
  BY <1>1 DEF Good, GoodBut
<1>6. \A t \in Track, r \in Req : <<t, c, r>> \notin e.sub_active
  <2> SUFFICES ASSUME NEW t \in Track, NEW r \in Req, <<t, c, r>> \in e.sub_active
               PROVE  FALSE
    OBVIOUS
  <2>1. <<c, r>> \in DOMAIN e.alias_req
    BY <1>0, <1>5, ActiveSubscribed
  <2> QED BY <1>1, <2>1
<1>7. \A t \in Track : <<t, c>> \notin DOMAIN e.subscribes
  <2> SUFFICES ASSUME NEW t \in Track, <<t, c>> \in DOMAIN e.subscribes PROVE FALSE
    OBVIOUS
  <2> DEFINE r == e.subscribes[<<t, c>>]
  <2>1. r \in Req
    BY <1>4
  <2> HIDE DEF r
  <2>2. <<t, c, r>> \in e.sub_active
    <3>1. e.subscribes[<<t, c>>] = r
      BY DEF r
    <3> QED BY <1>0, <1>5, <2>1, <3>1, SubscribedActive
  <2> QED BY <1>6, <2>1, <2>2
<1>8. /\ e.sub_ns \in SUBSET (Prefix \X B) /\ DOMAIN e.alias_req \in SUBSET (B \X Req)
  BY <1>1, <1>3, <1>4
<1>9. DOMAIN e.subscribes \in SUBSET (Track \X B)
  BY <1>4, <1>7
<1>10. e.sub_active \in SUBSET (Track \X B \X Req)
  BY <1>3, <1>6
<1>11. e.subscribes \in Maps(Track \X B, Req) /\ e.alias_req \in Maps(B \X Req, Track)
  <2> HIDE DEF B
  <2> QED BY <1>4, <1>8, <1>9, MapsIs
<1>12. active \in Maps(M, SUBSET Track)
  <2>1. DOMAIN e.ns_active \ {k \in DOMAIN e.ns_active : k[2] = c} \in SUBSET M
    BY <1>4
  <2> HIDE DEF M, N
  <2> QED BY <1>3, <2>1, EraseMaps
<1>13. subs \in Maps(L, Handlers(C))
       /\ IsErase(subs, e.pub_subs, {k \in DOMAIN e.pub_subs : k[2] = c})
  <2>1. DOMAIN e.pub_subs \ {k \in DOMAIN e.pub_subs : k[2] = c} \in SUBSET L
    BY <1>4
  <2> HIDE DEF L, K
  <2> QED BY <1>3, <2>1, EraseMaps
<1> HIDE DEF subs, active
<1>14. \A k \in DOMAIN subs : k \in DOMAIN e.pub_subs /\ k[2] # c /\ subs[k] = e.pub_subs[k]
  BY <1>13 DEF IsErase
<1>15. ASSUME NEW k \in DOMAIN subs
       PROVE  subs[k] \in Handlers(B)
  <2> DEFINE h == subs[k]
  <2>1. h \in Handlers(C) /\ Attached(e, k, h) /\ k[2] # c /\ k[1] \in Track
    BY <1>4, <1>5, <1>14
  <2> HIDE DEF h
  <2>2. c \notin h.subs
    BY <1>0, <1>7, <2>1 DEF Attached
  <2>3. \A x \in h.nss : x[2] # c
    BY <1>1, <2>1 DEF Attached
  <2>4. h.subs \in SUBSET (B \cup {0}) /\ h.nss \in SUBSET (Prefix \X B)
    <3>1. h.subs \in SUBSET (C \cup {0}) /\ h.nss \in SUBSET (Prefix \X C)
      BY <2>1 DEF Handlers
    <3> QED BY <2>2, <2>3, <3>1
  <2> HIDE DEF B
  <2>5. h \in Handlers(B)
    BY <2>1, <2>4 DEF Handlers
  <2> QED BY <2>5 DEF h
<1>16. subs \in Maps(L, Handlers(B))
  <2>1. DOMAIN subs \in SUBSET L /\ IsFiniteSet(DOMAIN subs) /\ subs \in [DOMAIN subs -> Handlers(C)]
    <3> HIDE DEF L
    <3> QED BY <1>13, MapsIs
  <2> HIDE DEF L, B
  <2>2. subs \in [DOMAIN subs -> Handlers(B)]
    BY <1>15, <2>1
  <2> QED BY <2>1, <2>2, MapsIs
<1>17. u \in States(B)
  <2> HIDE DEF B
  <2> QED BY <1>1, <1>2, <1>8, <1>10, <1>11, <1>12, <1>16, StatesNarrowed DEF L, M
<1>18. u.pub_subs = subs /\ SameBasis(e, u)
  BY <1>1, <1>2 DEF States, SameBasis
<1>19. Good(u)
  BY <1>1, <1>14, <1>18, GoodCarried
<1> QED BY <1>17, <1>19

\* The best session to a node, which only decides what follows, changes.
LEMMA NodeReceivedGood ==
  ASSUME NEW C, NEW s \in States(C), Good(s), NEW n \in Node,
         NEW best \in Session \cup {NoSession},
         NEW u, u = [s EXCEPT !.nodes_best[n] = best]
  PROVE  u \in States(C) /\ Good(u)
<1> DEFINE nb == [s.nodes_best EXCEPT ![n] = best]
<1>1. nb \in [Node -> Session \cup {NoSession}]
  BY DEF States
<1>2. u = [s EXCEPT !.nodes_best = nb]
  BY DEF States
<1> HIDE DEF nb
<1>3. u \in States(C) /\ u.pub_subs = s.pub_subs /\ SameBasis(s, u)
  BY <1>1, <1>2 DEF States, SameBasis
<1> QED BY <1>3, GoodCarried

\* A subscription of another relay, served or only stored.
LEMMA PeerSubscribeGood ==
  ASSUME NEW C \in SUBSET Client, NEW s \in States(C), Good(s), NEW t \in Track,
         NEW n \in Node, NEW key \in Session,
         NEW v, v = Forward(s, t, n, key) \/ (v = s /\ KeysOf(s, t) = {}),
         NEW u, u = [v EXCEPT !.peer_subs = v.peer_subs \cup {<<t, n>>}]
  PROVE  u \in States(C) /\ Good(u)
<1> DEFINE X == {}
<1>1. /\ v \in States(C) /\ Good(v)
      /\ \A k \in DOMAIN v.pub_subs : k[1] = t => 0 \in v.pub_subs[k].subs
  <2>1. CASE v = Forward(s, t, n, key)
    <3>1. GoodBut(s, X) /\ \A k \in X : NewlyMade(s, k)
      BY DEF Good
    <3> HIDE DEF X
    <3>2. /\ Forwarded(s, v, X, C)
          /\ \A k \in DOMAIN v.pub_subs : k[1] = t => 0 \in v.pub_subs[k].subs
      BY <2>1, <3>1, ForwardGood
    <3> QED BY <3>2 DEF Forwarded, Good, X
  <2>2. CASE v = s /\ KeysOf(s, t) = {}
    BY <2>2 DEF KeysOf
  <2> QED BY <2>1, <2>2
<1> DEFINE more == v.peer_subs \cup {<<t, n>>}
<1>2. more \in SUBSET (Track \X Node)
  BY <1>1 DEF States
<1>3. \A t1 : t1 # t => (PeerWants(more, t1) <=> PeerWants(v.peer_subs, t1))
  BY DEF PeerWants
<1> HIDE DEF more
<1>4. u = [v EXCEPT !.peer_subs = more]
  BY DEF more
<1>5. /\ u \in States(C) /\ u.pub_subs = v.pub_subs /\ u.peer_subs = more
      /\ u.subscribes = v.subscribes /\ u.alias_req = v.alias_req
      /\ u.sub_active = v.sub_active /\ u.sub_ns = v.sub_ns /\ u.client_fib = v.client_fib
  BY <1>1, <1>2, <1>4 DEF States
<1>6. /\ SameSubscribes(v)
      /\ \A k \in DOMAIN v.pub_subs :
            Attached(v, k, v.pub_subs[k]) /\ IdlePaused(v, k, v.pub_subs[k])
  BY <1>1 DEF Good, GoodBut
<1>7. SameSubscribes(u)
  BY <1>5, <1>6, SameSubscribesKept
<1>8. ASSUME NEW k \in DOMAIN v.pub_subs
      PROVE  Attached(u, k, v.pub_subs[k]) /\ IdlePaused(u, k, v.pub_subs[k])
  <2> DEFINE h == v.pub_subs[k]
  <2>1. /\ Attached(v, k, h) /\ IdlePaused(v, k, h)
        /\ k[1] = t => 0 \in h.subs
        /\ k[1] # t => (PeerWants(u.peer_subs, k[1]) <=> PeerWants(v.peer_subs, k[1]))
    BY <1>1, <1>3, <1>5, <1>6
  <2> HIDE DEF h
  <2>2. Attached(u, k, h)
    BY <1>5, <2>1 DEF Attached
  <2>3. IdlePaused(u, k, h)
    BY <1>5, <2>1 DEF IdlePaused
  <2> QED BY <2>2, <2>3 DEF h
<1> QED BY <1>5, <1>7, <1>8 DEF Good, GoodBut

\* The end of a subscription of another relay: when the last entry of the track
\* goes (off), the peering side leaves the handlers.
LEMMA PeerUnsubscribeGood ==
  ASSUME NEW C \in SUBSET Client, NEW s \in States(C), Good(s), NEW t \in Track,
         NEW peers \in SUBSET s.peer_subs, NEW sns \in SUBSET s.sub_sns,
         NEW fib \in SUBSET s.client_fib, NEW off \in BOOLEAN,
         off => ~ Forwards(fib, t),
         \A t1 : t1 # t \/ ~ off => (Forwards(fib, t1) <=> Forwards(s.client_fib, t1)),
         NEW stored, stored = [s EXCEPT !.peer_subs = peers, !.sub_sns = sns,
                                        !.client_fib = fib],
         NEW v, v = IF off THEN PeerUnsubscribeTrack(stored, t) ELSE stored,
         NEW u, u = RemoveOrPausePublisherSubscribe(v, t)
  PROVE  u \in States(C) /\ Good(u)
<1> DEFINE K == Track \X (C \cup {0})
           P == s.pub_subs
           z == 0
           subs == [k \in DOMAIN P |-> IF off /\ k[1] = t
                                       THEN RemoveSubscriber(P[k], z) ELSE P[k]]
<1>1. /\ SameSubscribes(s)
      /\ \A k \in DOMAIN P : Attached(s, k, P[k]) /\ IdlePaused(s, k, P[k])
  BY DEF Good, GoodBut
<1>2. /\ stored \in States(C) /\ stored.pub_subs = P
      /\ stored.client_fib = fib /\ stored.peer_subs = peers /\ stored.sub_ns = s.sub_ns
      /\ stored.subscribes = s.subscribes /\ stored.alias_req = s.alias_req
      /\ stored.sub_active = s.sub_active
  <2>1. /\ peers \in SUBSET (Track \X Node) /\ sns \in SUBSET (Session \X Track \X Node)
        /\ fib \in SUBSET (Track \X Session)
    BY DEF States
  <2> QED BY <2>1 DEF States
<1>3. P \in Maps(K, Handlers(C))
  BY DEF States
<1>4. P \in [DOMAIN P -> Handlers(C)]
  BY <1>3, MapsIs
<1>5. v = [stored EXCEPT !.pub_subs = subs]
  <2>1. CASE off
    <3>1. v = [stored EXCEPT !.pub_subs =
                 [k \in DOMAIN P |-> IF k[1] = t THEN RemoveSubscriber(P[k], z) ELSE P[k]]]
      BY <1>2, <2>1 DEF PeerUnsubscribeTrack, UpdateHandlers
    <3>2. subs = [k \in DOMAIN P |-> IF k[1] = t THEN RemoveSubscriber(P[k], z) ELSE P[k]]
      BY <2>1
    <3> HIDE DEF subs
    <3> QED BY <3>1, <3>2
  <2>2. CASE ~ off
    <3>1. v = stored
      BY <2>2
    <3>2. subs = P
      BY <1>4, <2>2
    <3> HIDE DEF subs
    <3> QED BY <1>2, <3>1, <3>2 DEF States
  <2> QED BY <2>1, <2>2
<1>6. ASSUME NEW k \in DOMAIN P
      PROVE  /\ subs[k] \in Handlers(C)
             /\ ~ (off /\ k[1] = t) => subs[k] = P[k]
             /\ off /\ k[1] = t =>
                  /\ subs[k].subs = P[k].subs \ {0} /\ subs[k].nss = P[k].nss
                  /\ subs[k].initiated = P[k].initiated
                  /\ subs[k].paused = (P[k].paused \/ ~ HasSubscribers(subs[k]))
  <2> DEFINE h == P[k]
             g == RemoveSubscriber(h, z)
  <2>1. h \in Handlers(C)
    BY <1>4
  <2>2. subs[k] = IF off /\ k[1] = t THEN g ELSE h
    OBVIOUS
  <2> HIDE DEF h, subs, z
  <2>3. /\ g \in Handlers(C) /\ g.subs = h.subs \ {z} /\ g.nss = h.nss
        /\ g.initiated = h.initiated /\ g.paused = (h.paused \/ ~ HasSubscribers(g))
    BY <2>1, RemoveSubscriberHandler
  <2> HIDE DEF g
  <2> QED BY <2>1, <2>2, <2>3 DEF h, z
<1>7. DOMAIN subs = DOMAIN P /\ subs \in Maps(K, Handlers(C))
  <2>1. DOMAIN subs = DOMAIN P /\ subs \in [DOMAIN P -> Handlers(C)]
    BY <1>6
  <2> HIDE DEF subs, K
  <2> QED BY <1>3, <2>1, SameKeysMaps
<1> HIDE DEF subs
<1>8. /\ v \in States(C) /\ v.pub_subs = subs
      /\ v.client_fib = fib /\ v.peer_subs = peers /\ v.sub_ns = s.sub_ns
      /\ v.subscribes = s.subscribes /\ v.alias_req = s.alias_req
      /\ v.sub_active = s.sub_active
  <2>1. v \in States(C) /\ v.pub_subs = subs /\ SameBasis(stored, v)
    <3>1. v \in States(C)
      BY <1>2, <1>5, <1>7 DEF States, K
    <3>2. v.pub_subs = subs
      BY <1>2, <1>5, <1>7 DEF States, K
    <3>3. SameBasis(stored, v)
      BY <1>2, <1>5, <1>7 DEF States, SameBasis
    <3> QED BY <3>1, <3>2, <3>3
  <2> QED BY <1>2, <2>1 DEF SameBasis
<1>9. SameSubscribes(v)
  <2>1. /\ v.subscribes = s.subscribes /\ v.alias_req = s.alias_req
        /\ v.sub_active = s.sub_active
    BY <1>8
  <2> QED BY <1>1, <2>1, SameSubscribesKept
<1>10. \A t1 : PeerWants(peers, t1) => PeerWants(s.peer_subs, t1)
  BY DEF PeerWants
<1>11. ASSUME NEW k \in DOMAIN P
       PROVE  Attached(v, k, subs[k]) /\ (k[1] # t => IdlePaused(v, k, subs[k]))
  <2> DEFINE h == P[k]
             g == subs[k]
  <2>0. Attached(s, k, h) /\ IdlePaused(s, k, h)
    BY <1>1
  <2>1. CASE off /\ k[1] = t
    <3>1. /\ g.subs = h.subs \ {0} /\ g.nss = h.nss /\ g.initiated = h.initiated
          /\ g.paused = (h.paused \/ ~ HasSubscribers(g))
      BY <1>6, <2>1
    <3>2. ~ Forwards(v.client_fib, k[1])
      BY <1>8, <2>1
    <3> HIDE DEF g, h
    <3>3. g.paused => g.subs = {} /\ g.nss = {}
      BY <2>0, <3>1 DEF Attached, HasSubscribers
    <3>4. \A c1 \in Client : c1 # 0
      BY ClientAssumption
    <3>5. Attached(v, k, g)
      BY <1>8, <2>0, <3>1, <3>2, <3>3, <3>4 DEF Attached
    <3> QED BY <2>1, <3>5 DEF g
  <2>2. CASE ~ (off /\ k[1] = t)
    <3>1. /\ g = h /\ (Forwards(v.client_fib, k[1]) <=> Forwards(s.client_fib, k[1]))
          /\ PeerWants(v.peer_subs, k[1]) => PeerWants(s.peer_subs, k[1])
      BY <1>6, <1>8, <1>10, <2>2
    <3> HIDE DEF g, h
    <3>2. Attached(v, k, h) /\ IdlePaused(v, k, h)
      BY <1>8, <2>0, <3>1 DEF Attached, IdlePaused
    <3> QED BY <3>1, <3>2 DEF g
  <2> QED BY <2>1, <2>2
<1>12. GoodButIdle(v, t)
  BY <1>7, <1>8, <1>9, <1>11 DEF GoodButIdle
<1>13. Tidied(v, u, C)
  <2> HIDE DEF P, K
  <2> QED BY <1>8, <1>12, RemoveOrPauseGood
<1> QED BY <1>13 DEF Tidied

-----------------------------------------------------------------------------
(***************************************************************************)
(* The theorems                                                            *)
(***************************************************************************)

\* The inductive invariant.
IInv ==
    /\ conns \subseteq Client /\ announced \subseteq Track \cup Prefix
    /\ st \in States(conns) /\ Good(st)

\* A new State is good.
LEMMA EmptyGood == Good(Empty)
<1>1. /\ DOMAIN Empty.pub_subs = {} /\ DOMAIN Empty.subscribes = {}
      /\ DOMAIN Empty.alias_req = {} /\ Empty.sub_active = {}
  BY EmptyMaps DEF Empty
<1>2. SameSubscribes(Empty)
  <2> SUFFICES ASSUME NEW t \in Track, NEW c \in Client, NEW r \in Req
               PROVE  /\ <<t, c, r>> \in Empty.sub_active <=>
                           <<t, c>> \in DOMAIN Empty.subscribes /\ Empty.subscribes[<<t, c>>] = r
                      /\ <<t, c, r>> \in Empty.sub_active <=>
                           <<c, r>> \in DOMAIN Empty.alias_req /\ Empty.alias_req[<<c, r>>] = t
    BY Zenon DEF SameSubscribes
  <2> QED BY <1>1
<1> QED BY <1>1, <1>2 DEF Good, GoodBut

\* Whichever way a handler returns, what it made is the new state, or nothing is left.
LEMMA ReturnKeeps ==
  ASSUME IInv, NEW res \in States(conns), Good(res), Return(res)
  PROVE  IInv'
<1> DEFINE v == [res EXCEPT !.undefined = FALSE]
<1>1. v \in States(conns) /\ v.pub_subs = res.pub_subs /\ SameBasis(res, v)
  BY DEF States, SameBasis
<1> HIDE DEF v
<1>2. Good(v)
  BY <1>1, GoodCarried
<1>3. CASE st' = v /\ UNCHANGED <<conns, announced>>
  BY <1>1, <1>2, <1>3 DEF IInv
<1>4. CASE st' = Empty /\ conns' = {} /\ announced' = {}
  <2>1. Empty \in States(conns') /\ Good(Empty)
    BY EmptyState, EmptyGood
  <2> QED BY <1>4, <2>1 DEF IInv
<1> QED BY <1>3, <1>4 DEF Return, v

\* The request id that a client's next request takes.
LEMMA RequestId ==
  ASSUME NEW C, NEW s \in States(C), NEW c \in Client, NEW r, r = NextRequest(s, c),
         r <= MaxRequest[c]
  PROVE  r \in Req /\ r \in Nat /\ <<c, r>> \notin DOMAIN s.alias_req
<1>1. r \in Nat \ {0} /\ r \notin HeldRequests(s, c)
  BY NextRequestFresh
<1>2. r \in 1..MaxRequest[c]
  BY <1>1, ClientAssumption
<1>3. <<c, r>> \notin DOMAIN s.alias_req
  <2> SUFFICES ASSUME <<c, r>> \in DOMAIN s.alias_req PROVE FALSE
    OBVIOUS
  <2> DEFINE A == {x \in DOMAIN s.alias_req \cup DOMAIN s.requests : x[1] = c}
             k == <<c, r>>
  <2>1. k \in A /\ k[2] = r
    OBVIOUS
  <2> HIDE DEF A, k
  <2>2. r \in {y[2] : y \in A}
    BY <2>1
  <2> QED BY <1>1, <2>2 DEF HeldRequests, A
<1> QED BY <1>1, <1>2, <1>3 DEF Req

\* The requests of clients keep the invariant.
LEMMA RequestsKeep ==
  ASSUME IInv, NEW c \in Client
  PROVE  /\ \A t \in Track : (Subscribe(c, t) \/ Publish(c, t)) => IInv'
         /\ \A ns \in Prefix : (PublishNamespace(c, ns) \/ SubscribeNamespace(c, ns)) => IInv'
<1> DEFINE r == NextRequest(st, c)
           ok == c \in conns /\ r <= MaxRequest[c]
<1>1. conns \in SUBSET Client /\ st \in States(conns) /\ Good(st)
  BY DEF IInv
<1>2. ok => r \in Req /\ r \in Nat /\ <<c, r>> \notin DOMAIN st.alias_req
  BY <1>1, RequestId
<1> HIDE DEF r
<1>3. ASSUME NEW t \in Track, Subscribe(c, t) PROVE IInv'
  <2> DEFINE u == ProcessSubscribe(st, c, r, t)
             res == IF <<t, c>> \in DOMAIN st.subscribes THEN st ELSE u
  <2>1. ok /\ Return(res)
    BY <1>3 DEF Subscribe, Request, r
  <2>2. CASE <<t, c>> \in DOMAIN st.subscribes
    BY <1>1, <2>1, <2>2, ReturnKeeps
  <2>3. CASE <<t, c>> \notin DOMAIN st.subscribes
    <3>1. Recordable(st, c, r, t)
      BY <1>2, <2>1, <2>3 DEF Recordable
    <3>2. c \in conns /\ Return(u)
      BY <2>1, <2>3
    <3>3. u \in States(conns) /\ Good(u)
      BY <1>1, <3>1, <3>2, SubscribeGood
    <3> HIDE DEF u
    <3> QED BY <3>2, <3>3, ReturnKeeps
  <2> QED BY <2>2, <2>3
<1>4. ASSUME NEW t \in Track, Publish(c, t) PROVE IInv'
  <2> DEFINE u == PublishReceived(st, c, r, t)
  <2>1. ok /\ Return(u)
    BY <1>4 DEF Publish, Request, r
  <2>2. c \in conns \cup {0} /\ (c # 0 => r \in Nat)
    BY <1>2, <2>1
  <2>3. u \in States(conns) /\ Good(u)
    BY <1>1, <2>2, PublishGood
  <2> HIDE DEF u
  <2> QED BY <2>1, <2>3, ReturnKeeps
<1>5. ASSUME NEW ns \in Prefix, PublishNamespace(c, ns) PROVE IInv'
  <2> DEFINE u == PublishNamespaceReceived(st, c, r, ns)
  <2>1. ok /\ Return(u)
    BY <1>5 DEF PublishNamespace, Request, r
  <2>2. c \in conns \cup {0} /\ r \in Nat \cup Prefix
    BY <1>2, <2>1
  <2>3. u \in States(conns) /\ Good(u)
    BY <1>1, <2>2, PublishNamespaceGood
  <2> HIDE DEF u
  <2> QED BY <2>1, <2>3, ReturnKeeps
<1>6. ASSUME NEW ns \in Prefix, SubscribeNamespace(c, ns) PROVE IInv'
  <2> DEFINE u == SubscribeNamespaceReceived(st, c, ns)
  <2>1. ok /\ Return(u)
    BY <1>6 DEF SubscribeNamespace, Request, r
  <2>2. c \in conns
    BY <2>1
  <2>3. u \in States(conns) /\ Good(u)
    BY <1>1, <2>2, SubscribeNamespaceGood
  <2> HIDE DEF u
  <2> QED BY <2>1, <2>3, ReturnKeeps
<1> QED BY <1>3, <1>4, <1>5, <1>6

\* The ends of requests keep the invariant.
LEMMA EndsKeep ==
  ASSUME IInv, NEW c \in Client
  PROVE  /\ \A r : (Unsubscribe(c, r) \/ PublishDone(c, r) \/ PublishNamespaceDone(c, r)) => IInv'
         /\ \A ns \in Prefix : UnsubscribeNamespace(c, ns) => IInv'
         /\ \A t \in Track : SubscribeError(c, t) => IInv'
<1>1. conns \in SUBSET Client /\ st \in States(conns) /\ Good(st)
  BY DEF IInv
<1>2. ASSUME NEW r, Unsubscribe(c, r) PROVE IInv'
  <2> DEFINE u == UnsubscribeReceived(st, c, r)
  <2>1. c \in conns /\ Return(u)
    BY <1>2 DEF Unsubscribe
  <2>2. u \in States(conns) /\ Good(u)
    BY <1>1, <2>1, UnsubscribeGood
  <2> HIDE DEF u
  <2> QED BY <2>1, <2>2, ReturnKeeps
<1>3. ASSUME NEW r, PublishDone(c, r) PROVE IInv'
  <2> DEFINE u == PublishDoneReceived(st, c, r)
  <2>1. Return(u)
    BY <1>3 DEF PublishDone
  <2>2. u \in States(conns) /\ Good(u)
    BY <1>1, PublishDoneGood
  <2> HIDE DEF u
  <2> QED BY <2>1, <2>2, ReturnKeeps
<1>4. ASSUME NEW r, PublishNamespaceDone(c, r) PROVE IInv'
  <2> DEFINE u == PublishNamespaceDoneReceived(st, c, r)
  <2>1. Return(u)
    BY <1>4 DEF PublishNamespaceDone
  <2>2. u \in States(conns) /\ Good(u)
    BY <1>1, PublishNamespaceDoneGood
  <2> HIDE DEF u
  <2> QED BY <2>1, <2>2, ReturnKeeps
<1>5. ASSUME NEW ns \in Prefix, UnsubscribeNamespace(c, ns) PROVE IInv'
  <2> DEFINE u == UnsubscribeNamespaceReceived(st, c, ns)
  <2>1. Return(u)
    BY <1>5 DEF UnsubscribeNamespace
  <2>2. u \in States(conns) /\ Good(u)
    BY <1>1, UnsubscribeNamespaceGood
  <2> HIDE DEF u
  <2> QED BY <2>1, <2>2, ReturnKeeps
<1>6. ASSUME NEW t \in Track, SubscribeError(c, t) PROVE IInv'
  <2> DEFINE N == Namespaces \X (conns \cup {0})
             key == <<NameSpace[t], c>>
             old == IF key \in DOMAIN st.ns_active THEN st.ns_active[key] ELSE {}
             e == old \ {t}
             active == Put(st.ns_active, key, e)
             keys == {<<t, c>>}
             u == [st EXCEPT !.pub_subs = Erase(st.pub_subs, keys), !.ns_active = active]
  <2>1. <<t, c>> \in DOMAIN st.pub_subs
    BY <1>6 DEF SubscribeError
  <2>2. /\ st.pub_subs \in Maps(Track \X (conns \cup {0}), Handlers(conns))
        /\ st.ns_active \in Maps(N, SUBSET Track)
    BY <1>1 DEF States
  <2>3. /\ DOMAIN st.pub_subs \in SUBSET (Track \X (conns \cup {0}))
        /\ st.ns_active \in [DOMAIN st.ns_active -> SUBSET Track]
    BY <2>2, MapsIs
  <2>4. key \in N /\ e \in SUBSET Track
    BY <2>1, <2>3 DEF Namespaces
  <2>5. active \in Maps(N, SUBSET Track)
    <3> HIDE DEF key, e, N
    <3> QED BY <2>2, <2>4, PutMaps
  <2>6. Return(u)
    <3>1. u = [st EXCEPT !.ns_active = active, !.pub_subs = Erase(st.pub_subs, keys)]
      <4> HIDE DEF active, keys
      <4> QED BY <1>1 DEF States
    <3>2. Return([st EXCEPT !.ns_active = active, !.pub_subs = Erase(st.pub_subs, keys)])
      BY <1>6 DEF SubscribeError
    <3> HIDE DEF u, active, keys
    <3> QED BY <3>1, <3>2
  <2> HIDE DEF active, keys
  <2>7. u \in States(conns) /\ Good(u)
    BY <1>1, <2>5, ErasedGood
  <2> HIDE DEF u
  <2> QED BY <2>6, <2>7, ReturnKeeps
<1> QED BY <1>2, <1>3, <1>4, <1>5, <1>6

\* The loss of a connection keeps the invariant.
LEMMA DisconnectKeeps ==
  ASSUME IInv, NEW c \in Client, Disconnect(c)
  PROVE  IInv'
<1>1. conns \in SUBSET Client /\ st \in States(conns) /\ Good(st) /\ c \in conns
  BY DEF IInv, Disconnect
<1> DEFINE B == conns \ {c}
           res == ConnectionLost(st, c)
           v == [res EXCEPT !.undefined = FALSE]
<1>2. res \in States(B) /\ Good(res)
  BY <1>1, ConnectionLostGood
<1>3. \/ st' = v /\ conns' = B /\ UNCHANGED announced
      \/ st' = Empty /\ conns' = {} /\ announced' = {}
  BY DEF Disconnect
<1> HIDE DEF res, B
<1>4. v \in States(B) /\ v.pub_subs = res.pub_subs /\ SameBasis(res, v)
  BY <1>2 DEF States, SameBasis
<1> HIDE DEF v
<1>5. Good(v)
  BY <1>2, <1>4, GoodCarried
<1>6. CASE st' = v /\ conns' = B /\ UNCHANGED announced
  BY <1>1, <1>4, <1>5, <1>6 DEF IInv, B
<1>7. CASE st' = Empty /\ conns' = {} /\ announced' = {}
  <2>1. Empty \in States(conns') /\ Good(Empty)
    BY EmptyState, EmptyGood
  <2> QED BY <1>7, <2>1 DEF IInv
<1> QED BY <1>3, <1>6, <1>7

\* The calls of PeerManager keep the invariant.
LEMMA PeerCallsKeep ==
  ASSUME IInv
  PROVE  /\ \A s \in Session, t \in Track, n \in Node :
               (PeerSubscribe(s, t, n) \/ PeerUnsubscribe(s, t, n)) => IInv'
         /\ \A n \in Node, s \in Session \cup {NoSession} : NodeReceived(n, s) => IInv'
         /\ \A x \in Track \cup Prefix : (PeerAnnounce(x) \/ PeerUnannounce(x)) => IInv'
<1>1. /\ conns \in SUBSET Client /\ st \in States(conns) /\ Good(st)
      /\ announced \subseteq Track \cup Prefix
  BY DEF IInv
<1> DEFINE z == 0
<1>2. ASSUME NEW s \in Session, NEW t \in Track, NEW n \in Node, PeerSubscribe(s, t, n)
      PROVE  IInv'
  <2> DEFINE matches == \/ KeysOf(st, t) # {}
                        \/ \E x \in DOMAIN st.ns_active :
                              HasSamePrefix(x[1], NameSpace[t])
             v == IF matches THEN Forward(st, t, n, s) ELSE st
             u == [v EXCEPT !.peer_subs = v.peer_subs \cup {<<t, n>>}]
  <2>1. Return(u)
    BY <1>2 DEF PeerSubscribe
  <2>2. v = Forward(st, t, n, s) \/ (v = st /\ KeysOf(st, t) = {})
    OBVIOUS
  <2> HIDE DEF v
  <2>3. u \in States(conns) /\ Good(u)
    BY <1>1, <2>2, PeerSubscribeGood
  <2> HIDE DEF u
  <2> QED BY <2>1, <2>3, ReturnKeeps
<1>3. ASSUME NEW s \in Session, NEW t \in Track, NEW n \in Node, PeerUnsubscribe(s, t, n)
      PROVE  IInv'
  <2> DEFINE best == st.nodes_best[n]
             last == {x \in st.sub_sns : x[1] = best /\ x[2] = t} = {<<best, t, n>>}
             fib == IF last THEN st.client_fib \ {<<t, s>>} ELSE st.client_fib
             peers == st.peer_subs \ {<<t, n>>}
             sns == st.sub_sns \ {<<best, t, n>>}
             off == last /\ ~ Forwards(fib, t)
             stored == [st EXCEPT !.peer_subs = peers, !.sub_sns = sns, !.client_fib = fib]
             v == IF off THEN PeerUnsubscribeTrack(stored, t) ELSE stored
             u == RemoveOrPausePublisherSubscribe(v, t)
  <2>1. Return(u)
    BY <1>3 DEF PeerUnsubscribe
  <2>2. /\ peers \in SUBSET st.peer_subs /\ sns \in SUBSET st.sub_sns
        /\ fib \in SUBSET st.client_fib /\ off \in BOOLEAN /\ (off => ~ Forwards(fib, t))
    BY Zenon
  <2>3. ASSUME NEW t1, t1 # t \/ ~ off
        PROVE  Forwards(fib, t1) <=> Forwards(st.client_fib, t1)
    <3>1. CASE ~ last
      BY <3>1
    <3>2. CASE last /\ t1 # t
      <4>1. fib = st.client_fib \ {<<t, s>>}
        BY <3>2
      <4> QED BY <3>2, <4>1 DEF Forwards
    <3>3. CASE last /\ t1 = t
      <4>1. Forwards(fib, t)
        BY <2>3, <3>3
      <4> QED BY <2>2, <3>3, <4>1 DEF Forwards
    <3> QED BY <3>1, <3>2, <3>3
  <2> HIDE DEF peers, sns, fib, off
  <2>4. u \in States(conns) /\ Good(u)
    BY <1>1, <2>2, <2>3, PeerUnsubscribeGood
  <2> HIDE DEF u
  <2> QED BY <2>1, <2>4, ReturnKeeps
<1>6. ASSUME NEW n \in Node, NEW s \in Session \cup {NoSession}, NodeReceived(n, s)
      PROVE  IInv'
  <2> DEFINE u == [st EXCEPT !.nodes_best[n] = s]
  <2>1. Return(u)
    BY <1>6 DEF NodeReceived
  <2>2. u \in States(conns) /\ Good(u)
    BY <1>1, NodeReceivedGood
  <2> HIDE DEF u
  <2> QED BY <2>1, <2>2, ReturnKeeps
<1>4. ASSUME NEW x \in Track \cup Prefix, PeerAnnounce(x) PROVE IInv'
  <2> DEFINE p == PublishReceived(st, z, z, x)
             n == PublishNamespaceReceived(st, z, x, x)
  <2>1. /\ conns' = conns /\ announced' = announced \cup {x}
        /\ st' = IF x \in Track THEN p ELSE n
    BY <1>4 DEF PeerAnnounce
  <2>2. z \in conns \cup {0} /\ (z # 0 => z \in Nat)
    OBVIOUS
  <2> HIDE DEF z
  <2>3. x \in Track => p \in States(conns) /\ Good(p)
    BY <1>1, <2>2, PublishGood
  <2>4. x \notin Track => n \in States(conns) /\ Good(n)
    <3> SUFFICES ASSUME x \notin Track PROVE n \in States(conns) /\ Good(n)
      OBVIOUS
    <3>1. x \in Prefix /\ x \in Nat \cup Prefix
      OBVIOUS
    <3> QED BY <1>1, <2>2, <3>1, PublishNamespaceGood
  <2> HIDE DEF p, n
  <2>5. st' \in States(conns) /\ Good(st')
    BY <2>1, <2>3, <2>4
  <2> QED BY <1>1, <2>1, <2>5 DEF IInv
<1>5. ASSUME NEW x \in Track \cup Prefix, PeerUnannounce(x) PROVE IInv'
  <2> DEFINE p == PublishDoneReceived(st, z, z)
             n == PublishNamespaceDoneReceived(st, z, x)
  <2>1. /\ conns' = conns /\ announced' = announced \ {x}
        /\ st' = IF x \in Track THEN p ELSE n
    BY <1>5 DEF PeerUnannounce
  <2> HIDE DEF z
  <2>2. p \in States(conns) /\ Good(p)
    BY <1>1, PublishDoneGood
  <2>3. n \in States(conns) /\ Good(n)
    BY <1>1, PublishNamespaceDoneGood
  <2> HIDE DEF p, n
  <2>4. st' \in States(conns) /\ Good(st')
    BY <2>1, <2>2, <2>3
  <2> QED BY <1>1, <2>1, <2>4 DEF IInv
<1> QED BY <1>2, <1>3, <1>4, <1>5, <1>6

\* IInv is an invariant.
LEMMA Invariance == Spec => []IInv
<1>1. Init => IInv
  BY EmptyState, EmptyGood DEF Init, IInv
<1>2. IInv /\ [Next]_vars => IInv'
  <2> SUFFICES ASSUME IInv, [Next]_vars PROVE IInv'
    OBVIOUS
  <2>1. CASE UNCHANGED vars
    BY <2>1 DEF IInv, vars
  <2>2. ASSUME NEW c \in Client, NEW t \in Track,
               Subscribe(c, t) \/ Publish(c, t) \/ SubscribeError(c, t)
        PROVE  IInv'
    BY <2>2, RequestsKeep, EndsKeep
  <2>3. ASSUME NEW c \in Client, NEW r \in 1..MaxRequest[c],
               Unsubscribe(c, r) \/ PublishDone(c, r) \/ PublishNamespaceDone(c, r)
        PROVE  IInv'
    BY <2>3, EndsKeep
  <2>4. ASSUME NEW c \in Client, NEW ns \in Prefix,
               \/ PublishNamespace(c, ns) \/ SubscribeNamespace(c, ns)
               \/ UnsubscribeNamespace(c, ns)
        PROVE  IInv'
    BY <2>4, RequestsKeep, EndsKeep
  <2>5. ASSUME NEW c \in Client, Disconnect(c) PROVE IInv'
    BY <2>5, DisconnectKeeps
  <2>6. ASSUME NEW s \in Session, NEW t \in Track, NEW n \in Node,
               PeerSubscribe(s, t, n) \/ PeerUnsubscribe(s, t, n)
        PROVE  IInv'
    BY <2>6, PeerCallsKeep
  <2>8. ASSUME NEW n \in Node, NEW s \in Session \cup {NoSession}, NodeReceived(n, s)
        PROVE  IInv'
    BY <2>8, PeerCallsKeep
  <2>7. ASSUME NEW x \in Track \cup Prefix, PeerAnnounce(x) \/ PeerUnannounce(x) PROVE IInv'
    BY <2>7, PeerCallsKeep
  <2> QED BY <2>1, <2>2, <2>3, <2>4, <2>5, <2>6, <2>7, <2>8 DEF Next
<1> QED BY <1>1, <1>2, PTL DEF Spec

\* The keys and values of the maps in a state of the invariant.
LEMMA StateTypes ==
  ASSUME IInv
  PROVE  /\ conns \subseteq Client /\ st \in States(conns)
         /\ DOMAIN st.pub_subs \in SUBSET (Track \X (conns \cup {0}))
         /\ st.pub_subs \in [DOMAIN st.pub_subs -> Handlers(conns)]
         /\ DOMAIN st.ns_active \in SUBSET (Namespaces \X (conns \cup {0}))
         /\ DOMAIN st.subscribes \in SUBSET (Track \X conns)
         /\ st.subscribes \in [DOMAIN st.subscribes -> Req]
         /\ DOMAIN st.alias_req \in SUBSET (conns \X Req)
         /\ st.alias_req \in [DOMAIN st.alias_req -> Track]
         /\ st.sub_active \in SUBSET (Track \X conns \X Req)
         /\ st.sub_ns \in SUBSET (Prefix \X conns)
         /\ st.peer_subs \subseteq Track \X Node
         /\ st.nodes_best \in [Node -> Session \cup {NoSession}]
         /\ st.sub_sns \subseteq Session \X Track \X Node
         /\ st.client_fib \subseteq Track \X Session
<1>1. /\ st.pub_subs \in Maps(Track \X (conns \cup {0}), Handlers(conns))
      /\ st.ns_active \in Maps(Namespaces \X (conns \cup {0}), SUBSET Track)
      /\ st.subscribes \in Maps(Track \X conns, Req)
      /\ st.alias_req \in Maps(conns \X Req, Track)
      /\ st.sub_active \in SUBSET (Track \X conns \X Req)
      /\ st.sub_ns \in SUBSET (Prefix \X conns)
      /\ st.peer_subs \subseteq Track \X Node
      /\ st.nodes_best \in [Node -> Session \cup {NoSession}]
      /\ st.sub_sns \subseteq Session \X Track \X Node
      /\ st.client_fib \subseteq Track \X Session
  BY DEF IInv, States
<1>2. /\ DOMAIN st.pub_subs \in SUBSET (Track \X (conns \cup {0}))
      /\ st.pub_subs \in [DOMAIN st.pub_subs -> Handlers(conns)]
  BY <1>1, MapsIs
<1>3. DOMAIN st.ns_active \in SUBSET (Namespaces \X (conns \cup {0}))
  BY <1>1, MapsIs
<1>4. /\ DOMAIN st.subscribes \in SUBSET (Track \X conns)
      /\ st.subscribes \in [DOMAIN st.subscribes -> Req]
  BY <1>1, MapsIs
<1>5. /\ DOMAIN st.alias_req \in SUBSET (conns \X Req)
      /\ st.alias_req \in [DOMAIN st.alias_req -> Track]
  BY <1>1, MapsIs
<1> QED BY <1>1, <1>2, <1>3, <1>4, <1>5 DEF IInv

\* The handlers in a state of the invariant.
LEMMA StateHandlers ==
  ASSUME IInv, NEW k \in DOMAIN st.pub_subs
  PROVE  Attached(st, k, st.pub_subs[k]) /\ IdlePaused(st, k, st.pub_subs[k])
BY DEF IInv, Good, GoodBut

\* The maps of State have the types that state.h declares, for any number of
\* clients, tracks, namespaces and requests.
THEOREM ClientStateTypeOK == Spec => []TypeOK
<1>1. ASSUME IInv PROVE TypeOK
  <2> DEFINE Conn == Client \cup {0}
             H == [initiated : BOOLEAN, subs : SUBSET Conn,
                   nss : SUBSET (Prefix \X Client), paused : BOOLEAN]
  <2>1. conns \subseteq Client /\ announced \subseteq Track \cup Prefix
    BY <1>1 DEF IInv
  <2>2. DOMAIN st.pub_subs \subseteq Track \X Conn
    BY <1>1, <2>1, StateTypes
  <2>3. ASSUME NEW k \in DOMAIN st.pub_subs PROVE st.pub_subs[k] \in H
    <3> DEFINE h == st.pub_subs[k]
    <3>1. h \in Handlers(conns)
      BY <1>1, StateTypes
    <3> HIDE DEF h
    <3>2. h \in H
      BY <2>1, <3>1 DEF Handlers
    <3> QED BY <3>2 DEF h
  <2>4. DOMAIN st.subscribes \subseteq Track \X Client
    BY <1>1, <2>1, StateTypes
  <2>5. DOMAIN st.alias_req \subseteq Client \X Req
    BY <1>1, <2>1, StateTypes
  <2>6. st.sub_active \subseteq Track \X Client \X Req
    BY <1>1, <2>1, StateTypes
  <2>7. st.sub_ns \subseteq Prefix \X Client
    BY <1>1, <2>1, StateTypes
  <2>8. /\ st.peer_subs \subseteq Track \X Node
        /\ st.nodes_best \in [Node -> Session \cup {NoSession}]
        /\ st.sub_sns \subseteq Session \X Track \X Node
        /\ st.client_fib \subseteq Track \X Session
    BY <1>1, StateTypes
  <2> QED BY <2>1, <2>2, <2>3, <2>4, <2>5, <2>6, <2>7, <2>8 DEF TypeOK, Req
<1> QED BY <1>1, Invariance, PTL

\* The three maps of subscribes record the same subscriptions, whichever handler
\* (unsubscribe, publish done, disconnection) removes them.
THEOREM ClientStateSubscribeIndexes == Spec => []SubscribeIndexes
<1>1. ASSUME IInv PROVE SubscribeIndexes
  <2> DEFINE byTrack == {<<k[1], k[2], st.subscribes[k]>> : k \in DOMAIN st.subscribes}
             byReq == {<<st.alias_req[k], k[1], k[2]>> : k \in DOMAIN st.alias_req}
  <2>0. SameSubscribes(st) /\ conns \subseteq Client
    BY <1>1 DEF IInv, Good, GoodBut
  <2>1. ASSUME NEW k \in DOMAIN st.subscribes
        PROVE  <<k[1], k[2], st.subscribes[k]>> \in st.sub_active
    <3> DEFINE t == k[1]
               c == k[2]
               r == st.subscribes[k]
    <3>1. t \in Track /\ c \in Client /\ r \in Req /\ k = <<t, c>>
      BY <1>1, <2>0, StateTypes
    <3> HIDE DEF t, c
    <3>2. <<t, c>> \in DOMAIN st.subscribes /\ st.subscribes[<<t, c>>] = r
      BY <3>1
    <3> HIDE DEF r
    <3>3. <<t, c, r>> \in st.sub_active
      BY <2>0, <3>1, <3>2, SubscribedActive
    <3> QED BY <3>3 DEF t, c, r
  <2>2. ASSUME NEW k \in DOMAIN st.alias_req
        PROVE  <<st.alias_req[k], k[1], k[2]>> \in st.sub_active
    <3> DEFINE t == st.alias_req[k]
               c == k[1]
               r == k[2]
    <3>1. t \in Track /\ c \in Client /\ r \in Req /\ k = <<c, r>>
      BY <1>1, <2>0, StateTypes
    <3> HIDE DEF c, r
    <3>2. <<c, r>> \in DOMAIN st.alias_req /\ st.alias_req[<<c, r>>] = t
      BY <3>1
    <3> HIDE DEF t
    <3>3. <<t, c, r>> \in st.sub_active <=>
            <<c, r>> \in DOMAIN st.alias_req /\ st.alias_req[<<c, r>>] = t
      BY <2>0, <3>1 DEF SameSubscribes
    <3>4. <<t, c, r>> \in st.sub_active
      BY <3>2, <3>3
    <3> QED BY <3>4 DEF t, c, r
  <2>3. ASSUME NEW x \in st.sub_active
        PROVE  x \in byTrack /\ x \in byReq
    <3> DEFINE t == x[1]
               c == x[2]
               r == x[3]
    <3>1. t \in Track /\ c \in Client /\ r \in Req /\ x = <<t, c, r>>
      BY <1>1, <2>0, StateTypes
    <3> HIDE DEF t, c, r
    <3>2. /\ <<t, c, r>> \in st.sub_active <=>
               <<t, c>> \in DOMAIN st.subscribes /\ st.subscribes[<<t, c>>] = r
          /\ <<t, c, r>> \in st.sub_active <=>
               <<c, r>> \in DOMAIN st.alias_req /\ st.alias_req[<<c, r>>] = t
      BY <2>0, <3>1 DEF SameSubscribes
    <3>3. /\ <<t, c>> \in DOMAIN st.subscribes /\ st.subscribes[<<t, c>>] = r
          /\ <<c, r>> \in DOMAIN st.alias_req /\ st.alias_req[<<c, r>>] = t
      BY <3>1, <3>2
    <3> DEFINE k == <<t, c>>
               l == <<c, r>>
    <3>4. /\ k \in DOMAIN st.subscribes /\ k[1] = t /\ k[2] = c /\ st.subscribes[k] = r
          /\ l \in DOMAIN st.alias_req /\ l[1] = c /\ l[2] = r /\ st.alias_req[l] = t
      BY <3>3
    <3> HIDE DEF k, l
    <3> QED BY <3>1, <3>4
  <2>4. byTrack \subseteq st.sub_active
    BY <2>1
  <2>5. byReq \subseteq st.sub_active
    BY <2>2
  <2>6. st.sub_active \subseteq byTrack /\ st.sub_active \subseteq byReq
    BY <2>3
  <2>7. byTrack = st.sub_active /\ byReq = st.sub_active
    <3> HIDE DEF byTrack, byReq
    <3> QED BY <2>4, <2>5, <2>6
  <2> QED BY <2>7 DEF SubscribeIndexes
<1> QED BY <1>1, Invariance, PTL

\* Handlers of publishers have the subscribers that subscribe to their track and,
\* for published tracks, all of them, in whichever order they came.
THEOREM ClientStateFanoutIsSubscribers == Spec => []FanoutIsSubscribers
<1>1. ASSUME IInv PROVE FanoutIsSubscribers
  <2> SUFFICES ASSUME NEW k \in DOMAIN st.pub_subs
               PROVE  LET h == st.pub_subs[k]
                          clients == {x[2] : x \in {y \in DOMAIN st.subscribes : y[1] = k[1]}}
                      IN  /\ h.subs \ {0} \subseteq clients
                          /\ h.initiated => clients \subseteq h.subs
                          /\ \A x \in h.nss \ st.sub_ns : x[2] = k[2] /\ ~ AllowSelf
    BY Zenon DEF FanoutIsSubscribers
  <2> DEFINE h == st.pub_subs[k]
             clients == {x[2] : x \in {y \in DOMAIN st.subscribes : y[1] = k[1]}}
  <2>1. Attached(st, k, h)
    BY <1>1, StateHandlers
  <2>2. \A c : c \in clients <=> <<k[1], c>> \in DOMAIN st.subscribes
    <3>1. \A y \in DOMAIN st.subscribes : y = <<y[1], y[2]>>
      BY <1>1, StateTypes
    <3>2. ASSUME NEW c \in clients PROVE <<k[1], c>> \in DOMAIN st.subscribes
      BY <3>1
    <3>3. ASSUME NEW c, <<k[1], c>> \in DOMAIN st.subscribes PROVE c \in clients
      <4> DEFINE y == <<k[1], c>>
      <4>1. y \in DOMAIN st.subscribes /\ y[1] = k[1] /\ y[2] = c
        BY <3>3
      <4> HIDE DEF y
      <4> QED BY <4>1
    <3> QED BY <3>2, <3>3
  <2>3. \A c \in clients : c \in Client
    <3>1. \A y \in DOMAIN st.subscribes : y[2] \in conns
      BY <1>1, StateTypes
    <3>2. conns \subseteq Client
      BY <1>1, StateTypes
    <3> QED BY <3>1, <3>2
  <2> HIDE DEF h, clients
  <2>4. /\ h.subs \ {0} \subseteq clients
        /\ h.initiated => clients \subseteq h.subs
        /\ \A x \in h.nss \ st.sub_ns : x[2] = k[2] /\ ~ AllowSelf
    BY <2>1, <2>2, <2>3 DEF Attached
  <2> QED BY <2>4 DEF h, clients
<1> QED BY <1>1, Invariance, PTL

\* No client waits at a paused publisher, nor does the peering side if the track
\* is forwarded, and an idle publisher is paused unless a forwarding entry keeps
\* it running.
THEOREM ClientStatePausedIffIdle == Spec => []PausedIffIdle
<1>1. ASSUME IInv PROVE PausedIffIdle
  <2> SUFFICES ASSUME NEW k \in DOMAIN st.pub_subs
               PROVE  LET h == st.pub_subs[k]
                          forwarded == Forwards(st.client_fib, k[1])
                      IN  /\ h.paused => h.subs \subseteq {0} /\ h.nss = {}
                          /\ h.paused /\ forwarded => h.subs = {}
                          /\ ~ HasSubscribers(h) => h.paused \/ forwarded
    BY Zenon DEF PausedIffIdle
  <2> DEFINE h == st.pub_subs[k]
  <2>1. Attached(st, k, h) /\ IdlePaused(st, k, h)
    BY <1>1, StateHandlers
  <2> HIDE DEF h
  <2>2. /\ h.paused => h.subs \subseteq {0} /\ h.nss = {}
        /\ h.paused /\ Forwards(st.client_fib, k[1]) => h.subs = {}
        /\ ~ HasSubscribers(h) => h.paused \/ Forwards(st.client_fib, k[1])
    BY <2>1 DEF Attached, IdlePaused
  <2> QED BY <2>2 DEF h
<1> QED BY <1>1, Invariance, PTL

\* After ConnectionStatusChanged has dealt with a lost connection, none of the
\* maps, handlers or subscriptions mentions it.
THEOREM ClientStateNoTraceOfClosed == Spec => []NoTraceOfClosed
<1>1. ASSUME IInv PROVE NoTraceOfClosed
  <2> SUFFICES ASSUME NEW c \in Client \ conns
               PROVE  /\ \A k \in DOMAIN st.pub_subs :
                            /\ k[2] # c /\ c \notin st.pub_subs[k].subs
                            /\ \A x \in st.pub_subs[k].nss : x[2] # c
                      /\ \A k \in DOMAIN st.ns_active : k[2] # c
                      /\ \A k \in DOMAIN st.subscribes : k[2] # c
                      /\ \A x \in st.sub_active : x[2] # c
                      /\ \A x \in st.sub_ns : x[2] # c
    BY DEF NoTraceOfClosed
  <2>1. c \notin conns \cup {0}
    BY ClientAssumption
  <2>2. ASSUME NEW k \in DOMAIN st.pub_subs
        PROVE  /\ k[2] # c /\ c \notin st.pub_subs[k].subs
               /\ \A x \in st.pub_subs[k].nss : x[2] # c
    <3>1. k \in Track \X (conns \cup {0}) /\ st.pub_subs[k] \in Handlers(conns)
      BY <1>1, StateTypes
    <3>2. k[2] # c
      BY <2>1, <3>1
    <3>3. /\ st.pub_subs[k].subs \in SUBSET (conns \cup {0})
          /\ st.pub_subs[k].nss \in SUBSET (Prefix \X conns)
      BY <3>1 DEF Handlers
    <3> QED BY <2>1, <3>2, <3>3
  <2>3. \A k \in DOMAIN st.ns_active : k[2] # c
    BY <1>1, <2>1, StateTypes
  <2>4. \A k \in DOMAIN st.subscribes : k[2] # c
    BY <1>1, <2>1, StateTypes
  <2>5. \A x \in st.sub_active : x[2] # c
    BY <1>1, <2>1, StateTypes
  <2>6. \A x \in st.sub_ns : x[2] # c
    BY <1>1, <2>1, StateTypes
  <2> QED BY <2>2, <2>3, <2>4, <2>5, <2>6
<1> QED BY <1>1, Invariance, PTL

\* While another relay subscribes to a track that is forwarded, the peering side is
\* attached to every client that publishes the track, none of which is paused,
\* whichever of route, subscription and publisher came first.
THEOREM ClientStatePeersServed == Spec => []PeersServed
<1>1. ASSUME IInv PROVE PeersServed
  <2> SUFFICES ASSUME NEW k \in DOMAIN st.pub_subs, st.pub_subs[k].initiated, k[2] # 0,
                      Forwards(st.client_fib, k[1]),
                      \E n \in Node : <<k[1], n>> \in st.peer_subs
               PROVE  0 \in st.pub_subs[k].subs /\ ~ st.pub_subs[k].paused
    BY Zenon DEF PeersServed
  <2> DEFINE h == st.pub_subs[k]
  <2>1. Attached(st, k, h) /\ h.initiated
    BY <1>1, StateHandlers
  <2>2. PeerWants(st.peer_subs, k[1])
    BY DEF PeerWants
  <2> HIDE DEF h
  <2>3. 0 \in h.subs /\ ~ h.paused
    BY <2>1, <2>2 DEF Attached
  <2> QED BY <2>3 DEF h
<1> QED BY <1>1, Invariance, PTL
=============================================================================
