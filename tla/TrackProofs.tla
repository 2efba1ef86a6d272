---------------------------- MODULE TrackProofs ------------------------------
(***************************************************************************)
(* What TrackRanking and the namespace handlers keep, for every number of  *)
(* tracks, subscribers, properties and values.                             *)
(*                                                                         *)
(* The inductive invariant is the type of every map, the soundness of      *)
(* flat_track_list_ and the status of the selected tracks.  The list needs *)
(* that a rebuild puts every track of the property at one place; the       *)
(* statuses need that publishing one more track can only push a track out  *)
(* of the selection, never into it.                                        *)
(*                                                                         *)
(* The second part is about FetchControl: whatever is cached, expires or   *)
(* is cancelled meanwhile, a fetch from the cache answers with the objects *)
(* of its range, in order and once.                                        *)
(***************************************************************************)
EXTENDS TrackRanking, FetchControl, FiniteSetTheorems, SequenceTheorems,
        WellFoundedInduction, TLAPS

Entry == [alias : Track, tick : 0..MaxTick]

OrderedType(ordered) ==
    /\ DOMAIN ordered \subseteq Property \X Track
    /\ \A k \in DOMAIN ordered :
          ordered[k] \in [value : Value, seq : 0..(2 * Half), tick : 0..MaxTick]

RankType(r) ==
    /\ r.seq \in 0..MaxUpdate
    /\ OrderedType(r.ordered)
    /\ r.flat \in Seq(Entry)

HandlersType(h) ==
    /\ DOMAIN h \subseteq Subscriber
    /\ \A c \in DOMAIN h :
          /\ DOMAIN h[c] \subseteq Track
          /\ \A t \in DOMAIN h[c] : h[c][t] \in {"ok", "paused"}

\* FlatSound, as a property of a list and of the buckets.
Sound(flat, ordered) ==
    \A i \in DOMAIN flat :
        /\ \A j \in DOMAIN flat : flat[i].alias = flat[j].alias => i = j
        /\ \E k \in DOMAIN ordered :
              k[2] = flat[i].alias /\ ordered[k].tick = flat[i].tick

Types ==
    /\ now \in 0..MaxTick
    /\ published \subseteq Track
    /\ feeds \subseteq published
    /\ RankType(rank)
    /\ HandlersType(handlers)

IInv == Types /\ Sound(rank.flat, rank.ordered) /\ TopIsRunning

-----------------------------------------------------------------------------
(***************************************************************************)
(* The rebuilt list                                                        *)
(***************************************************************************)

Ranked(ordered, p) == {t \in Track : <<p, t>> \in DOMAIN ordered}

InFront(ordered, p, t) == {u \in Ranked(ordered, p) : Precedes(ordered, p, u, t)}

\* Precedes orders the tracks of a property: the sort in UpdateValue has one
\* result.
LEMMA PrecedesOrder ==
  ASSUME NEW ordered, OrderedType(ordered), NEW p,
         NEW R, R = Ranked(ordered, p)
  PROVE  /\ \A a \in R : ~ Precedes(ordered, p, a, a)
         /\ \A a, b \in R : a # b => Precedes(ordered, p, a, b)
                                     \/ Precedes(ordered, p, b, a)
         /\ \A a, b, c \in R : Precedes(ordered, p, a, b) /\ Precedes(ordered, p, b, c)
                                 => Precedes(ordered, p, a, c)
<1>1. \A a \in R : /\ a \in Nat
                   /\ ordered[<<p, a>>].value \in Nat
                   /\ ordered[<<p, a>>].seq \in Int
  <2> SUFFICES ASSUME NEW a \in R
               PROVE  /\ a \in Nat
                      /\ ordered[<<p, a>>].value \in Nat
                      /\ ordered[<<p, a>>].seq \in Int
    OBVIOUS
  <2>1. a \in Track /\ <<p, a>> \in DOMAIN ordered
    BY DEF Ranked
  <2>2. /\ ordered[<<p, a>>].value \in Value
        /\ ordered[<<p, a>>].seq \in 0..(2 * Half)
    BY <2>1 DEF OrderedType
  <2>3. Half \in Int
    BY RankingAssumption DEF Half
  <2>4. ordered[<<p, a>>].seq \in Int
    BY <2>2, <2>3
  <2>5. ordered[<<p, a>>].value \in Nat
    BY <2>2, RankingAssumption
  <2>6. a \in Nat
    BY <2>1, RankingAssumption
  <2> QED BY <2>4, <2>5, <2>6
<1> QED BY <1>1 DEF Precedes

\* Every place of the rebuilt list has a track: the number of tracks in front
\* of a track is an injection into 0..Cardinality - 1, so it is onto.
LEMMA PlaceTaken ==
  ASSUME NEW ordered, OrderedType(ordered), NEW p,
         NEW i \in 1..Cardinality(Ranked(ordered, p))
  PROVE  \E t \in Ranked(ordered, p) : Cardinality(InFront(ordered, p, t)) = i - 1
<1> DEFINE R == Ranked(ordered, p)
           Ahead(t) == InFront(ordered, p, t)
           c == Cardinality(R)
           T == 0..(c - 1)
           f == [t \in R |-> Cardinality(Ahead(t))]
<1>1. IsFiniteSet(R)
  <2>1. R \in SUBSET Track
    BY DEF Ranked
  <2> QED BY <2>1, RankingAssumption, FS_Subset
<1>2. c \in Nat /\ c # 0
  BY <1>1, FS_CardinalityType
<1>3. ASSUME NEW t \in R
      PROVE  IsFiniteSet(Ahead(t)) /\ Cardinality(Ahead(t)) \in T
  <2>1. Ahead(t) \in SUBSET R
    BY DEF InFront
  <2>2. t \notin Ahead(t)
    BY PrecedesOrder DEF InFront
  <2> HIDE DEF Ahead
  <2>3. IsFiniteSet(Ahead(t)) /\ Cardinality(Ahead(t)) <= c
        /\ (c = Cardinality(Ahead(t)) => R = Ahead(t))
    BY <1>1, <2>1, FS_Subset
  <2>4. Cardinality(Ahead(t)) \in Nat
    BY <2>3, FS_CardinalityType
  <2> QED BY <1>2, <2>2, <2>3, <2>4
<1>4. ASSUME NEW a \in R, NEW b \in R, Precedes(ordered, p, a, b)
      PROVE  Cardinality(Ahead(a)) # Cardinality(Ahead(b))
  <2>1. Ahead(a) \in SUBSET Ahead(b)
    BY <1>4, PrecedesOrder DEF InFront
  <2>2. a \in Ahead(b) /\ a \notin Ahead(a)
    BY <1>4, PrecedesOrder DEF InFront
  <2>3. IsFiniteSet(Ahead(b))
    BY <1>3
  <2> HIDE DEF Ahead
  <2> QED BY <2>1, <2>2, <2>3, FS_Subset
<1>5. f \in Injection(R, T)
  <2>1. f \in [R -> T]
    BY <1>3
  <2>2. \A a, b \in R : f[a] = f[b] => a = b
    BY <1>4, PrecedesOrder
  <2> HIDE DEF f, T
  <2> QED BY <2>1, <2>2 DEF Injection, IsInjective
<1>6. IsFiniteSet(T) /\ Cardinality(T) = c
  <2>1. 0 \in Int /\ c - 1 \in Int /\ ~ (0 > c - 1) /\ (c - 1) - 0 + 1 = c
    BY <1>2
  <2> HIDE DEF c
  <2> QED BY <2>1, FS_Interval
<1>7. f \in Surjection(R, T)
  <2> HIDE DEF f, T
  <2> QED BY <1>1, <1>5, <1>6, FS_Injection
<1>8. i - 1 \in T
  BY <1>2
<1>9. PICK t \in R : f[t] = i - 1
  <2> HIDE DEF f, T
  <2> QED BY <1>7, <1>8 DEF Surjection
<1> QED BY <1>9

\* A rebuild yields a sound list: no track twice, and each with its own tick.
LEMMA RebuiltSound ==
  ASSUME NEW ordered, OrderedType(ordered), NEW p
  PROVE  /\ Rebuilt(ordered, p) \in Seq(Entry)
         /\ Sound(Rebuilt(ordered, p), ordered)
<1> DEFINE R == Ranked(ordered, p)
           Ahead(t) == Cardinality(InFront(ordered, p, t))
           Placed(i) == CHOOSE t \in R : Ahead(t) = i - 1
           c == Cardinality(R)
           flat == Rebuilt(ordered, p)
<1>1. flat = [i \in 1..c |-> [alias |-> Placed(i), tick |-> ordered[<<p, Placed(i)>>].tick]]
  BY DEF Rebuilt, Ranked, InFront
<1>2. IsFiniteSet(R) /\ R \subseteq Track
  <2>1. R \in SUBSET Track
    BY DEF Ranked
  <2> QED BY <2>1, RankingAssumption, FS_Subset
<1>3. c \in Nat
  BY <1>2, FS_CardinalityType
<1>4. \A i \in 1..c : Placed(i) \in R /\ Ahead(Placed(i)) = i - 1
  <2> SUFFICES ASSUME NEW i \in 1..c PROVE \E t \in R : Ahead(t) = i - 1
    OBVIOUS
  <2> QED BY PlaceTaken
<1>5. \A t \in R : /\ <<p, t>> \in DOMAIN ordered
                   /\ ordered[<<p, t>>].tick \in 0..MaxTick
  BY DEF OrderedType, Ranked
<1> HIDE DEF R, Ahead, Placed, c, flat
<1>6. flat \in Seq(Entry)
  <2>1. \A i \in 1..c : flat[i] \in Entry
    BY <1>1, <1>2, <1>4, <1>5 DEF Entry
  <2> QED BY <1>1, <1>3, <2>1
<1>7. Sound(flat, ordered)
  <2> SUFFICES ASSUME NEW i \in 1..c
               PROVE  /\ \A j \in 1..c : flat[i].alias = flat[j].alias => i = j
                      /\ \E k \in DOMAIN ordered :
                            k[2] = flat[i].alias /\ ordered[k].tick = flat[i].tick
    BY <1>1 DEF Sound
  <2>1. \A j \in 1..c : flat[j].alias = Placed(j)
    BY <1>1
  <2>2. ASSUME NEW j \in 1..c, Placed(i) = Placed(j) PROVE i = j
    <3>1. i - 1 = j - 1
      BY <1>4, <2>2
    <3> QED BY <1>3, <3>1
  <2>3. /\ <<p, Placed(i)>> \in DOMAIN ordered
        /\ <<p, Placed(i)>>[2] = flat[i].alias
        /\ ordered[<<p, Placed(i)>>].tick = flat[i].tick
    BY <1>1, <1>4, <1>5
  <2> QED BY <2>1, <2>2, <2>3
<1> QED BY <1>6, <1>7 DEF flat

-----------------------------------------------------------------------------
(***************************************************************************)
(* UpdateValue                                                             *)
(***************************************************************************)
\* An update keeps the buckets in their types and the list sound, whether it
\* rebuilds the list or updates it in place.
LEMMA UpdateValueResult ==
  ASSUME NEW r, RankType(r), Sound(r.flat, r.ordered), r.seq < MaxUpdate,
         now \in 0..MaxTick,
         NEW t \in Track, NEW p \in Property, NEW v \in Value
  PROVE  LET u == UpdateValue(r, t, p, v)
         IN  RankType(u) /\ Sound(u.flat, u.ordered) /\ u.seq = r.seq + 1
<1> DEFINE key      == <<p, t>>
           n        == r.seq + 1
           known    == key \in DOMAIN r.ordered
           old      == r.ordered[key]
           moved    == known /\ old.value # v
           left     == moved /\ Bucket(r.ordered, p, old.value) # {t}
           inserted == Bucket(r.ordered, p, v) = {}
           entry    == IF known /\ ~ moved THEN [old EXCEPT !.tick = now]
                       ELSE [value |-> v, tick |-> now,
                             seq |-> IF moved /\ old.value > v THEN Half - n
                                     ELSE Half + n]
           put      == [k \in DOMAIN r.ordered \cup {key} |->
                           IF k = key THEN entry ELSE r.ordered[k]]
           stale    == {k \in DOMAIN put : now - put[k].tick > InactiveAge}
           ordered  == Restrict(put, DOMAIN put \ stale)
           inplace  == [i \in DOMAIN r.flat |->
                           IF r.flat[i].alias = t
                           THEN [r.flat[i] EXCEPT !.tick = now] ELSE r.flat[i]]
           u        == UpdateValue(r, t, p, v)
           Cell     == [value : Value, seq : 0..(2 * Half), tick : 0..MaxTick]
<1>1. /\ u.ordered = ordered
      /\ u.seq = n
      /\ u.flat = IF left \/ inserted \/ stale # {} THEN Rebuilt(ordered, p) ELSE inplace
  BY DEF UpdateValue
<1>2. /\ n \in 1..MaxUpdate /\ MaxUpdate \in Nat /\ Half = MaxUpdate + 1
      /\ MaxTick \in Nat /\ now \in Nat
  BY RankingAssumption DEF RankType, Half
<1>3. entry \in Cell /\ entry.tick = now
  <2>1. CASE known /\ ~ moved
    <3>1. old \in Cell
      BY <2>1 DEF RankType, OrderedType
    <3>2. entry = [old EXCEPT !.tick = now]
      BY <2>1
    <3> HIDE DEF entry, old
    <3> QED BY <3>1, <3>2
  <2>2. CASE ~ (known /\ ~ moved)
    <3>1. Half - n \in 0..(2 * Half) /\ Half + n \in 0..(2 * Half)
      BY <1>2
    <3> HIDE DEF moved, known
    <3> QED BY <2>2, <3>1
  <2> QED BY <2>1, <2>2
<1> HIDE DEF entry
<1>4. /\ DOMAIN put = DOMAIN r.ordered \cup {key}
      /\ put[key] = entry
      /\ \A k \in DOMAIN r.ordered : k # key => put[k] = r.ordered[k]
  OBVIOUS
<1>5. OrderedType(put)
  <2>1. DOMAIN put \subseteq Property \X Track
    BY <1>4 DEF RankType, OrderedType
  <2>2. \A k \in DOMAIN put : put[k] \in Cell
    BY <1>3, <1>4 DEF RankType, OrderedType
  <2> QED BY <2>1, <2>2 DEF OrderedType
<1> HIDE DEF put
<1>6. /\ DOMAIN ordered = DOMAIN put \ stale
      /\ \A k \in DOMAIN ordered : ordered[k] = put[k]
  BY DEF Restrict
<1>7. OrderedType(ordered)
  BY <1>5, <1>6 DEF OrderedType
<1> HIDE DEF ordered, stale, left, inserted, u
<1>8. CASE left \/ inserted \/ stale # {}
  <2>1. Rebuilt(ordered, p) \in Seq(Entry) /\ Sound(Rebuilt(ordered, p), ordered)
    BY <1>7, RebuiltSound
  <2>2. u.flat = Rebuilt(ordered, p)
    BY <1>1, <1>8
  <2> QED BY <1>1, <1>2, <1>7, <2>1, <2>2 DEF RankType, u
<1>9. CASE ~ (left \/ inserted \/ stale # {})
  <2>1. u.flat = inplace /\ DOMAIN ordered = DOMAIN r.ordered \cup {key}
    BY <1>1, <1>4, <1>6, <1>9
  <2>2. r.flat \in Seq(Entry)
    BY DEF RankType
  <2>3. /\ DOMAIN inplace = DOMAIN r.flat
        /\ \A i \in DOMAIN r.flat :
              /\ inplace[i] \in Entry
              /\ inplace[i].alias = r.flat[i].alias
              /\ inplace[i].tick = IF r.flat[i].alias = t THEN now ELSE r.flat[i].tick
    <3>1. \A i \in DOMAIN r.flat : r.flat[i] \in Entry
      BY <2>2
    <3> QED BY <3>1 DEF Entry
  <2> HIDE DEF inplace
  <2>4. inplace \in Seq(Entry)
    <3>1. DOMAIN r.flat = 1..Len(r.flat) /\ Len(r.flat) \in Nat
      BY <2>2
    <3>2. inplace = [i \in 1..Len(r.flat) |-> inplace[i]]
      BY <2>3, <3>1 DEF inplace
    <3>3. \A i \in 1..Len(r.flat) : inplace[i] \in Entry
      BY <2>3, <3>1
    <3> HIDE DEF inplace
    <3> QED BY <3>1, <3>2, <3>3
  <2>5. Sound(inplace, ordered)
    <3> SUFFICES ASSUME NEW i \in DOMAIN r.flat
                 PROVE  /\ \A j \in DOMAIN r.flat :
                              inplace[i].alias = inplace[j].alias => i = j
                        /\ \E k \in DOMAIN ordered :
                              /\ k[2] = inplace[i].alias
                              /\ ordered[k].tick = inplace[i].tick
      BY <2>3 DEF Sound
    <3>1. \A j \in DOMAIN r.flat : inplace[i].alias = inplace[j].alias => i = j
      BY <2>3 DEF Sound
    <3>2. CASE r.flat[i].alias = t
      <4>1. key \in DOMAIN ordered /\ key[2] = t /\ ordered[key].tick = now
        BY <1>3, <1>4, <1>6, <2>1
      <4>2. inplace[i].alias = t /\ inplace[i].tick = now
        BY <2>3, <3>2
      <4> HIDE DEF key
      <4> QED BY <3>1, <4>1, <4>2
    <3>3. CASE r.flat[i].alias # t
      <4>1. PICK k \in DOMAIN r.ordered :
                k[2] = r.flat[i].alias /\ r.ordered[k].tick = r.flat[i].tick
        BY DEF Sound
      <4>2. k # key
        BY <3>3, <4>1
      <4>3. k \in DOMAIN ordered /\ ordered[k] = r.ordered[k]
        BY <1>4, <1>6, <2>1, <4>2
      <4>4. inplace[i].alias = r.flat[i].alias /\ inplace[i].tick = r.flat[i].tick
        BY <2>3, <3>3
      <4> QED BY <3>1, <4>1, <4>3, <4>4
    <3> QED BY <3>2, <3>3
  <2> QED BY <1>1, <1>2, <1>7, <2>1, <2>4, <2>5 DEF RankType, u
<1> QED BY <1>8, <1>9

-----------------------------------------------------------------------------
(***************************************************************************)
(* The selection                                                           *)
(***************************************************************************)
Mine(flat, c, pub) ==
    {i \in DOMAIN flat : Publisher[flat[i].alias] # c /\ flat[i].alias \in DOMAIN pub}

UpTo(flat, c, pub, i) == {j \in Mine(flat, c, pub) : j <= i}

Top(flat, c, pub) ==
    {i \in Mine(flat, c, pub) : Cardinality(UpTo(flat, c, pub, i)) <= MaxSelected}

\* The selection in these terms.
LEMMA SelectedDef ==
  ASSUME NEW flat, NEW c, NEW pub
  PROVE  Selected(flat, c, pub) = {flat[i].alias : i \in Top(flat, c, pub)}
BY DEF Selected, Top, UpTo, Mine

\* The loop of UpdateTrackRanking counts a finite number of places.
LEMMA MineFinite ==
  ASSUME NEW flat \in Seq(Entry), NEW c, NEW pub
  PROVE  /\ IsFiniteSet(Mine(flat, c, pub)) /\ Mine(flat, c, pub) \subseteq Nat
         /\ \A i : /\ IsFiniteSet(UpTo(flat, c, pub, i))
                   /\ Cardinality(UpTo(flat, c, pub, i)) \in Nat
<1>1. Len(flat) \in Nat /\ DOMAIN flat = 1..Len(flat)
  OBVIOUS
<1>2. IsFiniteSet(1..Len(flat))
  BY <1>1, FS_Interval
<1>3. Mine(flat, c, pub) \in SUBSET (1..Len(flat))
  BY <1>1 DEF Mine
<1>4. IsFiniteSet(Mine(flat, c, pub))
  BY <1>2, <1>3, FS_Subset
<1>5. ASSUME NEW i PROVE IsFiniteSet(UpTo(flat, c, pub, i))
  <2>1. UpTo(flat, c, pub, i) \in SUBSET Mine(flat, c, pub)
    BY DEF UpTo
  <2> QED BY <1>4, <2>1, FS_Subset
<1>6. Mine(flat, c, pub) \subseteq Nat
  BY <1>1, <1>3
<1> QED BY <1>4, <1>5, <1>6, FS_CardinalityType

\* One more published track only pushes tracks out of the selection.
LEMMA SelectedShrinks ==
  ASSUME NEW flat \in Seq(Entry), NEW c, NEW pub, NEW pub2,
         DOMAIN pub \subseteq DOMAIN pub2
  PROVE  \A t \in Selected(flat, c, pub2) :
            t \in DOMAIN pub => t \in Selected(flat, c, pub)
<1> SUFFICES ASSUME NEW i \in Top(flat, c, pub2), flat[i].alias \in DOMAIN pub
             PROVE  i \in Top(flat, c, pub)
  BY SelectedDef
<1>1. i \in Mine(flat, c, pub)
  BY DEF Top, Mine
<1>2. UpTo(flat, c, pub, i) \in SUBSET UpTo(flat, c, pub2, i)
  BY DEF UpTo, Mine
<1>3. Cardinality(UpTo(flat, c, pub, i)) <= Cardinality(UpTo(flat, c, pub2, i))
  BY <1>2, MineFinite, FS_Subset
<1>4. Cardinality(UpTo(flat, c, pub2, i)) <= MaxSelected
  BY DEF Top
<1>5. /\ Cardinality(UpTo(flat, c, pub, i)) \in Nat
      /\ Cardinality(UpTo(flat, c, pub2, i)) \in Nat /\ MaxSelected \in Nat
  BY MineFinite, RankingAssumption
<1>6. Cardinality(UpTo(flat, c, pub, i)) <= MaxSelected
  BY <1>3, <1>4, <1>5
<1> QED BY <1>1, <1>6 DEF Top

\* The selection has at most MaxSelected tracks: the count at a selected place
\* is an injection into 1..MaxSelected.
LEMMA SelectedBound ==
  ASSUME NEW flat \in Seq(Entry), NEW c, NEW pub
  PROVE  /\ IsFiniteSet(Selected(flat, c, pub))
         /\ Cardinality(Selected(flat, c, pub)) <= MaxSelected
         /\ Cardinality(Selected(flat, c, pub)) \in Nat
<1> DEFINE J == Top(flat, c, pub)
           Count(i) == Cardinality(UpTo(flat, c, pub, i))
           f == [i \in J |-> Count(i)]
           T == 1..MaxSelected
           S == Selected(flat, c, pub)
           g == [i \in J |-> flat[i].alias]
<1>1. MaxSelected \in Nat
  BY RankingAssumption
<1>2. J \subseteq Mine(flat, c, pub) /\ J \subseteq Nat
  BY MineFinite DEF Top
<1>3. IsFiniteSet(J)
  BY <1>2, MineFinite, FS_Subset
<1>4. ASSUME NEW i \in J PROVE Count(i) \in T
  <2>1. Count(i) \in Nat /\ Count(i) <= MaxSelected
    BY MineFinite DEF Top
  <2>2. i \in UpTo(flat, c, pub, i)
    BY <1>2 DEF UpTo
  <2>3. Count(i) # 0
    BY <2>2, MineFinite, FS_EmptySet
  <2> HIDE DEF Count
  <2> QED BY <1>1, <2>1, <2>3
<1>5. ASSUME NEW i \in J, NEW j \in J, i < j PROVE Count(i) # Count(j)
  <2>1. UpTo(flat, c, pub, i) \in SUBSET UpTo(flat, c, pub, j)
    BY <1>2, <1>5, MineFinite DEF UpTo
  <2>2. j \in UpTo(flat, c, pub, j) /\ j \notin UpTo(flat, c, pub, i)
    BY <1>2, <1>5 DEF UpTo
  <2> QED BY <2>1, <2>2, MineFinite, FS_Subset
<1>6. f \in Injection(J, T)
  <2>1. f \in [J -> T]
    BY <1>4
  <2>2. \A i, j \in J : f[i] = f[j] => i = j
    <3>1. \A i, j \in J : i # j => i < j \/ j < i
      BY <1>2
    <3> HIDE DEF J
    <3> QED BY <1>5, <3>1
  <2> HIDE DEF f, T, J
  <2> QED BY <2>1, <2>2 DEF Injection, IsInjective
<1>7. IsFiniteSet(T) /\ Cardinality(T) = MaxSelected
  BY <1>1, FS_Interval
<1>8. Cardinality(J) <= MaxSelected
  <2> HIDE DEF f, T, J
  <2>1. Cardinality(J) <= Cardinality(T)
    BY <1>6, <1>7, FS_Injection
  <2> QED BY <1>7, <2>1
<1>9. g \in Surjection(J, S)
  <2>1. S = {flat[i].alias : i \in J}
    BY SelectedDef
  <2> HIDE DEF S, J
  <2>2. g \in [J -> S]
    BY <2>1
  <2>3. \A t \in S : \E i \in J : g[i] = t
    BY <2>1
  <2> HIDE DEF g
  <2> QED BY <2>2, <2>3 DEF Surjection
<1>10. IsFiniteSet(S) /\ Cardinality(S) <= Cardinality(J)
  <2> HIDE DEF S, J, g
  <2> QED BY <1>3, <1>9, FS_Surjection
<1>11. Cardinality(S) \in Nat /\ Cardinality(J) \in Nat
  BY <1>3, <1>10, FS_CardinalityType
<1> HIDE DEF J
<1> QED BY <1>1, <1>8, <1>10, <1>11

\* UpdateTrackRanking keeps the tracks of a handler and lets every selected one
\* run; a track it does not select runs only if there are few tracks.
LEMMA UpdateTrackRankingResult ==
  ASSUME NEW flat \in Seq(Entry), NEW c, NEW pub,
         \A t \in DOMAIN pub : pub[t] \in {"ok", "paused"}
  PROVE  LET new == UpdateTrackRanking(flat, c, pub)
         IN  /\ DOMAIN new = DOMAIN pub
             /\ \A t \in DOMAIN pub : new[t] \in {"ok", "paused"}
             /\ c \notin Filter => new = pub
             /\ c \in Filter =>
                   \A t \in DOMAIN pub :
                      /\ t \in Selected(flat, c, pub) => new[t] = "ok"
                      /\ t \notin Selected(flat, c, pub)
                           /\ Cardinality(DOMAIN pub) > MaxSelected => new[t] = "paused"
BY DEF UpdateTrackRanking

\* The selection is of tracks of the handler, and only they matter.
LEMMA SelectedOfDomain ==
  ASSUME NEW flat, NEW c, NEW pub, NEW pub2
  PROVE  /\ Selected(flat, c, pub) \subseteq DOMAIN pub
         /\ DOMAIN pub = DOMAIN pub2 =>
               Selected(flat, c, pub) = Selected(flat, c, pub2)
BY DEF Selected

\* TopIsRunning, as a property of a list and of the handlers.
Running(flat, h) ==
    \A c \in DOMAIN h :
        /\ c \in Filter => \A t \in Selected(flat, c, h[c]) : h[c][t] = "ok"
        /\ c \notin Filter => \A t \in DOMAIN h[c] : h[c][t] = "ok"

\* It is TopIsRunning.
LEMMA RunningIsTop == Running(rank.flat, handlers) <=> TopIsRunning
BY DEF Running, TopIsRunning

-----------------------------------------------------------------------------
(***************************************************************************)
(* The invariant                                                           *)
(***************************************************************************)
\* At the start there is no ranking and no handler.
LEMMA InitInvariant == Init => IInv
<1> SUFFICES ASSUME Init PROVE IInv
  OBVIOUS
<1>1. 0 \in 0..MaxTick /\ 0 \in 0..MaxUpdate
  BY RankingAssumption
<1>2. RankType(rank)
  BY <1>1 DEF Init, NewRanking, RankType, OrderedType
<1>3. Types
  BY <1>1, <1>2 DEF Init, Types, HandlersType
<1>4. Sound(rank.flat, rank.ordered)
  BY DEF Init, NewRanking, Sound
<1>5. TopIsRunning
  BY DEF Init, TopIsRunning
<1> QED BY <1>3, <1>4, <1>5 DEF IInv

\* What an update does to the ranking and to the handlers.
LEMMA ObjectStep ==
  ASSUME IInv, NEW t \in Track, NEW p \in Property, NEW v \in Value,
         ObjectReceived(t, p, v), t \in feeds
  PROVE  /\ RankType(rank') /\ Sound(rank'.flat, rank'.ordered)
         /\ rank'.seq = rank.seq + 1
         /\ DOMAIN handlers' = DOMAIN handlers
         /\ \A c \in DOMAIN handlers :
               handlers'[c] = UpdateTrackRanking(rank'.flat, c, handlers[c])
         /\ HandlersType(handlers')
         /\ Running(rank'.flat, handlers')
<1>1. /\ rank' = UpdateValue(rank, t, p, v)
      /\ rank.seq < MaxUpdate
      /\ handlers' = [c \in DOMAIN handlers |->
                         UpdateTrackRanking(rank'.flat, c, handlers[c])]
  BY DEF ObjectReceived
<1>2. RankType(rank') /\ Sound(rank'.flat, rank'.ordered) /\ rank'.seq = rank.seq + 1
  BY <1>1, UpdateValueResult DEF IInv, Types
<1>3. rank'.flat \in Seq(Entry)
  BY <1>2 DEF RankType
<1>4. ASSUME NEW c \in DOMAIN handlers
      PROVE  LET new == UpdateTrackRanking(rank'.flat, c, handlers[c])
             IN  /\ handlers'[c] = new
                 /\ DOMAIN new = DOMAIN handlers[c]
                 /\ DOMAIN handlers[c] \subseteq Track
                 /\ \A u \in DOMAIN handlers[c] : new[u] \in {"ok", "paused"}
                 /\ c \notin Filter => \A u \in DOMAIN new : new[u] = "ok"
                 /\ c \in Filter =>
                       \A u \in Selected(rank'.flat, c, new) : new[u] = "ok"
  <2>1. /\ DOMAIN handlers[c] \subseteq Track
        /\ \A u \in DOMAIN handlers[c] : handlers[c][u] \in {"ok", "paused"}
    BY DEF IInv, Types, HandlersType
  <2>2. c \notin Filter => \A u \in DOMAIN handlers[c] : handlers[c][u] = "ok"
    BY RunningIsTop DEF IInv, Running
  <2> DEFINE new == UpdateTrackRanking(rank'.flat, c, handlers[c])
  <2>3. handlers'[c] = new
    BY <1>1
  <2>4. /\ DOMAIN new = DOMAIN handlers[c]
        /\ \A u \in DOMAIN handlers[c] : new[u] \in {"ok", "paused"}
        /\ c \notin Filter => new = handlers[c]
        /\ c \in Filter => \A u \in DOMAIN handlers[c] :
              u \in Selected(rank'.flat, c, handlers[c]) => new[u] = "ok"
    BY <1>3, <2>1, UpdateTrackRankingResult
  <2> HIDE DEF new
  <2>5. Selected(rank'.flat, c, new) = Selected(rank'.flat, c, handlers[c])
    BY <2>4, SelectedOfDomain
  <2>6. Selected(rank'.flat, c, handlers[c]) \subseteq DOMAIN handlers[c]
    BY SelectedOfDomain
  <2> QED BY <2>1, <2>2, <2>3, <2>4, <2>5, <2>6 DEF new
<1>5. DOMAIN handlers' = DOMAIN handlers /\ DOMAIN handlers \subseteq Subscriber
  BY <1>1 DEF IInv, Types, HandlersType
<1>6. HandlersType(handlers')
  BY <1>4, <1>5 DEF HandlersType
<1>7. Running(rank'.flat, handlers')
  BY <1>4, <1>5 DEF Running
<1> QED BY <1>2, <1>4, <1>5, <1>6, <1>7

\* Every step keeps the invariant.
LEMMA NextInvariant == IInv /\ [Next]_vars => IInv'
<1> SUFFICES ASSUME IInv, [Next]_vars
             PROVE  /\ now' \in 0..MaxTick
                    /\ published' \subseteq Track
                    /\ feeds' \subseteq published'
                    /\ RankType(rank') /\ Sound(rank'.flat, rank'.ordered)
                    /\ HandlersType(handlers') /\ Running(rank'.flat, handlers')
  <2>1. Running(rank'.flat, handlers') => TopIsRunning'
    BY DEF Running, TopIsRunning
  <2>2. Types' = (/\ now' \in 0..MaxTick
                  /\ published' \subseteq Track
                  /\ feeds' \subseteq published'
                  /\ RankType(rank')
                  /\ HandlersType(handlers'))
    BY DEF Types, RankType, OrderedType, HandlersType, Half
  <2>3. Sound(rank.flat, rank.ordered)' = Sound(rank'.flat, rank'.ordered)
    BY DEF Sound
  <2> QED BY <2>1, <2>2, <2>3 DEF IInv
<1>1. /\ now \in 0..MaxTick
      /\ published \subseteq Track
      /\ feeds \subseteq published
      /\ RankType(rank) /\ Sound(rank.flat, rank.ordered)
      /\ HandlersType(handlers) /\ Running(rank.flat, handlers)
  BY RunningIsTop DEF IInv, Types
<1>2. CASE Tick
  BY <1>1, <1>2, RankingAssumption DEF Tick
<1>3. ASSUME NEW t \in Track, Publish(t)
      PROVE  /\ now' \in 0..MaxTick
             /\ published' \subseteq Track
             /\ feeds' \subseteq published'
             /\ RankType(rank') /\ Sound(rank'.flat, rank'.ordered)
             /\ HandlersType(handlers') /\ Running(rank'.flat, handlers')
  <2>1. /\ now' = now /\ rank' = rank /\ published' = published \cup {t}
        /\ feeds' \subseteq feeds \cup {t}
        /\ DOMAIN handlers' = DOMAIN handlers
        /\ \A c \in DOMAIN handlers :
              \/ handlers'[c] = handlers[c]
              \/ /\ DOMAIN handlers'[c] = DOMAIN handlers[c] \cup {t}
                 /\ handlers'[c][t] = "ok"
                 /\ \A u \in DOMAIN handlers[c] :
                       u # t => handlers'[c][u] = handlers[c][u]
    BY <1>3 DEF Publish
  <2>2. HandlersType(handlers')
    BY <1>1, <2>1 DEF HandlersType
  <2>3. ASSUME NEW c \in DOMAIN handlers
        PROVE  /\ c \in Filter =>
                     \A u \in Selected(rank.flat, c, handlers'[c]) :
                        handlers'[c][u] = "ok"
               /\ c \notin Filter =>
                     \A u \in DOMAIN handlers'[c] : handlers'[c][u] = "ok"
    <3>1. CASE handlers'[c] = handlers[c]
      BY <1>1, <3>1 DEF Running
    <3>2. CASE /\ DOMAIN handlers'[c] = DOMAIN handlers[c] \cup {t}
               /\ handlers'[c][t] = "ok"
               /\ \A u \in DOMAIN handlers[c] :
                     u # t => handlers'[c][u] = handlers[c][u]
      <4>1. ASSUME c \in Filter, NEW u \in Selected(rank.flat, c, handlers'[c])
            PROVE  handlers'[c][u] = "ok"
        <5>1. u \in DOMAIN handlers'[c]
          BY <4>1, SelectedOfDomain
        <5>2. rank.flat \in Seq(Entry)
          BY <1>1 DEF RankType
        <5>3. u \in DOMAIN handlers[c] => u \in Selected(rank.flat, c, handlers[c])
          BY <3>2, <4>1, <5>2, SelectedShrinks
        <5>4. u \in DOMAIN handlers[c] => handlers[c][u] = "ok"
          BY <1>1, <4>1, <5>3 DEF Running
        <5> QED BY <3>2, <5>1, <5>4
      <4>2. ASSUME c \notin Filter, NEW u \in DOMAIN handlers'[c]
            PROVE  handlers'[c][u] = "ok"
        BY <1>1, <3>2, <4>2 DEF Running
      <4> QED BY <4>1, <4>2
    <3> QED BY <2>1, <3>1, <3>2
  <2>4. Running(rank'.flat, handlers')
    BY <2>1, <2>3 DEF Running
  <2> QED BY <1>1, <2>1, <2>2, <2>4
<1>4. ASSUME NEW t \in Track, Unpublish(t)
      PROVE  /\ now' \in 0..MaxTick
             /\ published' \subseteq Track
             /\ feeds' \subseteq published'
             /\ RankType(rank') /\ Sound(rank'.flat, rank'.ordered)
             /\ HandlersType(handlers') /\ Running(rank'.flat, handlers')
  BY <1>1, <1>4 DEF Unpublish
<1>5. ASSUME NEW c \in Subscriber, SubscribeNamespace(c)
      PROVE  /\ now' \in 0..MaxTick
             /\ published' \subseteq Track
             /\ feeds' \subseteq published'
             /\ RankType(rank') /\ Sound(rank'.flat, rank'.ordered)
             /\ HandlersType(handlers') /\ Running(rank'.flat, handlers')
  <2> DEFINE matched == {t \in published : Mirrors(c, t)}
  <2>1. /\ now' = now /\ rank' = rank /\ published' = published
        /\ feeds' = feeds \cup matched
        /\ DOMAIN handlers' = DOMAIN handlers \cup {c}
        /\ handlers'[c] = [t \in matched |-> "ok"]
        /\ \A d \in DOMAIN handlers : handlers'[d] = handlers[d]
    BY <1>5 DEF SubscribeNamespace
  <2>2. HandlersType(handlers')
    BY <1>1, <2>1 DEF HandlersType
  <2>3. Running(rank'.flat, handlers')
    BY <1>1, <2>1, SelectedOfDomain DEF Running
  <2> QED BY <1>1, <2>1, <2>2, <2>3
<1>6. ASSUME NEW c \in Subscriber, UnsubscribeNamespace(c)
      PROVE  /\ now' \in 0..MaxTick
             /\ published' \subseteq Track
             /\ feeds' \subseteq published'
             /\ RankType(rank') /\ Sound(rank'.flat, rank'.ordered)
             /\ HandlersType(handlers') /\ Running(rank'.flat, handlers')
  <2>1. /\ now' = now /\ published' = published
        /\ DOMAIN handlers' = DOMAIN handlers \ {c}
        /\ \A d \in DOMAIN handlers' : handlers'[d] = handlers[d]
    BY <1>6 DEF UnsubscribeNamespace, Restrict
  <2>2. HandlersType(handlers')
    BY <1>1, <2>1 DEF HandlersType
  <2>3. CASE DOMAIN handlers = {c}
    <3>1. feeds' = {} /\ rank' = NewRanking
      BY <1>6, <2>3 DEF UnsubscribeNamespace
    <3>2. RankType(rank') /\ Sound(rank'.flat, rank'.ordered)
      BY <3>1, RankingAssumption DEF NewRanking, RankType, OrderedType, Sound
    <3>3. DOMAIN handlers' = {}
      BY <2>1, <2>3
    <3>4. Running(rank'.flat, handlers')
      BY <3>3 DEF Running
    <3> QED BY <1>1, <2>1, <2>2, <3>1, <3>2, <3>4
  <2>4. CASE DOMAIN handlers # {c}
    <3>1. feeds' = feeds /\ rank' = rank
      BY <1>6, <2>4 DEF UnsubscribeNamespace
    <3>2. Running(rank'.flat, handlers')
      BY <1>1, <2>1, <3>1 DEF Running
    <3> QED BY <1>1, <2>1, <2>2, <3>1, <3>2
  <2> QED BY <2>3, <2>4
<1>7. ASSUME NEW t \in Track, NEW p \in Property, NEW v \in Value,
             ObjectReceived(t, p, v)
      PROVE  /\ now' \in 0..MaxTick
             /\ published' \subseteq Track
             /\ feeds' \subseteq published'
             /\ RankType(rank') /\ Sound(rank'.flat, rank'.ordered)
             /\ HandlersType(handlers') /\ Running(rank'.flat, handlers')
  <2>1. now' = now /\ published' = published /\ feeds' = feeds
    BY <1>7 DEF ObjectReceived
  <2>2. CASE t \in feeds
    BY <1>1, <1>7, <2>1, <2>2, ObjectStep
  <2>3. CASE t \notin feeds
    <3>1. rank' = rank /\ handlers' = handlers
      BY <1>7, <2>3 DEF ObjectReceived
    <3> QED BY <1>1, <2>1, <3>1
  <2> QED BY <2>2, <2>3
<1>8. CASE UNCHANGED vars
  BY <1>1, <1>8 DEF vars
<1> QED BY <1>2, <1>3, <1>4, <1>5, <1>6, <1>7, <1>8 DEF Next

-----------------------------------------------------------------------------
(***************************************************************************)
(* The theorems                                                            *)
(***************************************************************************)
\* The invariant that the others follow from.
THEOREM TrackRankingInvariant == Spec => []IInv
<1>1. Init => IInv
  BY InitInvariant
<1>2. IInv /\ [Next]_vars => IInv'
  BY NextInvariant
<1> QED BY <1>1, <1>2, PTL DEF Spec

\* Ticks, values and insert_seq_num stay in range, the two ranges of the
\* sequence numbers included, and only handlers that exist feed a ranking.
THEOREM TrackRankingTypeOK == Spec => []TypeOK
<1>1. IInv => TypeOK
  <2> SUFFICES ASSUME IInv PROVE TypeOK
    OBVIOUS
  <2>1. ASSUME NEW c \in DOMAIN handlers
        PROVE  Range(handlers[c]) \subseteq {"ok", "paused"}
    BY DEF IInv, Types, HandlersType, Range
  <2> QED BY <2>1 DEF IInv, Types, RankType, OrderedType, HandlersType, TypeOK
<1> QED BY <1>1, TrackRankingInvariant, PTL

\* flat_track_list_ names no track twice and only tracks that are ranked, with
\* the tick of their last update, through moves, ageing and rebuilds.
THEOREM TrackRankingFlatSound == Spec => []FlatSound
<1>1. IInv => FlatSound
  BY DEF IInv, Sound, FlatSound
<1> QED BY <1>1, TrackRankingInvariant, PTL

\* No subscriber has a paused track among the first of its list, in whichever
\* order tracks are published, ranked and subscribed to.
THEOREM TrackRankingTopIsRunning == Spec => []TopIsRunning
<1>1. IInv => TopIsRunning
  BY DEF IInv
<1> QED BY <1>1, TrackRankingInvariant, PTL

\* After every ranked update each filtered subscriber gets at most MaxSelected
\* tracks.
THEOREM TrackRankingTopN == Spec => TopNAfterUpdate
<1> DEFINE A == rank'.seq > rank.seq =>
              \A c \in DOMAIN handlers' \cap Filter :
                  Cardinality({t \in DOMAIN handlers'[c] : handlers'[c][t] = "ok"})
                      <= MaxSelected
<1>1. IInv /\ [Next]_vars => [A]_vars
  <2> SUFFICES ASSUME IInv, Next, rank'.seq > rank.seq,
                      NEW c \in DOMAIN handlers' \cap Filter
               PROVE  Cardinality({t \in DOMAIN handlers'[c] : handlers'[c][t] = "ok"})
                        <= MaxSelected
    OBVIOUS
  <2>1. rank.seq \in Nat
    BY RankingAssumption DEF IInv, Types, RankType
  <2>2. PICK t \in Track, p \in Property, v \in Value :
            ObjectReceived(t, p, v) /\ t \in feeds
    <3>1. rank' # rank /\ rank' # NewRanking
      BY <2>1 DEF NewRanking
    <3> QED BY <3>1 DEF Next, Tick, Publish, Unpublish, SubscribeNamespace,
                        UnsubscribeNamespace, ObjectReceived
  <2> DEFINE pub == handlers[c]
             new == handlers'[c]
             S   == Selected(rank'.flat, c, pub)
             ok  == {u \in DOMAIN new : new[u] = "ok"}
  <2>3. /\ c \in DOMAIN handlers /\ rank'.flat \in Seq(Entry)
        /\ new = UpdateTrackRanking(rank'.flat, c, pub)
    BY <2>2, ObjectStep DEF RankType
  <2>4. /\ DOMAIN pub \subseteq Track
        /\ \A u \in DOMAIN pub : pub[u] \in {"ok", "paused"}
    BY <2>3 DEF IInv, Types, HandlersType
  <2>5. /\ DOMAIN new = DOMAIN pub
        /\ Cardinality(DOMAIN pub) > MaxSelected =>
              \A u \in DOMAIN pub : u \notin S => new[u] = "paused"
    BY <2>3, <2>4, UpdateTrackRankingResult
  <2>6. IsFiniteSet(DOMAIN pub) /\ Cardinality(DOMAIN pub) \in Nat
    BY <2>4, RankingAssumption, FS_Subset, FS_CardinalityType
  <2>7. MaxSelected \in Nat
    BY RankingAssumption
  <2> HIDE DEF pub, new
  <2>8. CASE Cardinality(DOMAIN pub) > MaxSelected
    <3>1. ok \in SUBSET S
      BY <2>5, <2>8
    <3>2. IsFiniteSet(S) /\ Cardinality(S) <= MaxSelected /\ Cardinality(S) \in Nat
      BY <2>3, SelectedBound
    <3> HIDE DEF ok, S
    <3>3. IsFiniteSet(ok) /\ Cardinality(ok) <= Cardinality(S)
      BY <3>1, <3>2, FS_Subset
    <3>4. Cardinality(ok) \in Nat
      BY <3>3, FS_CardinalityType
    <3>5. Cardinality(ok) <= MaxSelected
      BY <2>7, <3>2, <3>3, <3>4
    <3> QED BY <3>5 DEF ok, new
  <2>9. CASE ~ (Cardinality(DOMAIN pub) > MaxSelected)
    <3>1. ok \in SUBSET DOMAIN pub
      BY <2>5
    <3> HIDE DEF ok
    <3>2. IsFiniteSet(ok) /\ Cardinality(ok) <= Cardinality(DOMAIN pub)
      BY <2>6, <3>1, FS_Subset
    <3>3. Cardinality(ok) \in Nat
      BY <3>2, FS_CardinalityType
    <3>4. Cardinality(ok) <= MaxSelected
      BY <2>6, <2>7, <2>9, <3>2, <3>3
    <3> QED BY <3>4 DEF ok, new
  <2> QED BY <2>8, <2>9
<1> QED BY <1>1, TrackRankingInvariant, PTL DEF Spec, TopNAfterUpdate
-----------------------------------------------------------------------------
(***************************************************************************)
(* FetchControl                                                            *)
(***************************************************************************)

\* Locations as the code compares them: pairs of naturals.
Pairs == Nat \X Nat

CacheType(c) ==
    /\ DOMAIN c \subseteq Group
    /\ \A g \in DOMAIN c : c[g] \subseteq Object

\* A fetch that FetchReceived has started.
Started ==
    [pc : {"cache", "sending", "done", "stopped", "publisher", "waiting", "draining"},
     start : Pairs, end : Pairs, reason : {"kOk", "kNoObjects", "kInvalidRange"},
     pos : Pairs,
     response : {"none", "kOk", "kNoObjects", "kInvalidRange", "kInternalError"},
     sent : Seq(Pairs), owed : SUBSET Pairs]

\* The answer of a joining fetch without objects.
Refused == [pc |-> "done", reason |-> "kInvalidRange", response |-> "kInvalidRange"]

\* How far the loops of a fetch f over the groups v have come.
Walked(f, v) ==
    /\ f.pc \in {"cache", "sending", "done", "stopped"}
    /\ f.owed \subseteq Locations(v)
    /\ \A l \in f.owed : InRange(f, l)
    /\ \A i \in 1..Len(f.sent) : InRange(f, f.sent[i]) /\ ~ Before(f.pos, f.sent[i])
    /\ \A i \in 1..(Len(f.sent) - 1) : Before(f.sent[i], f.sent[i + 1])
    /\ f.pc \in {"cache", "sending"} =>
          \A l \in f.owed : ~ Before(f.pos, l) => \E i \in 1..Len(f.sent) : f.sent[i] = l
    /\ f.pc = "done" => \A l \in f.owed : \E i \in 1..Len(f.sent) : f.sent[i] = l

\* The invariant of one fetch.
FetchInv(f, v) ==
    /\ f \in Started \cup {NoFetch, Refused}
    /\ CacheType(v)
    /\ f \in Started => /\ f.reason # "kOk" => f.pc \in {"publisher", "waiting",
                                                         "draining", "done"}
                        /\ f.reason = "kOk" => Walked(f, v)

FetchIInv ==
    /\ CacheType(cache)
    /\ DOMAIN fetch = Request /\ DOMAIN view = Request
    /\ \A r \in Request : FetchInv(fetch[r], view[r])

-----------------------------------------------------------------------------
(***************************************************************************)
(* Locations                                                               *)
(***************************************************************************)

\* Before is a total order of locations.
LEMMA BeforeOrder ==
  /\ \A a \in Pairs : ~ Before(a, a)
  /\ \A a, b \in Pairs : a # b => Before(a, b) \/ Before(b, a)
  /\ \A a, b, c \in Pairs : Before(a, b) /\ Before(b, c) => Before(a, c)
  /\ \A a, b, c \in Pairs : Before(a, b) /\ ~ Before(c, b) => Before(a, c)
<1>1. \A a \in Pairs : a = <<a[1], a[2]>> /\ a[1] \in Nat /\ a[2] \in Nat
  BY DEF Pairs
<1> QED BY <1>1 DEF Before

\* The end of a range is a bound: what lies behind something behind it does too.
LEMMA BehindEnd ==
  ASSUME NEW f \in Started, NEW l \in Pairs, NEW k \in Pairs,
         ~ Before(l, f.start), ~ InRange(f, l), ~ Before(k, l)
  PROVE  ~ InRange(f, k)
<1>1. /\ l[1] \in Nat /\ l[2] \in Nat /\ k[1] \in Nat /\ k[2] \in Nat
      /\ f.end[1] \in Nat /\ f.end[2] \in Nat
  BY DEF Pairs, Started
<1> QED BY <1>1 DEF InRange, Before

\* What Locations holds.
LEMMA LocationsOf ==
  ASSUME NEW c, CacheType(c)
  PROVE  /\ Locations(c) = {l \in Location : l[1] \in DOMAIN c /\ l[2] \in c[l[1]]}
         /\ Locations(c) \subseteq Location /\ Location \subseteq Pairs
<1>1. Location \subseteq Pairs
  BY FetchAssumption DEF Location, Pairs, Group, Object
<1>2. ASSUME NEW l \in Locations(c)
      PROVE  l \in Location /\ l[1] \in DOMAIN c /\ l[2] \in c[l[1]]
  <2>1. PICK g \in DOMAIN c : l \in {<<g, o>> : o \in c[g]}
    BY DEF Locations
  <2>2. PICK o \in c[g] : l = <<g, o>>
    BY <2>1
  <2>3. g \in Group /\ o \in Object
    BY DEF CacheType
  <2> QED BY <2>2, <2>3 DEF Location
<1>3. ASSUME NEW l \in Location, l[1] \in DOMAIN c, l[2] \in c[l[1]]
      PROVE  l \in Locations(c)
  <2>1. l = <<l[1], l[2]>>
    BY DEF Location
  <2>2. l \in {<<l[1], o>> : o \in c[l[1]]}
    BY <1>3, <2>1
  <2> QED BY <1>3, <2>2 DEF Locations
<1> QED BY <1>1, <1>2, <1>3

\* Every nonempty set of naturals has a least element.
LEMMA LeastNumber ==
  ASSUME NEW T, T \subseteq Nat, T # {}
  PROVE  \E m \in T : \A k \in T : m <= k
<1>1. PICK x \in T : \A y \in T : ~ (<<y, x>> \in OpToRel(<, Nat))
  BY WFMin, NatLessThanWellFounded, Zenon
<1>2. \A y \in T : ~ (y < x)
  BY <1>1 DEF OpToRel
<1> QED
  BY <1>2

\* The loops come to a first object: the first of the first group.
LEMMA FirstLocation ==
  ASSUME NEW S, S \subseteq Pairs, S # {}
  PROVE  \E l \in S : \A k \in S : ~ Before(k, l)
<1> DEFINE G == {l[1] : l \in S}
<1>1. \A l \in S : l = <<l[1], l[2]>> /\ l[1] \in Nat /\ l[2] \in Nat
  BY DEF Pairs
<1>2. PICK g \in G : \A k \in G : g <= k
  <2>1. G \subseteq Nat /\ G # {}
    BY <1>1
  <2> HIDE DEF G
  <2> QED BY <2>1, LeastNumber
<1> DEFINE O == {l[2] : l \in {k \in S : k[1] = g}}
<1>3. PICK o \in O : \A k \in O : o <= k
  <2>1. O \subseteq Nat /\ O # {}
    BY <1>1, <1>2
  <2> HIDE DEF O
  <2> QED BY <2>1, LeastNumber
<1>4. PICK l \in S : l[1] = g /\ l[2] = o
  BY <1>3
<1>5. ASSUME NEW k \in S PROVE ~ Before(k, l)
  <2>1. k[1] \in G /\ (k[1] = g => k[2] \in O)
    OBVIOUS
  <2>2. g <= k[1] /\ (k[1] = g => o <= k[2])
    <3> HIDE DEF G, O
    <3> QED BY <1>2, <1>3, <2>1
  <2> HIDE DEF G, O
  <2> QED BY <1>1, <1>4, <2>2 DEF Before
<1> QED BY <1>4, <1>5

\* GetLargestAvailable finds a location if there is one.
LEMMA LargestAvailable ==
  ASSUME CacheType(cache), Locations(cache) # {}
  PROVE  GetLargestAvailable \in Location
<1> DEFINE S == Locations(cache)
           G == {MaxGroup - l[1] : l \in S}
<1>1. \A l \in S : /\ l \in Location
                   /\ l = <<l[1], l[2]>> /\ l[1] \in 1..MaxGroup /\ l[2] \in 0..MaxObject
  BY LocationsOf DEF Location, Group, Object
<1> HIDE DEF S
<1>2. MaxGroup \in Nat /\ MaxObject \in Nat /\ S # {}
  BY FetchAssumption DEF S
<1>3. PICK g \in G : \A k \in G : g <= k
  <2>1. G \subseteq Nat /\ G # {}
    BY <1>1, <1>2
  <2> HIDE DEF G
  <2> QED BY <2>1, LeastNumber
<1> DEFINE O == {MaxObject - l[2] : l \in {k \in S : MaxGroup - k[1] = g}}
<1>4. PICK o \in O : \A k \in O : o <= k
  <2>1. O \subseteq Nat /\ O # {}
    BY <1>1, <1>2, <1>3
  <2> HIDE DEF O
  <2> QED BY <2>1, LeastNumber
<1>5. PICK l \in S : MaxGroup - l[1] = g /\ MaxObject - l[2] = o
  BY <1>4
<1>6. ASSUME NEW k \in S PROVE ~ Before(l, k)
  <2>1. MaxGroup - k[1] \in G /\ (MaxGroup - k[1] = g => MaxObject - k[2] \in O)
    OBVIOUS
  <2>2. g <= MaxGroup - k[1] /\ (MaxGroup - k[1] = g => o <= MaxObject - k[2])
    <3> HIDE DEF G, O
    <3> QED BY <1>3, <1>4, <2>1
  <2> HIDE DEF G, O
  <2> QED BY <1>1, <1>2, <1>5, <2>2 DEF Before
<1>7. GetLargestAvailable \in S
  BY <1>5, <1>6 DEF GetLargestAvailable, S
<1> QED BY <1>1, <1>7

-----------------------------------------------------------------------------
(***************************************************************************)
(* The steps of one fetch                                                  *)
(***************************************************************************)

\* InRange looks at the two ends only.
LEMMA SameRange ==
  ASSUME NEW f, NEW h, f.start = h.start, f.end = h.end
  PROVE  \A l : InRange(f, l) = InRange(h, l)
BY DEF InRange

\* A fetch that comes in owes what the cache has of its range, all of which
\* lies in the groups it points to and none of which it has passed.
LEMMA FetchReceivedInv ==
  ASSUME FetchIInv, NEW r \in Request, NEW start \in Pairs, NEW end \in Pairs,
         FetchReceived(r, start, end)
  PROVE  FetchInv(fetch'[r], view'[r])
<1> DEFINE groups == {g \in DOMAIN cache : start[1] <= g /\ g <= end[1]}
           reason == IF Locations(cache) = {} THEN "kNoObjects"
                     ELSE IF start[1] > end[1] \/ GetLargestAvailable[1] < start[1]
                     THEN "kInvalidRange"
                     ELSE IF groups = {} THEN "kNoObjects" ELSE "kOk"
           pc     == IF reason = "kOk" THEN "cache" ELSE "publisher"
           f      == [pc |-> pc, start |-> start, end |-> end, reason |-> reason,
                      pos |-> <<0, 0>>, response |-> "none", sent |-> <<>>, owed |-> {}]
           owed   == {l \in Locations(cache) : InRange(f, l)}
           h      == [pc |-> pc, start |-> start, end |-> end, reason |-> reason,
                      pos |-> <<0, 0>>, response |-> "none", sent |-> <<>>, owed |-> owed]
           v      == [g \in groups |-> cache[g]]
<1>1. CacheType(cache) /\ DOMAIN fetch = Request /\ DOMAIN view = Request
  BY DEF FetchIInv
<1>2. fetch'[r] = [f EXCEPT !.owed = owed] /\ view'[r] = v
  BY <1>1 DEF FetchReceived
<1>3. reason \in {"kOk", "kNoObjects", "kInvalidRange"}
      /\ pc \in {"cache", "publisher"} /\ (reason = "kOk" <=> pc = "cache")
  OBVIOUS
<1> HIDE DEF reason, pc
<1>4. [f EXCEPT !.owed = owed] = h
  <2> HIDE DEF owed
  <2> QED OBVIOUS
<1>5. CacheType(v)
  BY <1>1 DEF CacheType
<1>6. /\ Locations(cache) \subseteq Location /\ Location \subseteq Pairs
      /\ Locations(cache) =
           {l \in Location : l[1] \in DOMAIN cache /\ l[2] \in cache[l[1]]}
      /\ Locations(v) = {l \in Location : l[1] \in DOMAIN v /\ l[2] \in v[l[1]]}
  BY <1>1, <1>5, LocationsOf
<1>7. \A l \in owed : InRange(h, l)
  BY SameRange
<1>8. owed \subseteq Locations(v)
  <2> SUFFICES ASSUME NEW l \in owed PROVE l \in Locations(v)
    OBVIOUS
  <2>1. /\ l \in Location /\ l[1] \in DOMAIN cache /\ l[2] \in cache[l[1]]
        /\ InRange(h, l)
    BY <1>6, <1>7
  <2>2. /\ l[1] \in Nat /\ l[2] \in Nat /\ start[1] \in Nat /\ end[1] \in Nat
        /\ start[2] \in Nat /\ end[2] \in Nat
    BY <1>6, <2>1 DEF Pairs
  <2>3. start[1] <= l[1] /\ l[1] <= end[1]
    BY <2>1, <2>2 DEF InRange, Before
  <2>4. l[1] \in groups
    BY <2>1, <2>3
  <2> QED BY <1>6, <2>1, <2>4
<1>9. owed \subseteq Pairs
  BY <1>6
<1>10. \A l \in owed : Before(<<0, 0>>, l)
  <2> SUFFICES ASSUME NEW l \in owed PROVE Before(<<0, 0>>, l)
    OBVIOUS
  <2>1. l[1] \in Group
    BY <1>6 DEF Location
  <2> QED BY <2>1, FetchAssumption DEF Group, Before
<1> HIDE DEF owed, v
<1>11. h \in Started
  <2>1. <<>> \in Seq(Pairs) /\ <<0, 0>> \in Pairs
    BY DEF Pairs
  <2> QED BY <1>3, <1>9, <2>1 DEF Started
<1>12. reason = "kOk" => Walked(h, v)
  <2>1. Len(<<>>) = 0
    OBVIOUS
  <2> QED BY <1>3, <1>7, <1>8, <1>10, <2>1 DEF Walked
<1>13. h.reason = reason /\ h.pc = pc
  OBVIOUS
<1> HIDE DEF h
<1> QED BY <1>2, <1>3, <1>4, <1>5, <1>11, <1>12, <1>13 DEF FetchInv

\* One round of the loops.
LEMMA SendObjectInv ==
  ASSUME FetchIInv, NEW r \in Request, SendObject(r)
  PROVE  FetchInv(fetch'[r], view[r])
<1> DEFINE f == fetch[r]
           v == view[r]
           l == CHOOSE l \in Rest(r) : \A k \in Rest(r) : ~ Before(k, l)
<1>1. /\ FetchInv(f, v) /\ DOMAIN fetch = Request /\ f.pc = "sending"
  BY DEF FetchIInv, SendObject, At
<1>2. f \in Started /\ CacheType(v) /\ f.reason = "kOk" /\ Walked(f, v)
  <2>1. f \in Started
    BY <1>1 DEF FetchInv, NoFetch, Refused
  <2>2. f.reason = "kOk"
    BY <1>1, <2>1 DEF FetchInv
  <2> QED BY <1>1, <2>1, <2>2 DEF FetchInv
<1>3. Rest(r) = {k \in Locations(v) : Before(f.pos, k)}
  BY DEF Rest
<1>4. Locations(v) \subseteq Pairs
  BY <1>2, LocationsOf
<1>5. Rest(r) # {} => l \in Rest(r) /\ \A k \in Rest(r) : ~ Before(k, l)
  <2>1. Rest(r) \subseteq Pairs
    BY <1>3, <1>4
  <2> HIDE DEF f, v
  <2> QED BY <2>1, FirstLocation
<1>6. \/ Rest(r) = {} /\ fetch'[r] = [f EXCEPT !.pc = "done"]
      \/ fetch'[r] = [f EXCEPT !.pc = "stopped"]
      \/ Rest(r) # {} /\ Before(l, f.start) /\ fetch'[r] = [f EXCEPT !.pos = l]
      \/ /\ Rest(r) # {} /\ ~ Before(l, f.start) /\ ~ InRange(f, l)
         /\ fetch'[r] = [f EXCEPT !.pc = "done"]
      \/ /\ Rest(r) # {} /\ ~ Before(l, f.start) /\ InRange(f, l)
         /\ fetch'[r] = [f EXCEPT !.pos = l, !.sent = Append(@, l)]
  <2> DEFINE st == Rest(r) # {} /\ stop[r] = "yes"
             res == CASE Rest(r) = {}        -> [f EXCEPT !.pc = "done"]
                      [] st                  -> [f EXCEPT !.pc = "stopped"]
                      [] OTHER ->
                         IF Before(l, f.start) THEN [f EXCEPT !.pos = l]
                         ELSE IF ~ InRange(f, l) THEN [f EXCEPT !.pc = "done"]
                         ELSE [f EXCEPT !.pos = l, !.sent = Append(@, l)]
  <2>1. fetch'[r] = res
    BY <1>1 DEF SendObject
  <2> HIDE DEF f, l
  <2>2. CASE Rest(r) = {}
    BY <2>1, <2>2
  <2>3. CASE st
    BY <2>1, <2>3
  <2>4. CASE Rest(r) # {} /\ ~ st
    BY <2>1, <2>4
  <2> QED BY <2>2, <2>3, <2>4
<1> HIDE DEF f, v, l
<1> DEFINE n == Len(f.sent)
<1>7. /\ n \in Nat /\ f.sent \in Seq(Pairs) /\ f.pos \in Pairs
      /\ f.owed \subseteq Locations(v) /\ f.owed \subseteq Pairs
      /\ \A k \in f.owed : InRange(f, k)
      /\ \A i \in 1..n : InRange(f, f.sent[i]) /\ ~ Before(f.pos, f.sent[i])
      /\ \A i \in 1..(n - 1) : Before(f.sent[i], f.sent[i + 1])
      /\ \A k \in f.owed : ~ Before(f.pos, k) => \E i \in 1..n : f.sent[i] = k
      /\ \A i \in 1..n : f.sent[i] \in Pairs
  <2>1. f.sent \in Seq(Pairs) /\ f.pos \in Pairs /\ f.owed \subseteq Pairs
    BY <1>2 DEF Started
  <2>2. n \in Nat /\ \A i \in 1..n : f.sent[i] \in Pairs
    BY <2>1
  <2> QED BY <1>1, <1>2, <2>1, <2>2 DEF Walked
<1>8. SUFFICES ASSUME NEW h, h = fetch'[r]
               PROVE  h \in Started /\ h.reason = "kOk" /\ Walked(h, v)
  BY <1>2 DEF FetchInv, v
<1>9. ASSUME NEW c \in {"done", "stopped"}, h = [f EXCEPT !.pc = c],
             c = "done" => \A k \in f.owed : ~ Before(f.pos, k)
                                              \/ \E i \in 1..n : f.sent[i] = k
      PROVE  h \in Started /\ h.reason = "kOk" /\ Walked(h, v)
  <2>1. /\ h \in Started /\ h.reason = "kOk" /\ h.pc = c
        /\ h.start = f.start /\ h.end = f.end /\ h.pos = f.pos
        /\ h.sent = f.sent /\ h.owed = f.owed
    BY <1>2, <1>9 DEF Started
  <2>2. \A k : InRange(h, k) = InRange(f, k)
    BY <2>1, SameRange
  <2>3. h.pc = "done" => \A k \in h.owed : \E i \in 1..Len(h.sent) : h.sent[i] = k
    BY <1>7, <1>9, <2>1
  <2>4. h.pc \notin {"cache", "sending"} /\ h.pc \in {"cache", "sending", "done", "stopped"}
    BY <2>1
  <2> QED BY <1>7, <2>1, <2>2, <2>3, <2>4 DEF Walked
<1>10. CASE Rest(r) = {} /\ h = [f EXCEPT !.pc = "done"]
  <2>1. \A k \in f.owed : ~ Before(f.pos, k)
    BY <1>3, <1>7, <1>10
  <2> QED BY <1>9, <1>10, <2>1
<1>11. CASE h = [f EXCEPT !.pc = "stopped"]
  BY <1>9, <1>11
<1>12. CASE /\ Rest(r) # {} /\ ~ Before(l, f.start) /\ ~ InRange(f, l)
            /\ h = [f EXCEPT !.pc = "done"]
  <2>1. ASSUME NEW k \in f.owed PROVE ~ Before(f.pos, k)
    <3> SUFFICES ASSUME Before(f.pos, k) PROVE FALSE
      OBVIOUS
    <3>1. k \in Rest(r)
      BY <1>3, <1>7
    <3>2. ~ Before(k, l) /\ l \in Pairs /\ k \in Pairs
      BY <1>3, <1>4, <1>5, <3>1
    <3>3. ~ InRange(f, k)
      BY <1>2, <1>12, <3>2, BehindEnd
    <3> QED BY <1>7, <3>3
  <2> QED BY <1>9, <1>12, <2>1
<1>13. ASSUME Rest(r) # {}
       PROVE  /\ l \in Pairs /\ Before(f.pos, l)
              /\ \A k \in f.owed : k = l \/ Before(l, k) \/ ~ Before(f.pos, k)
              /\ \A k \in Pairs : ~ Before(f.pos, k) => ~ Before(l, k) /\ Before(k, l)
  <2>1. l \in Pairs /\ Before(f.pos, l) /\ \A k \in Rest(r) : ~ Before(k, l)
    BY <1>3, <1>4, <1>5, <1>13
  <2>2. \A k \in f.owed : k = l \/ Before(l, k) \/ ~ Before(f.pos, k)
    BY <1>3, <1>7, <2>1, BeforeOrder
  <2>3. \A k \in Pairs : ~ Before(f.pos, k) => ~ Before(l, k) /\ Before(k, l)
    BY <1>7, <2>1, BeforeOrder
  <2> QED BY <2>1, <2>2, <2>3
<1>14. CASE Rest(r) # {} /\ Before(l, f.start) /\ h = [f EXCEPT !.pos = l]
  <2>1. /\ h \in Started /\ h.reason = "kOk" /\ h.pc = "sending"
        /\ h.start = f.start /\ h.end = f.end /\ h.pos = l
        /\ h.sent = f.sent /\ h.owed = f.owed
    BY <1>1, <1>2, <1>13, <1>14 DEF Started, f
  <2>2. \A k : InRange(h, k) = InRange(f, k)
    BY <2>1, SameRange
  <2>3. ~ InRange(f, l)
    BY <1>14 DEF InRange
  <2>4. \A i \in 1..n : ~ Before(l, f.sent[i])
    BY <1>7, <1>13, <1>14
  <2>5. \A k \in f.owed : ~ Before(l, k) => \E i \in 1..n : f.sent[i] = k
    BY <1>7, <1>13, <1>14, <2>3
  <2> QED BY <1>7, <2>1, <2>2, <2>4, <2>5 DEF Walked
<1>15. CASE /\ Rest(r) # {} /\ InRange(f, l)
            /\ h = [f EXCEPT !.pos = l, !.sent = Append(@, l)]
  <2> DEFINE s == Append(f.sent, l)
  <2>1. /\ s \in Seq(Pairs) /\ Len(s) = n + 1 /\ s[n + 1] = l
        /\ \A i \in 1..n : s[i] = f.sent[i]
    BY <1>7, <1>13, <1>15
  <2> HIDE DEF s
  <2>2. /\ h \in Started /\ h.reason = "kOk" /\ h.pc = "sending"
        /\ h.start = f.start /\ h.end = f.end /\ h.pos = l
        /\ h.sent = s /\ h.owed = f.owed
    BY <1>1, <1>2, <1>13, <1>15, <2>1 DEF Started, f, s
  <2>3. \A k : InRange(h, k) = InRange(f, k)
    BY <2>2, SameRange
  <2>4. ASSUME NEW i \in 1..(n + 1) PROVE InRange(f, s[i]) /\ ~ Before(l, s[i])
    <3>1. CASE i = n + 1
      BY <1>13, <1>15, <2>1, <3>1, BeforeOrder
    <3>2. CASE i # n + 1
      <4>1. i \in 1..n
        BY <1>7, <3>2
      <4> QED BY <1>7, <1>13, <1>15, <2>1, <4>1
    <3> QED BY <3>1, <3>2
  <2>5. ASSUME NEW i \in 1..n PROVE Before(s[i], s[i + 1])
    <3>1. CASE i = n
      <4>1. s[i + 1] = l /\ s[i] = f.sent[i] /\ f.sent[i] \in Pairs
        BY <1>7, <2>1, <3>1
      <4> QED BY <1>7, <1>13, <1>15, <4>1
    <3>2. CASE i # n
      <4>1. i \in 1..(n - 1) /\ i + 1 \in 1..n
        BY <1>7, <3>2
      <4> QED BY <1>7, <2>1, <4>1
    <3> QED BY <3>1, <3>2
  <2>6. ASSUME NEW k \in f.owed, ~ Before(l, k)
        PROVE  \E i \in 1..(n + 1) : s[i] = k
    <3>1. CASE k = l
      <4>1. n + 1 \in 1..(n + 1)
        BY <1>7
      <4> QED BY <2>1, <3>1, <4>1
    <3>2. CASE k # l
      <4>1. PICK i \in 1..n : f.sent[i] = k
        BY <1>7, <1>13, <1>15, <2>6, <3>2
      <4>2. i \in 1..(n + 1)
        BY <1>7
      <4> QED BY <2>1, <4>1, <4>2
    <3> QED BY <3>1, <3>2
  <2>7. (n + 1) - 1 = n
    BY <1>7
  <2> HIDE DEF n
  <2> QED BY <1>7, <2>1, <2>2, <2>3, <2>4, <2>5, <2>6, <2>7 DEF Walked
<1> QED BY <1>6, <1>8, <1>10, <1>11, <1>12, <1>14, <1>15

Moved(f, c, rc) == [f EXCEPT !.pc = c, !.response = rc]

MovesTo(f, c) ==
    \/ f.pc = "cache" /\ c = "sending"
    \/ /\ f.pc \in {"publisher", "waiting", "draining"}
       /\ c \in {"waiting", "draining", "done"}

\* A step of another kind changes pc and response only, of a fetch that asks
\* the publisher, or starts the loops.
LEMMA OtherStepInv ==
  ASSUME NEW f \in Started, NEW v, FetchInv(f, v), NEW c, MovesTo(f, c),
         NEW rc \in {"none", "kOk", "kNoObjects", "kInvalidRange", "kInternalError"}
  PROVE  FetchInv(Moved(f, c, rc), v)
<1> DEFINE h == Moved(f, c, rc)
<1>0. \/ f.pc = "cache" /\ c = "sending"
      \/ /\ f.pc \in {"publisher", "waiting", "draining"}
         /\ c \in {"waiting", "draining", "done"}
  BY DEF MovesTo
<1>1. /\ h \in Started /\ h.reason = f.reason /\ h.pc = c
      /\ h.start = f.start /\ h.end = f.end /\ h.pos = f.pos
      /\ h.sent = f.sent /\ h.owed = f.owed
  BY <1>0 DEF Started, Moved
<1> HIDE DEF h
<1>2. \A k : InRange(h, k) = InRange(f, k)
  BY <1>1, SameRange
<1>3. f.reason = "kOk" => Walked(f, v)
  BY DEF FetchInv
<1>4. f.reason = "kOk" => f.pc = "cache" /\ c = "sending"
  BY <1>0, <1>3 DEF Walked
<1>5. f.reason = "kOk" => Walked(h, v)
  <2> SUFFICES ASSUME f.reason = "kOk" PROVE Walked(h, v)
    OBVIOUS
  <2>1. Walked(f, v) /\ f.pc = "cache" /\ h.pc = "sending"
    BY <1>1, <1>3, <1>4
  <2>2. /\ h.owed \subseteq Locations(v)
        /\ \A l \in h.owed : InRange(h, l)
        /\ \A i \in 1..Len(h.sent) : InRange(h, h.sent[i])
    BY <1>1, <1>2, <2>1 DEF Walked
  <2>3. /\ \A i \in 1..Len(h.sent) : ~ Before(h.pos, h.sent[i])
        /\ \A i \in 1..(Len(h.sent) - 1) : Before(h.sent[i], h.sent[i + 1])
    BY <1>1, <2>1 DEF Walked
  <2>4. \A l \in h.owed : ~ Before(h.pos, l) => \E i \in 1..Len(h.sent) : h.sent[i] = l
    BY <1>1, <2>1 DEF Walked
  <2> QED BY <2>1, <2>2, <2>3, <2>4 DEF Walked
<1>6. f.reason # "kOk" => c \in {"publisher", "waiting", "draining", "done"}
  BY <1>0 DEF FetchInv
<1> QED BY <1>1, <1>5, <1>6 DEF FetchInv, h

\* An object that is cached may become visible to a fetch; nothing is taken
\* away from it.
LEMMA MoreInView ==
  ASSUME NEW f, NEW v, NEW w, FetchInv(f, v), CacheType(w),
         DOMAIN v = DOMAIN w, \A g \in DOMAIN v : v[g] \subseteq w[g]
  PROVE  FetchInv(f, w)
<1>1. CacheType(v)
  BY DEF FetchInv
<1>2. Locations(v) \subseteq Locations(w)
  BY <1>1, LocationsOf
<1>3. Walked(f, v) => Walked(f, w)
  BY <1>2 DEF Walked
<1> QED BY <1>3 DEF FetchInv

-----------------------------------------------------------------------------
(***************************************************************************)
(* The invariant                                                           *)
(***************************************************************************)
\* At the start nothing is cached and nothing is fetched.
LEMMA FetchInitInvariant == FetchInit => FetchIInv
<1> SUFFICES ASSUME FetchInit PROVE FetchIInv
  OBVIOUS
<1>1. DOMAIN <<>> = {}
  OBVIOUS
<1>2. CacheType(<<>>)
  BY <1>1 DEF CacheType
<1>3. NoFetch \notin Started
  <2> SUFFICES ASSUME NoFetch \in Started PROVE FALSE
    OBVIOUS
  <2>1. NoFetch.pc \in {"cache", "sending", "done", "stopped", "publisher",
                        "waiting", "draining"}
    BY DEF Started
  <2> QED BY <2>1 DEF NoFetch
<1>4. FetchInv(NoFetch, <<>>)
  BY <1>2, <1>3 DEF FetchInv
<1> QED BY <1>2, <1>4 DEF FetchInit, FetchIInv

\* A step that changes one fetch, and what it points to, only.
LEMMA OneFetch ==
  ASSUME FetchIInv, NEW r \in Request, UNCHANGED cache,
         DOMAIN fetch' = DOMAIN fetch, DOMAIN view' = DOMAIN view,
         \A q \in Request \ {r} : fetch'[q] = fetch[q] /\ view'[q] = view[q],
         FetchInv(fetch'[r], view'[r])
  PROVE  FetchIInv'
<1>1. CacheType(cache)' = CacheType(cache)
  BY DEF CacheType, Group, Object
<1>2. DOMAIN fetch' = Request /\ DOMAIN view' = Request
  BY DEF FetchIInv
<1>3. \A q \in Request : FetchInv(fetch'[q], view'[q])
  BY DEF FetchIInv
<1>4. (\A q \in Request : FetchInv(fetch[q], view[q]))'
  BY <1>3
<1> QED BY <1>1, <1>2, <1>4 DEF FetchIInv

\* Every step keeps the invariant.
LEMMA FetchNextInvariant == FetchIInv /\ [FetchNext]_fetchVars => FetchIInv'
<1> SUFFICES ASSUME FetchIInv, [FetchNext]_fetchVars PROVE FetchIInv'
  OBVIOUS
<1>1. /\ CacheType(cache) /\ DOMAIN fetch = Request /\ DOMAIN view = Request
      /\ \A r \in Request : FetchInv(fetch[r], view[r])
  BY DEF FetchIInv
<1>2. ASSUME NEW r \in Request, NEW start \in Pairs, NEW end \in Pairs,
             FetchReceived(r, start, end)
      PROVE  FetchIInv'
  <2>1. FetchInv(fetch'[r], view'[r])
    BY <1>2, FetchReceivedInv
  <2>2. /\ UNCHANGED cache
        /\ DOMAIN fetch' = DOMAIN fetch /\ DOMAIN view' = DOMAIN view
        /\ \A q \in Request \ {r} : fetch'[q] = fetch[q] /\ view'[q] = view[q]
    BY <1>1, <1>2 DEF FetchReceived
  <2> QED BY <2>1, <2>2, OneFetch
<1>3. ASSUME NEW r \in Request, NEW relative \in BOOLEAN, NEW start \in Group,
             JoiningFetchReceived(r, relative, start)
      PROVE  FetchIInv'
  <2>1. CASE Locations(cache) = {}
    <3>1. /\ fetch' = [fetch EXCEPT ![r] = Refused] /\ UNCHANGED <<cache, view>>
      BY <1>3, <2>1 DEF JoiningFetchReceived, Refused
    <3>2. /\ DOMAIN fetch' = DOMAIN fetch /\ fetch'[r] = Refused
          /\ \A q \in Request \ {r} : fetch'[q] = fetch[q]
      BY <1>1, <3>1
    <3>3. Refused \notin Started
      <4> SUFFICES ASSUME Refused \in Started PROVE FALSE
        OBVIOUS
      <4>1. PICK f \in Started : f = Refused
        OBVIOUS
      <4>2. "pos" \in DOMAIN f
        BY DEF Started
      <4> QED BY <4>1, <4>2 DEF Refused
    <3>4. CacheType(view[r])
      BY <1>1 DEF FetchInv
    <3>5. FetchInv(Refused, view[r])
      BY <3>3, <3>4 DEF FetchInv
    <3> QED BY <3>1, <3>2, <3>5, OneFetch
  <2>2. CASE Locations(cache) # {}
    <3> DEFINE largest == GetLargestAvailable[1]
               from    == IF ~relative THEN start
                          ELSE IF largest > start THEN largest - start ELSE 0
    <3>1. GetLargestAvailable \in Location
      BY <1>1, <2>2, LargestAvailable
    <3>2. largest \in Nat /\ start \in Nat /\ MaxObject + 1 \in Nat
      BY <3>1, FetchAssumption DEF Location, Group
    <3>3. FetchReceived(r, <<from, 0>>, <<largest, NoObject>>)
      BY <1>3, <2>2 DEF JoiningFetchReceived
    <3> HIDE DEF largest
    <3>4. <<from, 0>> \in Pairs /\ <<largest, NoObject>> \in Pairs
      BY <3>2 DEF Pairs, NoObject
    <3> HIDE DEF from
    <3> QED BY <1>2, <3>3, <3>4
  <2> QED BY <2>1, <2>2
<1>4. ASSUME UNCHANGED <<cache, fetch, view>> PROVE FetchIInv'
  <2>1. CacheType(cache') /\ \A r \in Request : FetchInv(fetch'[r], view'[r])
    BY <1>1, <1>4
  <2>2. CacheType(cache)' /\ (\A r \in Request : FetchInv(fetch[r], view[r]))'
    BY <2>1
  <2>3. DOMAIN fetch' = Request /\ DOMAIN view' = Request
    BY <1>1, <1>4
  <2> QED BY <2>2, <2>3 DEF FetchIInv
<1>5. ASSUME NEW r \in Request, NEW c, NEW rc, UNCHANGED <<cache, view>>,
             rc \in {"none", "kOk", "kNoObjects", "kInvalidRange", "kInternalError"},
             \/ fetch[r].pc = "cache" /\ c = "sending"
             \/ /\ fetch[r].pc \in {"publisher", "waiting", "draining"}
                /\ c \in {"waiting", "draining", "done"},
             fetch' = [fetch EXCEPT ![r].pc = c, ![r].response = rc]
      PROVE  FetchIInv'
  <2> DEFINE h == Moved(fetch[r], c, rc)
  <2>1. fetch[r] \in Started
    BY <1>1, <1>5 DEF FetchInv, NoFetch, Refused
  <2>2. FetchInv(h, view[r])
    <3>1. MovesTo(fetch[r], c)
      BY <1>5 DEF MovesTo
    <3> QED BY <1>1, <1>5, <2>1, <3>1, OtherStepInv
  <2>3. /\ DOMAIN fetch' = DOMAIN fetch /\ fetch'[r] = h
        /\ \A q \in Request \ {r} : fetch'[q] = fetch[q]
    BY <1>1, <1>5 DEF Moved
  <2> HIDE DEF h
  <2> QED BY <1>5, <2>2, <2>3, OneFetch
<1>6. ASSUME NEW r \in Request, NEW c, UNCHANGED <<cache, view>>,
             fetch[r].pc \in {"publisher", "waiting", "draining"},
             c \in {"waiting", "draining", "done"},
             fetch' = [fetch EXCEPT ![r].pc = c]
      PROVE  FetchIInv'
  <2>1. fetch[r] \in Started
    BY <1>1, <1>6 DEF FetchInv, NoFetch, Refused
  <2>2. PICK f : f = fetch[r]
    OBVIOUS
  <2>3. f \in Started /\ f.pc \in {"publisher", "waiting", "draining"}
    BY <1>6, <2>1, <2>2
  <2> DEFINE rc == f.response
  <2>4. /\ Moved(f, c, rc) = [f EXCEPT !.pc = c]
        /\ rc \in {"none", "kOk", "kNoObjects", "kInvalidRange", "kInternalError"}
    BY <2>3 DEF Started, Moved
  <2> HIDE DEF rc
  <2>5. MovesTo(f, c) /\ FetchInv(f, view[r])
    BY <1>1, <1>6, <2>2, <2>3 DEF MovesTo
  <2>6. FetchInv(Moved(f, c, rc), view[r])
    BY <2>3, <2>4, <2>5, OtherStepInv
  <2>7. /\ DOMAIN fetch' = DOMAIN fetch /\ fetch'[r] = Moved(f, c, rc)
        /\ \A q \in Request \ {r} : fetch'[q] = fetch[q]
    BY <1>1, <1>6, <2>2, <2>4
  <2> QED BY <1>6, <2>6, <2>7, OneFetch
<1>7. ASSUME NEW r \in Request, Thread(r) PROVE FetchIInv'
  <2>1. CASE ResolveFromCache(r)
    BY <1>5, <2>1 DEF ResolveFromCache, At
  <2>2. CASE SendObject(r)
    <3>1. FetchInv(fetch'[r], view[r])
      BY <2>2, SendObjectInv
    <3>2. /\ UNCHANGED cache /\ UNCHANGED view
          /\ DOMAIN fetch' = DOMAIN fetch
          /\ \A q \in Request \ {r} : fetch'[q] = fetch[q]
      BY <1>1, <2>2 DEF SendObject
    <3> QED BY <3>1, <3>2, OneFetch
  <2>3. CASE FetchTrack(r)
    <3>1. fetch[r].pc = "publisher" /\ UNCHANGED <<cache, view>>
      BY <2>3 DEF FetchTrack, At
    <3>2. fetch[r] \in Started
      BY <1>1, <3>1 DEF FetchInv, NoFetch, Refused
    <3>3. {fetch[r].reason, "kNoObjects"} \subseteq {"kOk", "kNoObjects", "kInvalidRange"}
      BY <3>2 DEF Started
    <3>4. \/ fetch' = [fetch EXCEPT ![r].pc = "waiting"]
          \/ \E rc \in {fetch[r].reason, "kNoObjects"} :
                fetch' = [fetch EXCEPT ![r].pc = "draining", ![r].response = rc]
      BY <2>3 DEF FetchTrack
    <3>5. CASE fetch' = [fetch EXCEPT ![r].pc = "waiting"]
      BY <1>6, <3>1, <3>5
    <3>6. ASSUME NEW rc \in {fetch[r].reason, "kNoObjects"},
                 fetch' = [fetch EXCEPT ![r].pc = "draining", ![r].response = rc]
          PROVE  FetchIInv'
      BY <1>5, <3>1, <3>3, <3>6
    <3> QED BY <3>4, <3>5, <3>6
  <2>4. CASE ResolveFromPublisher(r)
    <3> DEFINE rc == CASE status[r] \in {"kOk", "kDoneByFin"} -> "kOk"
                       [] status[r] = "kError"                -> "kNoObjects"
                       [] OTHER                               -> "kInternalError"
    <3>1. /\ fetch[r].pc = "waiting" /\ UNCHANGED <<cache, view>>
          /\ fetch' = [fetch EXCEPT ![r].pc = "draining", ![r].response = rc]
      BY <2>4 DEF ResolveFromPublisher, At
    <3>2. rc \in {"kOk", "kNoObjects", "kInternalError"}
      OBVIOUS
    <3> HIDE DEF rc
    <3> QED BY <1>5, <3>1, <3>2
  <2>5. CASE CancelFetchTrack(r)
    BY <1>6, <2>5 DEF CancelFetchTrack, At
  <2> QED BY <1>7, <2>1, <2>2, <2>3, <2>4, <2>5 DEF Thread
<1>8. ASSUME NEW g \in Group, NEW o \in Object, ObjectCached(g, o) PROVE FetchIInv'
  <2>1. /\ fetch' = fetch
        /\ DOMAIN cache' = DOMAIN cache \cup {g}
        /\ \A k \in DOMAIN cache' : cache'[k] \subseteq
              (IF k \in DOMAIN cache THEN cache[k] ELSE {}) \cup {o}
        /\ DOMAIN view' = Request
    BY <1>8 DEF ObjectCached
  <2>2. CacheType(cache')
    BY <1>1, <2>1 DEF CacheType
  <2>3. ASSUME NEW r \in Request PROVE FetchInv(fetch'[r], view'[r])
    <3>1. /\ DOMAIN view[r] = DOMAIN view'[r]
          /\ \A k \in DOMAIN view[r] : /\ view[r][k] \subseteq view'[r][k]
                                       /\ view'[r][k] \subseteq view[r][k] \cup {o}
      BY <1>8 DEF ObjectCached
    <3>2. CacheType(view[r])
      BY <1>1 DEF FetchInv
    <3>3. CacheType(view'[r])
      BY <3>1, <3>2 DEF CacheType
    <3> QED BY <1>1, <2>1, <3>1, <3>3, MoreInView
  <2>4. CacheType(cache)' /\ (\A r \in Request : FetchInv(fetch[r], view[r]))'
    BY <2>2, <2>3
  <2> QED BY <1>1, <2>1, <2>4 DEF FetchIInv
<1>9. ASSUME NEW g \in Group, Expire(g) PROVE FetchIInv'
  <2>1. /\ fetch' = fetch /\ view' = view
        /\ DOMAIN cache' = DOMAIN cache \ {g}
        /\ \A k \in DOMAIN cache' : cache'[k] = cache[k]
    BY <1>9 DEF Expire
  <2>2. CacheType(cache')
    BY <1>1, <2>1 DEF CacheType
  <2>3. \A r \in Request : FetchInv(fetch'[r], view'[r])
    BY <1>1, <2>1
  <2>4. CacheType(cache)' /\ (\A r \in Request : FetchInv(fetch[r], view[r]))'
    BY <2>2, <2>3
  <2> QED BY <1>1, <2>1, <2>4 DEF FetchIInv
<1>10. ASSUME NEW r \in Request, FetchCancelReceived(r) PROVE FetchIInv'
  BY <1>4, <1>10 DEF FetchCancelReceived
<1>11. ASSUME NEW r \in Request, NEW st, StatusChanged(r, st) PROVE FetchIInv'
  BY <1>4, <1>11 DEF StatusChanged
<1>12. CASE UNCHANGED fetchVars
  BY <1>4, <1>12 DEF fetchVars
<1>13. Location \subseteq Pairs /\ Ends \subseteq Pairs
  BY FetchAssumption DEF Location, Ends, Pairs, Group, Object, NoObject
<1>14. CASE FetchNext
  <2>1. CASE \E r \in Request : \E start \in Location, end \in Ends :
                FetchReceived(r, start, end)
    BY <1>2, <1>13, <2>1
  <2>2. CASE \E r \in Request : \E relative \in BOOLEAN, start \in Group :
                JoiningFetchReceived(r, relative, start)
    BY <1>3, <2>2
  <2>3. CASE \E r \in Request : FetchCancelReceived(r) \/ Thread(r)
                \/ \E st \in {"kOk", "kError", "kDoneByFin", "kNotConnected"} :
                      StatusChanged(r, st)
    BY <1>7, <1>10, <1>11, <2>3
  <2>4. CASE \E g \in Group : Expire(g) \/ \E o \in Object : ObjectCached(g, o)
    BY <1>8, <1>9, <2>4
  <2> QED BY <1>14, <2>1, <2>2, <2>3, <2>4 DEF FetchNext
<1> QED BY <1>12, <1>14

-----------------------------------------------------------------------------
(***************************************************************************)
(* The theorems                                                            *)
(***************************************************************************)
\* The invariant of the fetches.
THEOREM FetchControlInvariant == FetchSpec => []FetchIInv
<1>1. FetchInit => FetchIInv
  BY FetchInitInvariant
<1>2. FetchIInv /\ [FetchNext]_fetchVars => FetchIInv'
  BY FetchNextInvariant
<1> QED BY <1>1, <1>2, PTL DEF FetchSpec

\* A fetch from the cache sends objects of its range only, in order and each
\* once, and one that ends without having been stopped has sent all that were
\* cached when it came in, whatever is cached, expires or is cancelled between
\* two rounds of its loops.
THEOREM FetchControlExact == FetchSpec => []FetchExact
<1>1. FetchIInv => FetchExact
  <2> SUFFICES ASSUME FetchIInv, NEW r \in Request,
                      fetch[r].pc \in {"sending", "done"}, fetch[r].reason = "kOk"
               PROVE  LET f == fetch[r]
                      IN  /\ \A i \in 1..Len(f.sent) : InRange(f, f.sent[i])
                          /\ \A i \in 1..(Len(f.sent) - 1) :
                                Before(f.sent[i], f.sent[i + 1])
                          /\ f.pc = "done" => f.owed \subseteq ToSet(f.sent)
    BY DEF FetchExact
  <2> DEFINE f == fetch[r]
  <2>1. f \in Started /\ Walked(f, view[r])
    BY DEF FetchIInv, FetchInv, NoFetch, Refused
  <2> HIDE DEF f
  <2>2. f.sent \in Seq(Pairs)
    BY <2>1 DEF Started
  <2>3. ToSet(f.sent) = {f.sent[i] : i \in 1..Len(f.sent)}
    BY <2>2 DEF ToSet
  <2>4. f.pc = "done" => f.owed \subseteq ToSet(f.sent)
    BY <2>1, <2>3 DEF Walked
  <2> QED BY <2>1, <2>4 DEF Walked, f
<1> QED BY <1>1, FetchControlInvariant, PTL
=============================================================================
