---------------------------- MODULE StreamProofs -----------------------------
(***************************************************************************)
(* Proofs about PeerStreams: for any number of streams and sessions, what  *)
(* a relay on the way passes on of a stream is the beginning of it, and    *)
(* whole as long as an entry maps it, whatever the node set, the sessions  *)
(* and the chunks do meanwhile.                                            *)
(*                                                                         *)
(* The second part is about ControlStream: the receive buffer implements   *)
(* ControlChannel, whatever the messages and the chunks they come in.      *)
(*                                                                         *)
(* The third part is about Fanout: for any number of tracks, subscribers   *)
(* and peers, and objects of any number and size, what each of them gets   *)
(* of a stream is in order and without a hole, however it is chunked.      *)
(***************************************************************************)
EXTENDS PeerStreams, ControlStream, Fanout, SequenceTheorems, TLAPS

\* A run of n units is a sequence.
LEMMA UnitsSeq ==
  ASSUME NEW from \in Nat, NEW to \in Int, NEW n \in Nat, n = to - from + 1
  PROVE  /\ Units(from, to) \in Seq(Nat)
         /\ Len(Units(from, to)) = n
         /\ \A i \in 1..n : Units(from, to)[i] = from + i - 1
<1> DEFINE u == Units(from, to)
<1>1. u = [i \in 1..n |-> from + i - 1]
  BY DEF Units
<1>2. u \in [1..n -> Nat]
  BY <1>1
<1>3. u \in Seq(Nat)
  <2> HIDE DEF u
  <2> QED BY <1>2, SeqDef
<1>4. Len(u) = n
  <2> HIDE DEF u
  <2>1. Len(u) \in Nat /\ 1..Len(u) = 1..n
    BY <1>2, <1>3, LenProperties
  <2> QED BY <2>1
<1> QED
  BY <1>1, <1>3, <1>4

\* The units that come next continue a run from the first unit on.
LEMMA UnitsContinue ==
  ASSUME NEW a \in Nat, NEW b \in Nat, a <= b
  PROVE  Units(1, a) \o Units(a + 1, b) = Units(1, b)
<1> DEFINE x == Units(1, a)
           y == Units(a + 1, b)
           z == Units(1, b)
<1>1. x \in Seq(Nat) /\ Len(x) = a /\ \A i \in 1..a : x[i] = 1 + i - 1
  <2>1. 1 \in Nat /\ a \in Int /\ a = a - 1 + 1
    OBVIOUS
  <2> QED BY <2>1, UnitsSeq
<1>2. PICK n \in Nat : n = b - a
  OBVIOUS
<1>3. y \in Seq(Nat) /\ Len(y) = n /\ \A i \in 1..n : y[i] = a + 1 + i - 1
  <2>1. a + 1 \in Nat /\ n = b - (a + 1) + 1
    BY <1>2
  <2> HIDE <1>2
  <2> QED BY <2>1, UnitsSeq
<1>4. z \in Seq(Nat) /\ Len(z) = b /\ \A i \in 1..b : z[i] = 1 + i - 1
  <2>1. 1 \in Nat /\ b \in Int /\ b = b - 1 + 1
    OBVIOUS
  <2> QED BY <2>1, UnitsSeq
<1> HIDE DEF x, y, z
<1>5. x \o y \in Seq(Nat) /\ Len(x \o y) = b
  <2>1. x \o y \in Seq(Nat) /\ Len(x \o y) = Len(x) + Len(y)
    BY <1>1, <1>3, ConcatProperties
  <2> QED BY <1>1, <1>2, <1>3, <2>1
<1>6. \A i \in 1..b : (x \o y)[i] = z[i]
  <2> TAKE i \in 1..b
  <2>1. (x \o y)[i] = IF i <= a THEN x[i] ELSE y[i - a]
    <3>1. i \in 1..(Len(x) + Len(y))
      BY <1>1, <1>2, <1>3
    <3> QED BY <1>1, <1>3, <3>1, ConcatProperties
  <2> QED BY <1>1, <1>2, <1>3, <1>4, <2>1
<1>7. x \o y = z
  BY <1>4, <1>5, <1>6, SeqEqual
<1> QED
  BY <1>7 DEF x, y, z

-----------------------------------------------------------------------------
\* Types of the state, as far as the proofs need them.
Types ==
    /\ got \in [Stream -> Nat]
    /\ ctx \in [Stream -> {"none", "blank", "header"}]
    /\ out \in [Pairs -> Seq(Nat)]
    /\ live \subseteq Egress

\* An entry maps only streams whose header has been read: a stream without
\* one never reaches ForwardPeerData, which would leave a hole in what is
\* passed on if it did for the first time in the middle.
MappedHasHeader ==
    \A k \in DOMAIN fib : \A s \in fib[k] : s \in Stream /\ ctx[s] = "header"

\* The first chunk of a stream is the one that makes its header.
NoneIsFresh == \A s \in Stream : ctx[s] = "none" => got[s] = 0

IInv ==
    /\ Types
    /\ MappedHasHeader
    /\ NoneIsFresh
    /\ MappedIsWhole
    /\ MappedIsOpen
    /\ OutIsPrefix

\* What the peer e has of stream s once ForwardPeerData has sent it a chunk:
\* everything received, from the first unit on.
LEMMA SentIsWhole ==
  ASSUME IInv, NEW s \in Stream, NEW last \in Nat, got[s] < last, ~failed,
         NEW e \in Targets(s, ctx[s] = "none"), e \in live
  PROVE  out[<<e, s>>] \o Units(got[s] + 1, last) = Units(1, last)
<1>1. e \in DOMAIN fib /\ e \in Egress /\ <<e, s>> \in Pairs /\ got[s] \in Nat
  BY DEF Targets, Pairs, IInv, Types
<1>2. out[<<e, s>>] = Units(1, got[s])
  <2>1. CASE ctx[s] = "none"
    <3>1. got[s] = 0
      BY <2>1 DEF IInv, NoneIsFresh
    <3>2. /\ out[<<e, s>>] = Units(1, Len(out[<<e, s>>]))
          /\ Len(out[<<e, s>>]) <= got[<<e, s>>[2]]
      BY <1>1 DEF IInv, OutIsPrefix
    <3>3. Len(out[<<e, s>>]) = 0
      BY <1>1, <3>1, <3>2, LenProperties DEF IInv, Types
    <3> QED BY <3>1, <3>2, <3>3
  <2>2. CASE ctx[s] # "none"
    BY <1>1, <2>2 DEF Targets, IInv, MappedIsWhole
  <2> QED BY <2>1, <2>2
<1>3. got[s] <= last
  BY <1>1
<1> QED
  BY <1>1, <1>2, <1>3, UnitsContinue

\* The streams that change when a chunk of stream s is sent on.
LEMMA ReceiveEffect ==
  ASSUME IInv, NEW s \in Stream, NEW last \in 1..MaxUnits, ProcessReceivedData(s, last)
  PROVE  /\ s \notin closed /\ ~failed /\ got[s] < last
         /\ got' = [got EXCEPT ![s] = last]
         /\ closed' = closed /\ live' = live
         /\ \/ /\ ctx[s] # "header" /\ ctx' \in [Stream -> {"none", "blank", "header"}]
               /\ \A x \in Stream \ {s} : ctx'[x] = ctx[x]
               /\ ctx'[s] # "none"
               /\ fib' = fib /\ out' = out /\ open' = open
            \/ /\ ctx' = [ctx EXCEPT ![s] = "header"]
               /\ failed' /\ fib' = fib /\ out' = out /\ open' = open
            \/ /\ ctx' = [ctx EXCEPT ![s] = "header"]
               /\ LET to == Targets(s, ctx[s] = "none")
                  IN  /\ to \subseteq live
                      /\ out' = [p \in Pairs |->
                                   IF p[1] \in to /\ p[2] = s
                                   THEN out[p] \o Units(got[s] + 1, last) ELSE out[p]]
                      /\ open' = open \cup {<<e, s>> : e \in to}
                      /\ fib' = [k \in DOMAIN fib |->
                                   IF k \in to THEN fib[k] \cup {s} ELSE fib[k]]
               /\ failed' = failed
<1> DEFINE new == ctx[s] = "none"
           read == IF new THEN last >= HeaderSize ELSE ctx[s] = "header"
           data == Units(got[s] + 1, last)
<1>1. /\ s \notin closed /\ ~failed /\ got[s] < last
      /\ got' = [got EXCEPT ![s] = last]
      /\ ctx' = [ctx EXCEPT ![s] = IF read THEN "header" ELSE "blank"]
      /\ IF read THEN ForwardPeerData(s, data, new)
         ELSE UNCHANGED <<fib, out, open, client, failed>>
      /\ closed' = closed /\ live' = live
  BY DEF ProcessReceivedData
<1>2. CASE ~read
  <2>1. ctx[s] # "header"
    BY <1>2 DEF IInv, Types
  <2> QED BY <1>1, <1>2, <2>1 DEF IInv, Types
<1>3. CASE read
  BY <1>1, <1>3 DEF ForwardPeerData
<1> QED
  BY <1>2, <1>3

\* ProcessReceivedData preserves the invariant.
LEMMA ReceiveKeepsInvariant ==
  ASSUME IInv, NEW s \in Stream, NEW last \in 1..MaxUnits, ProcessReceivedData(s, last)
  PROVE  IInv'
<1> DEFINE to == Targets(s, ctx[s] = "none")
           data == Units(got[s] + 1, last)
<1>1. /\ s \notin closed /\ ~failed /\ got[s] < last /\ last \in Nat
      /\ got' = [got EXCEPT ![s] = last]
      /\ closed' = closed /\ live' = live
  BY PeerStreamsAssumption DEF ProcessReceivedData
<1>2. got' \in [Stream -> Nat] /\ \A x \in Stream : got[x] <= got'[x] /\ got[x] \in Nat
  BY <1>1 DEF IInv, Types
<1>3. CASE /\ ctx[s] # "header" /\ ctx' \in [Stream -> {"none", "blank", "header"}]
           /\ \A x \in Stream \ {s} : ctx'[x] = ctx[x]
           /\ ctx'[s] # "none"
           /\ fib' = fib /\ out' = out /\ open' = open
  <2>1. Types'
    BY <1>1, <1>2, <1>3 DEF IInv, Types
  <2>2. MappedHasHeader'
    BY <1>3 DEF IInv, MappedHasHeader
  <2>3. NoneIsFresh'
    BY <1>1, <1>3 DEF IInv, Types, NoneIsFresh
  <2>4. MappedIsWhole'
    <3>1. \A k \in DOMAIN fib : s \notin fib[k]
      BY <1>3 DEF IInv, MappedHasHeader
    <3>2. \A k \in DOMAIN fib : \A x \in fib[k] : got'[x] = got[x]
      BY <1>1, <3>1 DEF IInv, Types, MappedHasHeader
    <3> SUFFICES ASSUME NEW e \in DOMAIN fib \cap Egress, NEW x \in fib[e]
                 PROVE  /\ <<e, x>> \in open \/ e \notin live
                        /\ <<e, x>> \in open => out[<<e, x>>] = Units(1, got'[x])
      BY <1>1, <1>3 DEF MappedIsWhole
    <3> QED BY <1>1, <3>2 DEF IInv, MappedIsWhole
  <2>5. MappedIsOpen'
    BY <1>1, <1>3 DEF IInv, MappedIsOpen
  <2>6. OutIsPrefix'
    <3> SUFFICES ASSUME NEW p \in Pairs
                 PROVE  out[p] = Units(1, Len(out[p])) /\ Len(out[p]) <= got'[p[2]]
      BY <1>3 DEF OutIsPrefix
    <3>1. out[p] \in Seq(Nat) /\ Len(out[p]) \in Nat /\ p[2] \in Stream
      BY LenProperties DEF IInv, Types, Pairs
    <3> QED BY <1>2, <3>1 DEF IInv, OutIsPrefix
  <2> QED BY <2>1, <2>2, <2>3, <2>4, <2>5, <2>6 DEF IInv
<1>4. CASE /\ ctx' = [ctx EXCEPT ![s] = "header"]
           /\ failed' /\ fib' = fib /\ out' = out /\ open' = open
  <2>1. Types'
    BY <1>1, <1>2, <1>4 DEF IInv, Types
  <2>2. MappedHasHeader' /\ NoneIsFresh'
    BY <1>1, <1>4 DEF IInv, Types, MappedHasHeader, NoneIsFresh
  <2>3. MappedIsWhole'
    BY <1>4 DEF MappedIsWhole
  <2>4. MappedIsOpen'
    BY <1>1, <1>4 DEF IInv, MappedIsOpen
  <2>5. OutIsPrefix'
    <3> SUFFICES ASSUME NEW p \in Pairs
                 PROVE  out[p] = Units(1, Len(out[p])) /\ Len(out[p]) <= got'[p[2]]
      BY <1>4 DEF OutIsPrefix
    <3>1. out[p] \in Seq(Nat) /\ Len(out[p]) \in Nat /\ p[2] \in Stream
      BY LenProperties DEF IInv, Types, Pairs
    <3> QED BY <1>2, <3>1 DEF IInv, OutIsPrefix
  <2> QED BY <2>1, <2>2, <2>3, <2>4, <2>5 DEF IInv
<1>5. CASE /\ ctx' = [ctx EXCEPT ![s] = "header"]
           /\ to \subseteq live
           /\ out' = [p \in Pairs |-> IF p[1] \in to /\ p[2] = s
                                      THEN out[p] \o data ELSE out[p]]
           /\ open' = open \cup {<<e, s>> : e \in to}
           /\ fib' = [k \in DOMAIN fib |-> IF k \in to THEN fib[k] \cup {s} ELSE fib[k]]
           /\ failed' = failed
  <2>1. \A e \in to : /\ <<e, s>> \in Pairs
                      /\ out'[<<e, s>>] = Units(1, last)
    <3> TAKE e \in to
    <3>1. <<e, s>> \in Pairs
      BY DEF Targets, Pairs
    <3>2. out[<<e, s>>] \o data = Units(1, last)
      BY <1>1, <1>5, SentIsWhole
    <3> QED BY <1>5, <3>1, <3>2
  <2>2. Units(1, last) \in Seq(Nat) /\ Len(Units(1, last)) = last
    <3>1. last = last - 1 + 1
      BY <1>1
    <3> QED BY <1>1, <3>1, UnitsSeq
  <2>3. \A p \in Pairs : \/ p[1] \in to /\ p = <<p[1], s>> /\ out'[p] = Units(1, last)
                         \/ (p[1] \notin to \/ p[2] # s) /\ out'[p] = out[p]
    <3> TAKE p \in Pairs
    <3>1. p = <<p[1], p[2]>>
      BY DEF Pairs
    <3>2. CASE p[1] \in to /\ p[2] = s
      BY <2>1, <3>1, <3>2
    <3>3. CASE ~ (p[1] \in to /\ p[2] = s)
      BY <1>5, <3>3
    <3> QED BY <3>2, <3>3
  <2> HIDE DEF to
  <2>4. Types'
    <3>1. out' \in [Pairs -> Seq(Nat)]
      <4>1. \A p \in Pairs : out'[p] \in Seq(Nat)
        BY <2>2, <2>3 DEF IInv, Types
      <4> QED BY <1>5, <4>1
    <3> QED BY <1>1, <1>2, <1>5, <3>1 DEF IInv, Types
  <2>5. MappedHasHeader'
    BY <1>5 DEF IInv, Types, MappedHasHeader
  <2>6. NoneIsFresh'
    BY <1>1, <1>5 DEF IInv, Types, NoneIsFresh
  <2>7. MappedIsWhole'
    <3>0. DOMAIN fib' = DOMAIN fib
      BY <1>5
    <3> SUFFICES ASSUME NEW e \in DOMAIN fib \cap Egress, NEW x \in fib'[e]
                 PROVE  /\ <<e, x>> \in open' \/ e \notin live
                        /\ <<e, x>> \in open' => out'[<<e, x>>] = Units(1, got'[x])
      BY <1>1, <3>0 DEF MappedIsWhole
    <3>1. CASE x = s
      <4>1. e \in to
        BY <1>5, <3>1 DEF to, Targets
      <4>2. <<e, s>> \in open'
        BY <1>5, <4>1
      <4>3. got'[s] = last
        BY <1>1 DEF IInv, Types
      <4> QED BY <2>1, <3>1, <4>1, <4>2, <4>3
    <3>2. CASE x # s
      <4>1. x \in fib[e] /\ x \in Stream
        BY <1>5, <3>2 DEF IInv, MappedHasHeader
      <4>2. got'[x] = got[x]
        BY <1>1, <3>2, <4>1 DEF IInv, Types
      <4>3. <<e, x>> \in Pairs /\ <<e, x>>[2] # s
        BY <3>2, <4>1 DEF Pairs
      <4>4. out'[<<e, x>>] = out[<<e, x>>]
        BY <2>3, <4>3
      <4>5. <<e, x>> \in open' <=> <<e, x>> \in open
        BY <1>5, <3>2
      <4> QED BY <1>1, <4>1, <4>2, <4>4, <4>5 DEF IInv, MappedIsWhole
    <3> QED BY <3>1, <3>2
  <2>8. MappedIsOpen'
    BY <1>1, <1>5 DEF IInv, MappedIsOpen
  <2>9. OutIsPrefix'
    <3> SUFFICES ASSUME NEW p \in Pairs
                 PROVE  out'[p] = Units(1, Len(out'[p])) /\ Len(out'[p]) <= got'[p[2]]
      BY DEF OutIsPrefix
    <3>1. p[2] \in Stream
      BY DEF Pairs
    <3>2. CASE p[1] \in to /\ p = <<p[1], s>> /\ out'[p] = Units(1, last)
      <4>1. got'[p[2]] = last
        BY <1>1, <3>2 DEF IInv, Types
      <4> QED BY <1>1, <2>2, <3>2, <4>1
    <3>3. CASE out'[p] = out[p]
      <4>1. Len(out[p]) \in Nat
        BY LenProperties DEF IInv, Types
      <4>2. out[p] = Units(1, Len(out[p])) /\ Len(out[p]) <= got[p[2]]
        BY DEF IInv, OutIsPrefix
      <4> QED BY <1>2, <3>1, <3>3, <4>1, <4>2
    <3> QED BY <2>3, <3>2, <3>3
  <2> QED BY <2>4, <2>5, <2>6, <2>7, <2>8, <2>9 DEF IInv
<1> QED
  BY <1>3, <1>4, <1>5, ReceiveEffect

\* CloseStream preserves the invariant.  A stream that no entry maps because it
\* has no header leaves the entries as they are.
LEMMA CloseKeepsInvariant ==
  ASSUME IInv, NEW s \in Stream, CloseStream(s)
  PROVE  IInv'
<1> DEFINE known == {k \in DOMAIN fib \cap live : s \in fib[k]}
<1>1. /\ s \notin closed /\ ~failed
      /\ closed' = closed \cup {s}
      /\ ctx' = ctx /\ got' = got /\ live' = live /\ out' = out
  BY DEF CloseStream
<1>2. /\ DOMAIN fib' = DOMAIN fib
      /\ open' \subseteq open
      /\ \A k \in DOMAIN fib : /\ fib'[k] \subseteq fib[k]
                               /\ k \in live => s \notin fib'[k]
      /\ \A p \in open : p \notin open' => p[1] \in live /\ p[2] = s
  <2>1. CASE ctx[s] = "header"
    <3>1. /\ open' = open \ {<<e, s>> : e \in known}
          /\ fib' = [k \in DOMAIN fib |-> IF k \in known THEN fib[k] \ {s} ELSE fib[k]]
      BY <2>1 DEF CloseStream
    <3>2. \A k \in DOMAIN fib : k \in live => s \notin fib'[k]
      BY <3>1
    <3>3. \A p \in open : p \notin open' => p[1] \in live /\ p[2] = s
      BY <3>1
    <3> QED BY <3>1, <3>2, <3>3
  <2>2. CASE ctx[s] # "header"
    <3>1. open' = open /\ fib' = fib
      BY <2>2 DEF CloseStream
    <3>2. \A k \in DOMAIN fib : s \notin fib[k]
      BY <2>2 DEF IInv, MappedHasHeader
    <3> QED BY <3>1, <3>2
  <2> QED BY <2>1, <2>2
<1>3. Types' /\ NoneIsFresh' /\ OutIsPrefix'
  BY <1>1 DEF IInv, Types, NoneIsFresh, OutIsPrefix
<1>4. MappedHasHeader'
  BY <1>1, <1>2 DEF IInv, MappedHasHeader
<1>5. MappedIsWhole'
  <2> SUFFICES ASSUME NEW e \in DOMAIN fib \cap Egress, NEW x \in fib'[e]
               PROVE  /\ <<e, x>> \in open' \/ e \notin live
                      /\ <<e, x>> \in open' => out[<<e, x>>] = Units(1, got[x])
    BY <1>1, <1>2 DEF MappedIsWhole
  <2>1. x \in fib[e]
    BY <1>2
  <2>2. /\ <<e, x>> \in open \/ e \notin live
        /\ <<e, x>> \in open => out[<<e, x>>] = Units(1, got[x])
    BY <1>1, <2>1 DEF IInv, MappedIsWhole
  <2>3. ASSUME <<e, x>> \in open, <<e, x>> \notin open'
        PROVE  e \notin live
    <3>1. x = s
      BY <1>2, <2>3
    <3> QED BY <1>2, <3>1
  <2> QED BY <1>2, <2>2, <2>3
<1>6. MappedIsOpen'
  BY <1>1, <1>2 DEF IInv, MappedIsOpen
<1> QED
  BY <1>3, <1>4, <1>5, <1>6 DEF IInv

\* SnsReceived writes the entries anew or erases them, for an advertisement, a
\* withdrawal or a session that is purged: without streams in any of them,
\* nothing is left to be whole.
LEMMA EmptiedKeepsInvariant ==
  ASSUME IInv, UNCHANGED <<ctx, got, live, out>>,
         \A k \in DOMAIN fib' : fib'[k] = {}
  PROVE  IInv'
<1>1. Types' /\ NoneIsFresh' /\ OutIsPrefix'
  BY DEF IInv, Types, NoneIsFresh, OutIsPrefix
<1>2. MappedHasHeader' /\ MappedIsWhole' /\ MappedIsOpen'
  BY DEF MappedHasHeader, MappedIsWhole, MappedIsOpen
<1> QED
  BY <1>1, <1>2 DEF IInv

\* A session that is lost takes its open streams along, its entries stay.
LEMMA EgressLostKeepsInvariant ==
  ASSUME IInv, NEW d \in Egress, EgressLost(d)
  PROVE  IInv'
<1>1. /\ ~failed /\ live' = live \ {d}
      /\ open' = {p \in open : p[1] # d}
      /\ ctx' = ctx /\ got' = got /\ closed' = closed /\ fib' = fib /\ out' = out
  BY DEF EgressLost
<1>2. Types' /\ NoneIsFresh' /\ OutIsPrefix' /\ MappedHasHeader' /\ MappedIsOpen'
  BY <1>1 DEF IInv, Types, NoneIsFresh, OutIsPrefix, MappedHasHeader, MappedIsOpen
<1>3. MappedIsWhole'
  <2> SUFFICES ASSUME NEW e \in DOMAIN fib \cap Egress, NEW x \in fib[e]
               PROVE  /\ <<e, x>> \in open' \/ e \notin live'
                      /\ <<e, x>> \in open' => out[<<e, x>>] = Units(1, got[x])
    BY <1>1 DEF MappedIsWhole
  <2>1. /\ <<e, x>> \in open \/ e \notin live
        /\ <<e, x>> \in open => out[<<e, x>>] = Units(1, got[x])
    BY <1>1 DEF IInv, MappedIsWhole
  <2> QED BY <1>1, <2>1
<1> QED
  BY <1>2, <1>3 DEF IInv

\* Every step preserves the invariant.
LEMMA NextKeepsInvariant ==
  ASSUME IInv, [Next]_vars
  PROVE  IInv'
<1>1. ASSUME NEW s \in Stream, CloseStream(s)
      PROVE  IInv'
  BY <1>1, CloseKeepsInvariant
<1>2. ASSUME NEW s \in Stream, NEW last \in 1..MaxUnits, ProcessReceivedData(s, last)
      PROVE  IInv'
  BY <1>2, ReceiveKeepsInvariant
<1>3. ASSUME NEW keys \in SUBSET (live \cup {Self, Ingress}), SnsReceived(keys)
      PROVE  IInv'
  <2>1. \A k \in DOMAIN fib' : fib'[k] = {}
    BY <1>3 DEF SnsReceived
  <2> QED BY <1>3, <2>1, EmptiedKeepsInvariant DEF SnsReceived
<1>4. ASSUME SnsWithdrawn
      PROVE  IInv'
  <2>1. CASE fib' = <<>>
    <3>1. \A k \in DOMAIN fib' : fib'[k] = {}
      BY <2>1
    <3> QED BY <1>4, <3>1, EmptiedKeepsInvariant DEF SnsWithdrawn
  <2>2. CASE failed' = TRUE /\ fib' = fib
    <3>1. MappedIsWhole'
      BY <2>2 DEF MappedIsWhole
    <3>2. Types' /\ NoneIsFresh' /\ OutIsPrefix' /\ MappedHasHeader' /\ MappedIsOpen'
      BY <1>4, <2>2 DEF SnsWithdrawn, IInv, Types, NoneIsFresh, OutIsPrefix,
                        MappedHasHeader, MappedIsOpen
    <3> QED BY <3>1, <3>2 DEF IInv
  <2> QED BY <1>4, <2>1, <2>2 DEF SnsWithdrawn
<1>5. ASSUME NEW e \in Egress, EgressLost(e)
      PROVE  IInv'
  BY <1>5, EgressLostKeepsInvariant
<1>6. ASSUME IngressLost
      PROVE  IInv'
  <2>1. \A k \in DOMAIN fib' : fib'[k] = {}
    BY <1>6 DEF IngressLost
  <2> QED BY <1>6, <2>1, EmptiedKeepsInvariant DEF IngressLost
<1>7. ASSUME OwnSubscription \/ Failed \/ UNCHANGED vars
      PROVE  IInv'
  <2>1. UNCHANGED <<ctx, got, closed, fib, live, out, open, failed>>
    BY <1>7 DEF OwnSubscription, Failed, vars
  <2> QED BY <2>1 DEF IInv, Types, MappedHasHeader, NoneIsFresh, MappedIsWhole,
                      MappedIsOpen, OutIsPrefix
<1> QED
  BY <1>1, <1>2, <1>3, <1>4, <1>5, <1>6, <1>7 DEF Next

\* Nothing has been received at the start, and no entry maps a stream.
LEMMA InitInvariant ==
  ASSUME Init
  PROVE  IInv
<1>1. <<>> \in Seq(Nat) /\ Len(<<>>) = 0
  BY EmptySeq
<1>2. Units(1, 0) = <<>>
  <2>1. 0 = 0 - 1 + 1
    OBVIOUS
  <2>2. Units(1, 0) \in Seq(Nat) /\ Len(Units(1, 0)) = 0
    BY <2>1, UnitsSeq
  <2> QED BY <2>2, EmptySeq
<1>3. Types /\ NoneIsFresh
  BY <1>1 DEF Init, Types, NoneIsFresh
<1>4. MappedHasHeader /\ MappedIsWhole /\ MappedIsOpen
  BY DEF Init, MappedHasHeader, MappedIsWhole, MappedIsOpen
<1>5. OutIsPrefix
  <2> SUFFICES ASSUME NEW p \in Pairs
               PROVE  out[p] = Units(1, Len(out[p])) /\ Len(out[p]) <= got[p[2]]
    BY DEF OutIsPrefix
  <2>1. out[p] = <<>> /\ got[p[2]] = 0
    BY DEF Init, Pairs
  <2> QED BY <1>1, <1>2, <2>1
<1> QED
  BY <1>3, <1>4, <1>5 DEF IInv

\* The inductive invariant holds in every reachable state.
LEMMA PeerStreamsInvariant == Spec => []IInv
<1>1. Init => IInv
  BY InitInvariant
<1>2. IInv /\ [Next]_vars => IInv'
  BY NextKeepsInvariant
<1> QED
  BY <1>1, <1>2, PTL DEF Spec

\* A stream that an entry of peer_fib_ maps has been passed on whole so far.
THEOREM PeerStreamsMappedIsWhole == Spec => []MappedIsWhole
<1>1. IInv => MappedIsWhole
  BY DEF IInv
<1> QED
  BY <1>1, PeerStreamsInvariant, PTL

\* An entry of a session that exists maps no stream that is closed.
THEOREM PeerStreamsMappedIsOpen == Spec => []MappedIsOpen
<1>1. IInv => MappedIsOpen
  BY DEF IInv
<1> QED
  BY <1>1, PeerStreamsInvariant, PTL

\* What a peer gets of a stream is the beginning of what came in.
THEOREM PeerStreamsOutIsPrefix == Spec => []OutIsPrefix
<1>1. IInv => OutIsPrefix
  BY DEF IInv
<1> QED
  BY <1>1, PeerStreamsInvariant, PTL
-----------------------------------------------------------------------------
(***************************************************************************)
(* ControlStream                                                           *)
(***************************************************************************)

\* TypeOK says what the buffer holds.  It does not say that the buffer is empty
\* once the receiver is out of step: without this, bytes taken for a message
\* could be followed by messages of before, handled as if nothing had happened.
ControlIInv ==
    /\ TypeOK
    /\ part \in Nat
    /\ misread \in BOOLEAN
    /\ buffer \in Seq(Kind)
    /\ misread => buffer = <<>>

\* The message that comes after the last one handled.
First == arrived - Len(buffer) + 1

\* The buffer that ProcessControlMessage works on is a run of the messages
\* written, from the one after the last handled to the last that has arrived.
LEMMA BufferIsRun ==
  ASSUME ControlIInv, ~misread, NEW a \in arrived..Len(written)
  PROVE  /\ buffer \o SubSeq(written, arrived + 1, a) = SubSeq(written, First, a)
         /\ First \in 1..(arrived + 1)
         /\ SubSeq(written, First, a) \in Seq(Kind)
         /\ Len(SubSeq(written, First, a)) = a - First + 1
         /\ First <= a => /\ Head(SubSeq(written, First, a)) = written[First]
                          /\ Tail(SubSeq(written, First, a))
                                = SubSeq(written, First + 1, a)
                          /\ written[First] \in Kind
<1>1. /\ written \in Seq(Kind) /\ Len(written) \in Nat
      /\ arrived \in 0..Len(written) /\ a \in Nat
      /\ buffer = SubSeq(written, First, arrived)
      /\ Len(buffer) <= arrived
  BY DEF ControlIInv, TypeOK, First
<1>2. Len(buffer) \in Nat
  BY DEF ControlIInv
<1>3. First \in 1..(arrived + 1)
  BY <1>1, <1>2 DEF First
<1>4. \A i \in First..a : written[i] \in Kind
  BY <1>1, <1>3, ElementOfSeq
<1>5. buffer \o SubSeq(written, arrived + 1, a) = SubSeq(written, First, a)
  BY <1>1, <1>3, ConcatAdjacentSubSeq
<1>6. /\ SubSeq(written, First, a) \in Seq(Kind)
      /\ Len(SubSeq(written, First, a)) = a - First + 1
  BY <1>1, <1>3, <1>4, SubSeqProperties
<1>7. ASSUME First <= a
      PROVE  /\ Head(SubSeq(written, First, a)) = written[First]
             /\ Tail(SubSeq(written, First, a)) = SubSeq(written, First + 1, a)
             /\ written[First] \in Kind
  BY <1>1, <1>3, <1>4, <1>7, HeadTailOfSubSeq
<1> QED
  BY <1>3, <1>5, <1>6, <1>7

\* What ProcessControlMessage leaves behind when the receiver is in step and a
\* messages have arrived: nothing, and there was nothing; or it has handled
\* the next message and keeps the rest; or that message threw and the buffer
\* is cleared.
LEMMA ProcessInStep ==
  ASSUME ControlIInv, ~misread, NEW a \in arrived..Len(written), NEW p,
         ProcessControlMessage(buffer \o SubSeq(written, arrived + 1, a), p)
  PROVE  \/ /\ a = arrived /\ First = arrived + 1
            /\ buffer' = <<>> /\ ~misread' /\ handled' = handled
         \/ /\ First <= a
            /\ handled' = Append(handled, written[First])
            /\ buffer' = SubSeq(written, First + 1, a)
            /\ buffer' \in Seq(Kind) /\ Len(buffer') = a - First
            /\ ~misread'
         \/ /\ First <= a /\ written[First] \in Bad
            /\ handled' = Append(handled, written[First])
            /\ buffer' = <<>> /\ misread' = (p > 0)
<1> DEFINE buf == SubSeq(written, First, a)
<1>1. /\ First \in 1..(arrived + 1)
      /\ buf \in Seq(Kind)
      /\ Len(buf) = a - First + 1
      /\ First <= a => /\ Head(buf) = written[First]
                       /\ Tail(buf) = SubSeq(written, First + 1, a)
                       /\ written[First] \in Kind
  BY BufferIsRun
<1>2. ProcessControlMessage(buf, p)
  BY BufferIsRun
<1>3. arrived \in Nat /\ a \in Nat /\ arrived <= a
  BY DEF ControlIInv, TypeOK
<1> HIDE DEF buf
<1>4. buf # <<>> => First <= a
  BY <1>1, <1>3
<1>5. CASE buf # <<>> /\ Head(buf) \notin Bad
  <2>1. handled' = Append(handled, Head(buf)) /\ buffer' = Tail(buf) /\ misread' = misread
    BY <1>2, <1>5 DEF ProcessControlMessage
  <2>2. Tail(buf) \in Seq(Kind) /\ Len(Tail(buf)) = Len(buf) - 1
    BY <1>1, <1>5, HeadTailProperties
  <2> QED BY <1>1, <1>3, <1>4, <1>5, <2>1, <2>2
<1>6. CASE buf # <<>> /\ Head(buf) \in Bad
  <2>1. handled' = Append(handled, Head(buf)) /\ buffer' = <<>> /\ misread' = (misread \/ p > 0)
    BY <1>2, <1>6 DEF ProcessControlMessage
  <2>2. misread' = (p > 0)
    BY <2>1 DEF ControlIInv
  <2> QED BY <1>1, <1>4, <1>6, <2>1, <2>2
<1>7. CASE buf = <<>>
  <2>1. handled' = handled /\ buffer' = buf /\ misread' = misread
    BY <1>2, <1>7 DEF ProcessControlMessage
  <2>2. a = arrived /\ First = arrived + 1
    BY <1>1, <1>3, <1>7
  <2> QED BY <1>7, <2>1, <2>2
<1> QED
  BY <1>5, <1>6, <1>7

\* Out of step there is nothing whole in the buffer: whatever arrives, no
\* message is kept, and at most some bytes are taken for one.
LEMMA ProcessOutOfStep ==
  ASSUME ControlIInv, misread, NEW p, ProcessControlMessage(buffer, p)
  PROVE  /\ buffer' = <<>> /\ misread'
         /\ handled' \in {handled, Append(handled, Junk)}
  BY DEF ControlIInv, ProcessControlMessage

\* A chunk as OnRecvStream gets it: a messages and p units of the next.
Chunk(a, p) ==
    /\ a \in arrived..Len(written) /\ p \in Nat
    /\ p > 0 => a < Len(written)
    /\ OnRecvStream(a, p)

\* Every step is a message sent, a chunk received or a new connection.
LEMMA NextCases ==
  ASSUME ControlIInv, ControlNext
  PROVE  \/ \E k \in Kind : SendControl(k)
         \/ \E a, p : Chunk(a, p)
         \/ Connect
<1>1. ASSUME NEW a \in arrived..Len(written), OnRecvStream(a, 0)
      PROVE  Chunk(a, 0)
  BY <1>1 DEF Chunk
<1>2. ASSUME NEW a \in arrived..Len(written), a < Len(written),
             NEW p \in 1..(Size[written[a + 1]] - 1), OnRecvStream(a, p)
      PROVE  Chunk(a, p)
  <2>1. a + 1 \in 1..Len(written)
    BY <1>2 DEF ControlIInv, TypeOK
  <2>2. Size[written[a + 1]] \in Nat
    BY <2>1, ControlStreamAssumption, ElementOfSeq DEF ControlIInv, TypeOK
  <2> QED BY <1>2, <2>2 DEF Chunk
<1> QED
  BY <1>1, <1>2 DEF ControlNext

\* A chunk preserves the invariant, in step or not.
LEMMA ChunkKeepsInvariant ==
  ASSUME ControlIInv, NEW a, NEW p, Chunk(a, p)
  PROVE  ControlIInv'
<1>1. /\ written \in Seq(Kind) /\ Len(written) \in Nat
      /\ handled \in Seq(Kind \cup {Junk})
      /\ arrived \in Nat /\ a \in arrived..Len(written) /\ a \in Nat
      /\ written' = written /\ arrived' = a /\ part' = p /\ p \in Nat
      /\ p > 0 => a < Len(written) /\ p < Size[written[a + 1]]
  BY DEF ControlIInv, TypeOK, Chunk, OnRecvStream
<1>2. /\ handled' \in Seq(Kind \cup {Junk}) /\ misread' \in BOOLEAN
      /\ buffer' \in Seq(Kind)
      /\ misread' => buffer' = <<>>
      /\ Len(buffer') <= a
      /\ buffer' = SubSeq(written, a - Len(buffer') + 1, a)
  <2>1. CASE misread
    <3>1. ProcessControlMessage(buffer, p)
      BY <2>1 DEF Chunk, OnRecvStream
    <3>2. /\ buffer' = <<>> /\ misread'
          /\ handled' \in {handled, Append(handled, Junk)}
      BY <2>1, <3>1, ProcessOutOfStep
    <3>3. SubSeq(written, a - 0 + 1, a) = <<>>
      BY <1>1, SubSeqEmpty
    <3>4. misread' \in BOOLEAN
      BY <2>1, <3>1, <3>2 DEF ProcessControlMessage, ControlIInv
    <3> QED BY <1>1, <3>2, <3>3, <3>4, AppendProperties, EmptySeq
  <2>2. CASE ~misread
    <3>1. ProcessControlMessage(buffer \o SubSeq(written, arrived + 1, a), p)
      BY <2>2 DEF Chunk, OnRecvStream
    <3>2. First \in 1..(arrived + 1)
          /\ (First <= a => written[First] \in Kind)
      BY <1>1, <2>2, BufferIsRun
    <3>3. SubSeq(written, a - 0 + 1, a) = <<>>
      BY <1>1, SubSeqEmpty
    <3>4. misread' \in BOOLEAN
      BY <2>2, <3>1 DEF ProcessControlMessage, ControlIInv
    <3>5. CASE /\ a = arrived /\ First = arrived + 1
               /\ buffer' = <<>> /\ ~misread' /\ handled' = handled
      BY <1>1, <3>3, <3>4, <3>5, EmptySeq
    <3>6. CASE /\ First <= a
               /\ handled' = Append(handled, written[First])
               /\ buffer' = SubSeq(written, First + 1, a)
               /\ buffer' \in Seq(Kind) /\ Len(buffer') = a - First
               /\ ~misread'
      <4>1. handled' \in Seq(Kind \cup {Junk})
        BY <1>1, <3>2, <3>6, AppendProperties
      <4>2. a - Len(buffer') + 1 = First + 1 /\ Len(buffer') <= a
        BY <1>1, <3>2, <3>6
      <4> QED BY <3>4, <3>6, <4>1, <4>2
    <3>7. CASE /\ First <= a /\ written[First] \in Bad
               /\ handled' = Append(handled, written[First])
               /\ buffer' = <<>> /\ misread' = (p > 0)
      <4>1. handled' \in Seq(Kind \cup {Junk})
        BY <1>1, <3>2, <3>7, AppendProperties
      <4> QED BY <1>1, <3>3, <3>4, <3>7, <4>1, EmptySeq
    <3> QED BY <1>1, <2>2, <3>1, <3>5, <3>6, <3>7, ProcessInStep
  <2> QED BY <2>1, <2>2
<1>3. TypeOK'
  <2>1. a \in 0..Len(written)
    BY <1>1
  <2> QED BY <1>1, <1>2, <2>1 DEF TypeOK
<1> QED
  BY <1>1, <1>2, <1>3 DEF ControlIInv

\* Two sequences that agree between two positions have the same piece there.
LEMMA SubSeqAgree ==
  ASSUME NEW S, NEW s, NEW u, NEW m \in Int, NEW n \in Int,
         \A i \in m..n : s[i] \in S /\ u[i] = s[i]
  PROVE  SubSeq(u, m, n) = SubSeq(s, m, n)
<1> DEFINE old == SubSeq(s, m, n)
           new == SubSeq(u, m, n)
<1>1. /\ old \in Seq(S) /\ Len(old) = IF m <= n THEN n - m + 1 ELSE 0
      /\ \A i \in 1..(n - m + 1) : old[i] = s[m + i - 1]
  BY SubSeqProperties
<1>2. \A i \in m..n : u[i] \in S
  OBVIOUS
<1>3. /\ new \in Seq(S) /\ Len(new) = IF m <= n THEN n - m + 1 ELSE 0
      /\ \A i \in 1..(n - m + 1) : new[i] = u[m + i - 1]
  BY <1>2, SubSeqProperties
<1> HIDE DEF old, new
<1>4. ASSUME NEW i \in 1..Len(old) PROVE old[i] = new[i]
  <2>1. i \in 1..(n - m + 1) /\ m + i - 1 \in m..n
    BY <1>1
  <2> QED BY <1>1, <1>3, <2>1
<1>5. new = old
  BY <1>1, <1>3, <1>4, SeqEqual
<1> QED BY <1>5 DEF old, new

\* Every step preserves the invariant.
LEMMA ControlNextKeepsInvariant ==
  ASSUME Inbound, ControlIInv, [ControlNext]_controlVars
  PROVE  ControlIInv'
<1>1. ASSUME NEW k \in Kind, SendControl(k)
      PROVE  ControlIInv'
  <2>1. /\ written' = Append(written, k)
        /\ handled' = handled /\ arrived' = arrived /\ part' = part
        /\ buffer' = buffer /\ misread' = misread
    BY <1>1 DEF SendControl
  <2>2. /\ written \in Seq(Kind) /\ Len(written) \in Nat /\ arrived \in 0..Len(written)
        /\ Len(buffer) \in Nat /\ Len(buffer) <= arrived
    BY DEF ControlIInv, TypeOK
  <2>3. /\ written' \in Seq(Kind) /\ Len(written') = Len(written) + 1
        /\ \A i \in 1..Len(written) : written'[i] = written[i]
    BY <2>1, <2>2, AppendProperties
  <2>4. SubSeq(written', First, arrived) = SubSeq(written, First, arrived)
    <3>1. First \in Int /\ First \in 1..(arrived + 1) /\ arrived \in Int
      BY <2>2 DEF First
    <3>2. ASSUME NEW i \in First..arrived
          PROVE  written[i] \in Kind /\ written'[i] = written[i]
      <4>1. i \in 1..Len(written)
        BY <2>2, <3>1
      <4> QED BY <2>2, <2>3, <4>1, ElementOfSeq
    <3> QED BY <3>1, <3>2, SubSeqAgree
  <2>5. part > 0 => arrived < Len(written') /\ part < Size[written'[arrived + 1]]
    <3>1. part > 0 => arrived < Len(written) /\ part < Size[written[arrived + 1]]
      BY DEF ControlIInv, TypeOK
    <3> SUFFICES ASSUME part > 0
                 PROVE  arrived < Len(written') /\ part < Size[written'[arrived + 1]]
      OBVIOUS
    <3>2. arrived + 1 \in 1..Len(written)
      BY <2>2, <3>1
    <3>3. written'[arrived + 1] = written[arrived + 1]
      BY <2>3, <3>2
    <3> QED BY <2>2, <2>3, <3>1, <3>3
  <2>6. buffer = SubSeq(written', First, arrived)
    BY <2>4 DEF ControlIInv, TypeOK, First
  <2>7. arrived \in 0..Len(written')
    BY <2>2, <2>3
  <2>8. TypeOK'
    BY <2>1, <2>2, <2>3, <2>5, <2>6, <2>7 DEF ControlIInv, TypeOK, First
  <2> QED BY <2>1, <2>8 DEF ControlIInv
<1>2. ASSUME NEW a, NEW p, Chunk(a, p)
      PROVE  ControlIInv'
  BY <1>2, ChunkKeepsInvariant
<1>3. ASSUME Connect
      PROVE  ControlIInv'
  <2>1. /\ written' = <<>> /\ arrived' = 0 /\ part' = 0 /\ handled' = <<>>
        /\ buffer' = <<>> /\ misread' = FALSE
    BY <1>3 DEF Connect
  <2>2. /\ Len(<<>>) = 0 /\ <<>> \in Seq(Kind) /\ <<>> \in Seq(Kind \cup {Junk})
        /\ SubSeq(<<>>, 0 - Len(<<>>) + 1, 0) = <<>>
    BY SubSeqEmpty, EmptySeq
  <2>3. TypeOK'
    BY <2>1, <2>2 DEF TypeOK
  <2> QED BY <2>1, <2>2, <2>3 DEF ControlIInv
<1>4. ASSUME UNCHANGED controlVars
      PROVE  ControlIInv'
  BY <1>4 DEF controlVars, ControlIInv, TypeOK
<1> QED
  BY <1>1, <1>2, <1>3, <1>4, NextCases

\* A new PeerSession starts with an empty buffer and nothing handled.
LEMMA ControlInitInvariant ==
  ASSUME ControlInit
  PROVE  ControlIInv
<1>1. /\ Len(<<>>) = 0 /\ <<>> \in Seq(Kind) /\ <<>> \in Seq(Kind \cup {Junk})
      /\ SubSeq(<<>>, 0 - Len(<<>>) + 1, 0) = <<>>
  BY SubSeqEmpty, EmptySeq
<1>2. TypeOK
  BY <1>1 DEF ControlInit, TypeOK
<1> QED
  BY <1>1, <1>2 DEF ControlInit, ControlIInv

\* The buffer holds exactly the messages that have arrived and are not handled.
THEOREM ControlStreamTypeOK ==
  ASSUME Inbound
  PROVE  ControlSpec => []TypeOK
<1>1. ControlInit => ControlIInv
  BY ControlInitInvariant
<1>2. ControlIInv /\ [ControlNext]_controlVars => ControlIInv'
  BY ControlNextKeepsInvariant
<1>3. ControlIInv => TypeOK
  BY DEF ControlIInv
<1> QED
  BY <1>1, <1>2, <1>3, PTL DEF ControlSpec

-----------------------------------------------------------------------------
\* A chunk is a step of ControlChannel, or none: the next message is handled,
\* or it threw, or the receiver is and stays out of step.
LEMMA ChunkIsChannelStep ==
  ASSUME ControlIInv, ControlIInv', NEW a, NEW p, Chunk(a, p)
  PROVE  [Channel!Next]_(Channel!vars)
<1>1. /\ Len(written) \in Nat /\ arrived \in Nat
      /\ a \in arrived..Len(written) /\ a \in Nat /\ p \in Nat
      /\ written' = written /\ arrived' = a
  BY DEF ControlIInv, TypeOK, Chunk, OnRecvStream
<1>2. CASE misread
  <2>1. misread'
    BY <1>2, ProcessOutOfStep DEF Chunk, OnRecvStream
  <2> QED BY <1>1, <1>2, <2>1 DEF Channel!Next, Channel!OutOfStep
<1>3. CASE ~misread
  <2>1. First \in 1..(arrived + 1) /\ Len(buffer) \in Nat
    BY <1>1, <1>3, BufferIsRun DEF ControlIInv
  <2>2. CASE /\ a = arrived /\ First = arrived + 1
             /\ buffer' = <<>> /\ ~misread' /\ handled' = handled
    <3>1. Len(buffer') = 0 /\ Len(buffer) = 0
      BY <1>1, <2>1, <2>2, EmptySeq DEF First
    <3>2. misread' = misread
      BY <1>3, <2>2 DEF ControlIInv
    <3> QED BY <1>1, <2>2, <3>1, <3>2 DEF Channel!vars
  <2>3. CASE /\ First <= a
             /\ handled' = Append(handled, written[First])
             /\ Len(buffer') = a - First
             /\ ~misread'
    <3>1. First <= Len(written) /\ arrived' - Len(buffer') + 1 = First + 1
      BY <1>1, <2>1, <2>3
    <3>2. misread' = misread
      BY <1>3, <2>3 DEF ControlIInv
    <3>3. Channel!Handle
      BY <1>1, <1>3, <2>3, <3>1, <3>2 DEF Channel!Handle, First
    <3> QED BY <3>3 DEF Channel!Next
  <2>4. CASE /\ First <= a /\ written[First] \in Bad
             /\ handled' = Append(handled, written[First])
             /\ buffer' = <<>>
    <3>1. Len(buffer') = 0
      BY <2>4, EmptySeq
    <3>2. /\ First <= Len(written)
          /\ arrived' - Len(buffer') + 1 \in (First + 1)..(Len(written) + 1)
      BY <1>1, <2>1, <2>4, <3>1
    <3>3. misread' \in BOOLEAN
      BY DEF ControlIInv
    <3>4. Channel!Throw
      BY <1>1, <1>3, <2>4, <3>2, <3>3 DEF Channel!Throw, First
    <3> QED BY <3>4 DEF Channel!Next
  <2> QED BY <1>1, <1>3, <2>2, <2>3, <2>4, ProcessInStep DEF Chunk, OnRecvStream
<1> QED
  BY <1>2, <1>3

\* Every step of the stream maps to a step of the channel.
LEMMA StepIsChannelStep ==
  ASSUME Inbound, ControlIInv, [ControlNext]_controlVars
  PROVE  [Channel!Next]_(Channel!vars)
<1>1. ControlIInv'
  BY ControlNextKeepsInvariant
<1>2. ASSUME NEW k \in Kind, SendControl(k)
      PROVE  Channel!Write
  BY <1>2 DEF SendControl, Channel!Write
<1>3. ASSUME NEW a, NEW p, Chunk(a, p)
      PROVE  [Channel!Next]_(Channel!vars)
  BY <1>1, <1>3, ChunkIsChannelStep
<1>4. ASSUME Connect
      PROVE  Channel!NewConnection
  <2>1. Len(<<>>) = 0
    BY EmptySeq
  <2> QED BY <1>4, <2>1 DEF Connect, Channel!NewConnection
<1>5. ASSUME UNCHANGED controlVars
      PROVE  UNCHANGED Channel!vars
  BY <1>5 DEF controlVars, Channel!vars
<1> QED
  BY <1>2, <1>3, <1>4, <1>5, NextCases DEF Channel!Next

\* The stream implements the channel: however the bytes are cut into chunks,
\* the messages of a connection are handled in order, none twice, and one is
\* skipped only together with one whose handler threw.
THEOREM ControlStreamImplementsChannel ==
  ASSUME Inbound
  PROVE  ControlSpec => ImplementsChannel
<1>1. ControlInit => ControlIInv
  BY ControlInitInvariant
<1>2. ControlIInv /\ [ControlNext]_controlVars => ControlIInv'
  BY ControlNextKeepsInvariant
<1>3. ControlInit => Channel!Init
  <2>1. Len(<<>>) = 0
    BY EmptySeq
  <2> QED BY <2>1 DEF ControlInit, Channel!Init
<1>4. ControlIInv /\ [ControlNext]_controlVars => [Channel!Next]_(Channel!vars)
  BY StepIsChannelStep
<1> QED
  BY <1>1, <1>2, <1>3, <1>4, PTL DEF ControlSpec, ImplementsChannel, Channel!Spec

-----------------------------------------------------------------------------
(***************************************************************************)
(* Fanout                                                                  *)
(***************************************************************************)

\* The number of the last unit of a stream.
N == Objects * ObjectSize

-----------------------------------------------------------------------------
(***************************************************************************)
(* Arithmetic of objects                                                   *)
(***************************************************************************)

\* Products grow with their first factor.
LEMMA ProductGrows ==
  ASSUME NEW a \in Int, NEW b \in Int, NEW k \in Nat, a <= b
  PROVE  a * k <= b * k
<1>1. (b - a) * k >= 0
  BY SMTT(30)
<1>2. (b - a) * k = b * k - a * k
  BY SMTT(30)
<1> QED
  BY <1>1, <1>2

\* The first unit of an object is one after a whole number of objects.
LEMMA FirstUnitMod ==
  ASSUME NEW k \in Nat, NEW n \in Nat \ {0}
  PROVE  (k * n + 1) % n = 1 % n
<1> DEFINE x == k * n + 1
           q == x \div n
           r == x % n
<1>1. x \in Nat
  OBVIOUS
<1>2. q \in Int /\ r \in 0..(n - 1) /\ x = n * q + r
  BY <1>1
<1>3. CASE n = 1
  BY <1>2, <1>3
<1>4. CASE n > 1
  <2>1. 1 % n = 1
    BY <1>4
  <2>2. n * q + r = k * n + 1
    BY <1>2
  <2> HIDE DEF q, r
  <2>3. n * q = q * n
    BY <1>2
  <2>4. CASE q >= k + 1
    <3>1. (k + 1) * n <= q * n
      BY <1>2, <2>4, ProductGrows
    <3>2. (k + 1) * n = k * n + n
      OBVIOUS
    <3> QED BY <1>2, <1>4, <2>1, <2>2, <2>3, <3>1, <3>2
  <2>5. CASE q <= k - 1
    <3>1. q * n <= (k - 1) * n
      BY <1>2, <2>5, ProductGrows
    <3>2. (k - 1) * n = k * n - n
      OBVIOUS
    <3> QED BY <1>2, <1>4, <2>1, <2>2, <2>3, <3>1, <3>2
  <2>6. CASE q = k
    <3>1. r = 1
      BY <1>2, <2>2, <2>3, <2>6
    <3> QED BY <2>1, <3>1 DEF r
  <2> QED BY <1>2, <2>4, <2>5, <2>6
<1> QED
  BY <1>3, <1>4

-----------------------------------------------------------------------------
(***************************************************************************)
(* Runs of units                                                           *)
(***************************************************************************)

\* A sequence of the units from first on up to the one before next, with no
\* hole, though some may come again.
Run(o, first, next) ==
    /\ o \in Seq(Nat) /\ Len(o) > 0
    /\ o[1] = first
    /\ o[Len(o)] = next - 1
    /\ \A i \in 1..Len(o) : first <= o[i] /\ o[i] < next
    /\ \A u \in first..(next - 1) : \E i \in 1..Len(o) : o[i] = u
    /\ \A i \in 1..(Len(o) - 1) : o[i + 1] <= o[i] + 1

\* Units sent at once are a run.
LEMMA UnitsRun ==
  ASSUME NEW from \in Nat, NEW to \in Nat, from <= to
  PROVE  Run(Units(from, to), from, to + 1)
<1> DEFINE o == Units(from, to)
<1>1. PICK n \in Nat : n = to - from + 1 /\ n > 0
  OBVIOUS
<1>2. o \in Seq(Nat) /\ Len(o) = n /\ \A i \in 1..n : o[i] = from + i - 1
  BY <1>1, UnitsSeq
<1> HIDE DEF o
<1>3. \A u \in from..to : u - from + 1 \in 1..n /\ o[u - from + 1] = u
  BY <1>1, <1>2
<1>4. \A u \in from..(to + 1 - 1) : \E i \in 1..Len(o) : o[i] = u
  BY <1>1, <1>2, <1>3
<1>5. Run(o, from, to + 1)
  <2>1. o[1] = from /\ o[Len(o)] = to + 1 - 1
    <3>1. o[1] = from + 1 - 1 /\ o[n] = from + n - 1
      BY <1>1, <1>2
    <3> QED BY <1>1, <1>2, <3>1
  <2>2. \A i \in 1..Len(o) : from <= o[i] /\ o[i] < to + 1
    BY <1>1, <1>2
  <2>3. \A i \in 1..(Len(o) - 1) : o[i + 1] <= o[i] + 1
    <3> TAKE i \in 1..(Len(o) - 1)
    <3>1. i \in 1..n /\ i + 1 \in 1..n
      BY <1>1, <1>2
    <3>2. o[i] = from + i - 1 /\ o[i + 1] = from + (i + 1) - 1
      BY <1>2, <3>1
    <3> QED BY <3>1, <3>2
  <2>4. Len(o) > 0
    BY <1>1, <1>2
  <2> QED BY <1>2, <1>4, <2>1, <2>2, <2>3, <2>4 DEF Run
<1> QED
  BY <1>5 DEF o

\* A run goes on with units that come at most one after its last.
LEMMA RunContinues ==
  ASSUME NEW o, NEW first \in Nat, NEW next \in Nat, Run(o, first, next),
         NEW from \in Nat, NEW to \in Nat,
         first <= from, from <= next, from <= to, next <= to + 1
  PROVE  Run(o \o Units(from, to), first, to + 1)
<1> DEFINE u == Units(from, to)
           w == o \o u
<1>1. PICK n \in Nat : n = to - from + 1 /\ n > 0
  OBVIOUS
<1>2. u \in Seq(Nat) /\ Len(u) = n /\ \A i \in 1..n : u[i] = from + i - 1
  <2>1. n = to - from + 1 /\ to \in Int
    BY <1>1
  <2> QED BY <2>1, UnitsSeq
<1>3. PICK m \in Nat : m = Len(o) /\ m > 0
  BY LenProperties DEF Run
<1>4. o \in Seq(Nat)
  BY DEF Run
<1> HIDE DEF u
<1>5. w \in Seq(Nat) /\ Len(w) = m + n
  <2>1. w \in Seq(Nat) /\ Len(w) = Len(o) + Len(u)
    BY <1>2, <1>4, ConcatProperties
  <2> QED BY <1>2, <1>3, <2>1
<1>6. \A i \in 1..(m + n) : w[i] = IF i <= m THEN o[i] ELSE u[i - m]
  <2> TAKE i \in 1..(m + n)
  <2>1. i \in 1..(Len(o) + Len(u))
    BY <1>2, <1>3
  <2> QED BY <1>2, <1>3, <1>4, <2>1, ConcatProperties
<1> HIDE DEF w
<1>7. /\ \A i \in 1..m : w[i] = o[i]
      /\ \A i \in 1..n : w[m + i] = from + i - 1
  <2>1. \A i \in 1..m : i \in 1..(m + n)
    OBVIOUS
  <2>2. \A i \in 1..n : m + i \in 1..(m + n) /\ ~ (m + i <= m) /\ m + i - m = i
    OBVIOUS
  <2> QED BY <1>2, <1>6, <2>1, <2>2
<1>8. /\ o[1] = first /\ o[m] = next - 1
      /\ \A i \in 1..m : first <= o[i] /\ o[i] < next /\ o[i] \in Nat
      /\ \A x \in first..(next - 1) : \E i \in 1..m : o[i] = x
      /\ \A i \in 1..(m - 1) : o[i + 1] <= o[i] + 1
  BY <1>3, ElementOfSeq DEF Run
<1>9. w[1] = first /\ w[m + n] = to + 1 - 1
  <2>1. 1 \in 1..m /\ n \in 1..n
    BY <1>1, <1>3
  <2>2. w[1] = o[1] /\ w[m + n] = from + n - 1
    BY <1>7, <2>1
  <2> QED BY <1>1, <1>8, <2>2
<1>10. \A i \in 1..(m + n) : first <= w[i] /\ w[i] < to + 1
  <2> TAKE i \in 1..(m + n)
  <2>1. CASE i <= m
    BY <1>7, <1>8, <2>1
  <2>2. CASE i > m
    <3>1. i - m \in 1..n /\ i = m + (i - m)
      BY <2>2
    <3>2. w[i] = from + (i - m) - 1
      BY <1>7, <3>1
    <3> QED BY <1>1, <3>1, <3>2
  <2> QED BY <2>1, <2>2
<1>11. \A x \in first..(to + 1 - 1) : \E i \in 1..(m + n) : w[i] = x
  <2> TAKE x \in first..(to + 1 - 1)
  <2>1. CASE x < from
    <3>1. x \in first..(next - 1)
      BY <2>1
    <3>2. PICK i \in 1..m : o[i] = x
      BY <1>8, <3>1
    <3>3. i \in 1..(m + n) /\ w[i] = x
      BY <1>7, <3>2
    <3> QED BY <3>3
  <2>2. CASE x >= from
    <3>1. x - from + 1 \in 1..n /\ from + (x - from + 1) - 1 = x
      BY <1>1, <2>2
    <3>2. m + (x - from + 1) \in 1..(m + n)
      BY <3>1
    <3>3. w[m + (x - from + 1)] = x
      BY <1>7, <3>1
    <3> QED BY <3>2, <3>3
  <2> QED BY <2>1, <2>2
<1>12. \A i \in 1..(m + n - 1) : w[i + 1] <= w[i] + 1
  <2> TAKE i \in 1..(m + n - 1)
  <2>1. CASE i < m
    <3>1. i \in 1..m /\ i + 1 \in 1..m /\ i \in 1..(m - 1)
      BY <2>1
    <3> QED BY <1>7, <1>8, <3>1
  <2>2. CASE i = m
    <3>1. w[m] = next - 1 /\ w[m + 1] = from + 1 - 1
      BY <1>1, <1>3, <1>7, <1>8
    <3> QED BY <2>2, <3>1
  <2>3. CASE i > m
    <3>1. i - m \in 1..n /\ i - m + 1 \in 1..n
      BY <2>3
    <3>2. w[m + (i - m)] = from + (i - m) - 1 /\ w[m + (i - m + 1)] = from + (i - m + 1) - 1
      BY <1>7, <3>1
    <3>3. m + (i - m) = i /\ m + (i - m + 1) = i + 1
      OBVIOUS
    <3> QED BY <3>2, <3>3
  <2> QED BY <2>1, <2>2, <2>3
<1>13. Run(w, first, to + 1)
  <2>1. Len(w) > 0
    BY <1>3, <1>5
  <2>2. PICK l \in Nat : l = m + n
    OBVIOUS
  <2> QED BY <1>5, <1>9, <1>10, <1>11, <1>12, <2>1, <2>2 DEF Run
<1> QED
  BY <1>13 DEF w, u

\* Units of a stream, none of them twice, are a sequence over its units.
LEMMA UnitsOver ==
  ASSUME NEW from \in Nat, NEW to \in Int, from <= to + 1,
         NEW m \in Nat, to <= m
  PROVE  /\ Units(from, to) \in Seq(0..m)
         /\ Units(from, to) = <<>> <=> from = to + 1
         /\ from <= to => Units(from, to)[1] = from /\ Len(Units(from, to)) > 0
<1> DEFINE u == Units(from, to)
<1>1. PICK n \in Nat : n = to - from + 1
  OBVIOUS
<1>2. Len(u) = n /\ u \in Seq(Nat) /\ \A i \in 1..n : u[i] = from + i - 1
  <2>1. n = to - from + 1
    BY <1>1
  <2> QED BY <2>1, UnitsSeq
<1>3. u \in Seq(0..m)
  <2>1. u = [i \in 1..n |-> from + i - 1]
    BY <1>1 DEF Units
  <2>2. u \in [1..n -> 0..m]
    BY <1>1, <2>1
  <2> HIDE DEF u
  <2> QED BY <2>2, SeqDef
<1>4. u = <<>> <=> n = 0
  BY <1>2, EmptySeq
<1>5. from <= to => u[1] = from /\ Len(u) > 0
  <2> SUFFICES ASSUME from <= to PROVE u[1] = from /\ Len(u) > 0
    OBVIOUS
  <2>1. n > 0 /\ 1 \in 1..n
    BY <1>1
  <2>2. u[1] = from + 1 - 1
    BY <1>2, <2>1
  <2> QED BY <1>2, <2>1, <2>2
<1> QED
  BY <1>1, <1>3, <1>4, <1>5

\* What follows a nonempty beginning does not change how it starts.
LEMMA ConcatStart ==
  ASSUME NEW S, NEW a \in Seq(S), NEW b \in Seq(S)
  PROVE  /\ a \o b \in Seq(S)
         /\ a # <<>> => a \o b # <<>> /\ (a \o b)[1] = a[1]
         /\ a = <<>> => a \o b = b
         /\ b = <<>> => a \o b = a
<1>1. /\ a \o b \in Seq(S) /\ Len(a \o b) = Len(a) + Len(b)
      /\ \A i \in 1..(Len(a) + Len(b)) : (a \o b)[i] = IF i <= Len(a) THEN a[i] ELSE b[i - Len(a)]
      /\ Len(a) \in Nat /\ Len(b) \in Nat
  BY ConcatProperties, LenProperties
<1>2. ASSUME a # <<>>
      PROVE  a \o b # <<>> /\ (a \o b)[1] = a[1]
  <2>1. Len(a) \in Nat \ {0}
    BY <1>2, EmptySeq
  <2>2. 1 \in 1..(Len(a) + Len(b)) /\ 1 <= Len(a)
    BY <1>1, <2>1
  <2>3. Len(a \o b) # 0
    BY <1>1, <2>1
  <2> QED BY <1>1, <2>2, <2>3, EmptySeq
<1> QED
  BY <1>1, <1>2, ConcatEmptySeq

-----------------------------------------------------------------------------
(***************************************************************************)
(* The inductive invariant                                                 *)
(***************************************************************************)
FanoutTypes ==
    /\ group \in [Track -> 0..MaxGroup]
    /\ recv \in [Track -> 0..(N + 1)]
    /\ parsed \in [Track -> 0..Objects]
    /\ subs \in [Track -> SUBSET Sub]
    /\ fed \in [Track -> [Sub -> Seq(0..N)]]
    /\ paused \subseteq Track \X NsClient

\* No object is taken from the buffer before its last unit is there.
ParsedIsThere ==
    \A t \in Track : recv[t] > 0 => parsed[t] * ObjectSize < recv[t]

\* ClientStreamComplete says where a client's stream begins and what it has.
\* Inductive it is only with where it ends, the last unit received, and with
\* its beginning among the objects that were taken from the buffer: what is
\* left there, and sent again, comes after them.
ClientRun ==
    \A t \in Track : \A s \in Client \cup NsClient :
        fed[t][s] # <<>> =>
            \E k \in Nat : /\ k * ObjectSize + 1 <= parsed[t] * ObjectSize
                           /\ Run(fed[t][s], k * ObjectSize + 1, recv[t])

FanoutInv ==
    /\ FanoutTypes
    /\ ParsedIsThere
    /\ ClientRun
    /\ PeerStartsWithHeader
    /\ NoOrphanStream

\* What StreamDataRecv of the units up to last works with: the objects taken
\* so far, the units received, the next object and what comes after it.
Done(t) == IF recv[t] = 0 THEN 0 ELSE parsed[t]

Data(t, last) == Units(recv[t], last)

Object(t) == Units(Done(t) * ObjectSize + 1, (Done(t) + 1) * ObjectSize)

Rest(t, last) == Units((Done(t) + 1) * ObjectSize + 1, last)

Complete(t, last) == last >= (Done(t) + 1) * ObjectSize

\* Where the objects of a stream are.
LEMMA ObjectBounds ==
  ASSUME FanoutInv, NEW t \in Track, NEW last \in 0..N, recv[t] <= last
  PROVE  /\ N \in Nat /\ recv[t] \in Nat /\ ObjectSize \in Nat /\ ObjectSize > 0
         /\ Done(t) \in Nat /\ Done(t) * ObjectSize \in Nat
         /\ (Done(t) + 1) * ObjectSize = Done(t) * ObjectSize + ObjectSize
         /\ Done(t) * ObjectSize <= last
         /\ Done(t) \in 0..Objects
         /\ Complete(t, last) => Done(t) + 1 \in 0..Objects
         /\ Data(t, last) \in Seq(0..N) /\ Data(t, last) # <<>>
         /\ Data(t, last)[1] = recv[t]
         /\ Complete(t, last) =>
              /\ Object(t) \in Seq(0..N) /\ Object(t) # <<>>
              /\ Rest(t, last) \in Seq(0..N)
              /\ Rest(t, last) = <<>> <=> last = (Done(t) + 1) * ObjectSize
<1>1. /\ Objects \in Nat /\ ObjectSize \in Nat /\ ObjectSize > 0
      /\ recv[t] \in 0..(N + 1) /\ parsed[t] \in 0..Objects
  BY FanoutAssumption DEF FanoutInv, FanoutTypes
<1>2. N \in Nat
  BY <1>1 DEF N
<1>3. recv[t] \in Nat /\ last \in Nat /\ last <= N
  BY <1>1, <1>2
<1>4. Done(t) \in Nat /\ Done(t) \in 0..Objects
  BY <1>1 DEF Done
<1>5. /\ Done(t) * ObjectSize \in Nat
      /\ (Done(t) + 1) * ObjectSize = Done(t) * ObjectSize + ObjectSize
  <2> DEFINE d == Done(t)
  <2>1. d \in Nat
    BY <1>4
  <2> HIDE DEF d
  <2>2. d * ObjectSize \in Nat /\ (d + 1) * ObjectSize = d * ObjectSize + ObjectSize
    BY <1>1, <2>1
  <2> QED BY <2>2 DEF d
<1>6. Done(t) * ObjectSize <= last
  <2>1. CASE recv[t] = 0
    BY <1>1, <1>3, <2>1 DEF Done
  <2>2. CASE recv[t] # 0
    <3>1. parsed[t] * ObjectSize < recv[t]
      BY <1>3, <2>2 DEF FanoutInv, ParsedIsThere
    <3> QED BY <1>3, <1>5, <2>2, <3>1 DEF Done
  <2> QED BY <2>1, <2>2
<1>7. ASSUME Complete(t, last)
      PROVE  Done(t) + 1 \in 0..Objects
  <2> SUFFICES ASSUME Done(t) + 1 > Objects PROVE FALSE
    BY <1>1, <1>4
  <2>1. Objects * ObjectSize <= Done(t) * ObjectSize
    BY <1>1, <1>4, ProductGrows
  <2>2. last >= Done(t) * ObjectSize + ObjectSize
    BY <1>5, <1>7 DEF Complete
  <2> QED BY <1>1, <1>2, <1>3, <1>5, <2>1, <2>2 DEF N
<1>8. Data(t, last) \in Seq(0..N) /\ Data(t, last) # <<>> /\ Data(t, last)[1] = recv[t]
  <2>1. last \in Int /\ recv[t] <= last + 1 /\ recv[t] # last + 1
    BY <1>3
  <2>2. Units(recv[t], last) \in Seq(0..N) /\ Units(recv[t], last) # <<>>
    BY <1>2, <1>3, <2>1, UnitsOver
  <2>3. Units(recv[t], last)[1] = recv[t]
    BY <1>2, <1>3, <2>1, UnitsOver
  <2> QED BY <2>2, <2>3 DEF Data
<1>9. ASSUME Complete(t, last)
      PROVE  /\ Object(t) \in Seq(0..N) /\ Object(t) # <<>>
             /\ Rest(t, last) \in Seq(0..N)
             /\ Rest(t, last) = <<>> <=> last = (Done(t) + 1) * ObjectSize
  <2> DEFINE a == Done(t) * ObjectSize
             b == (Done(t) + 1) * ObjectSize
  <2>1. a \in Nat /\ b = a + ObjectSize /\ b \in Nat /\ b <= last
    BY <1>1, <1>5, <1>9 DEF Complete
  <2> HIDE DEF a, b
  <2>2. Units(a + 1, b) \in Seq(0..N) /\ Units(a + 1, b) # <<>>
    <3>1. a + 1 \in Nat /\ b \in Int /\ a + 1 <= b + 1 /\ a + 1 # b + 1 /\ b <= N
      BY <1>1, <1>2, <1>3, <2>1
    <3> QED BY <1>2, <3>1, UnitsOver
  <2>3. Units(b + 1, last) \in Seq(0..N) /\ (Units(b + 1, last) = <<>> <=> b + 1 = last + 1)
    <3>1. b + 1 \in Nat /\ last \in Int /\ b + 1 <= last + 1 /\ last <= N
      BY <1>2, <1>3, <2>1
    <3> QED BY <1>2, <3>1, UnitsOver
  <2>4. b + 1 = last + 1 <=> last = b
    BY <1>3, <2>1
  <2> QED BY <2>2, <2>3, <2>4 DEF a, b, Object, Rest
<1> QED
  BY <1>1, <1>2, <1>3, <1>4, <1>5, <1>6, <1>7, <1>8, <1>9

\* What StreamDataRecv makes of one subscriber's stream.
LEMMA ChunkEffect ==
  ASSUME FanoutInv, NEW t \in Track, NEW last \in 0..N, StreamDataRecv(t, last), NEW s \in Sub
  PROVE  LET o   == fed[t][s]
             new == fed'[t][s]
             data == Data(t, last)
             rest == Rest(t, last)
         IN  /\ s \notin subs[t] => new = o
             /\ s \in subs[t] \ Peer =>
                  \/ o = <<>> /\ new = <<>>
                  \/ /\ o = <<>> /\ <<t, s>> \notin paused /\ Complete(t, last)
                     /\ \/ rest = <<>> /\ new = Object(t)
                        \/ rest # <<>> /\ new = Object(t) \o rest
                  \/ o # <<>> /\ new = o \o data
                  \/ o # <<>> /\ Complete(t, last) /\ rest # <<>> /\ new = (o \o data) \o rest
             /\ s \in subs[t] \cap Peer =>
                  \/ recv[t] # 0 /\ new = o
                  \/ recv[t] = 0 /\ new = o \o data
                  \/ recv[t] = 0 /\ Complete(t, last) /\ new = (o \o data) \o rest
                  \/ o # <<>> /\ new = o \o data
                  \/ o # <<>> /\ Complete(t, last) /\ new \in {o \o rest, (o \o data) \o rest}
<1> DEFINE o == fed[t][s]
           data == Data(t, last)
           rest == Rest(t, last)
           start == recv[t] = 0
           sent == ForwardReceivedData(fed[t], t, data, start)
           whole == ObjectReceived(sent, t, Object(t))
           more == ForwardReceivedData(whole, t, rest, start)
<1>1. /\ fed'[t] = IF ~ Complete(t, last) THEN sent
                   ELSE IF rest = <<>> THEN whole ELSE more
      /\ recv[t] <= last
  <2>1. fed' = [fed EXCEPT ![t] = IF ~ Complete(t, last) THEN sent
                                  ELSE IF rest = <<>> THEN whole ELSE more]
    BY DEF StreamDataRecv, Done, Data, Object, Rest, Complete
  <2> QED BY <2>1 DEF FanoutInv, FanoutTypes, StreamDataRecv
<1>2. /\ o \in Seq(0..N) /\ data \in Seq(0..N) /\ data # <<>>
      /\ Complete(t, last) => Object(t) # <<>>
  BY <1>1, ObjectBounds DEF FanoutInv, FanoutTypes
<1>3. o # <<>> => o \o data # <<>>
  BY <1>2, ConcatStart
<1> HIDE DEF o, data, rest
<1>4. CASE s \notin subs[t]
  <2>1. sent[s] = o /\ whole[s] = sent[s] /\ more[s] = whole[s]
    BY <1>4 DEF ForwardReceivedData, ObjectReceived, o
  <2> QED BY <1>1, <1>4, <2>1 DEF o
<1>5. CASE s \in subs[t] \ Peer
  <2>1. sent[s] = IF o # <<>> THEN o \o data ELSE o
    BY <1>5 DEF ForwardReceivedData, SentFirstObject, o
  <2>2. whole[s] = IF sent[s] = <<>> /\ <<t, s>> \notin paused THEN Object(t) ELSE sent[s]
    BY <1>5 DEF ObjectReceived, SentFirstObject
  <2>3. more[s] = IF whole[s] # <<>> THEN whole[s] \o rest ELSE whole[s]
    BY <1>5 DEF ForwardReceivedData, SentFirstObject
  <2> HIDE DEF sent, whole, more
  <2> QED BY <1>1, <1>2, <1>3, <1>5, <2>1, <2>2, <2>3 DEF o, data, rest
<1>6. CASE s \in subs[t] \cap Peer
  <2>1. /\ sent[s] = o \o data \/ (~ start /\ sent[s] = o)
        /\ ~ start /\ sent[s] # o => o # <<>>
        /\ start => sent[s] = o \o data
    <3>1. s <= s
      <4>1. s \in Nat
        BY <1>6, FanoutAssumption
      <4> QED BY <4>1
    <3> QED BY <1>6, <3>1 DEF ForwardReceivedData, o
  <2>2. whole[s] = sent[s]
    BY <1>6 DEF ObjectReceived
  <2>3. /\ more[s] = whole[s] \o rest \/ (~ start /\ more[s] = whole[s])
        /\ ~ start /\ more[s] # whole[s] => whole[s] # <<>>
        /\ start => more[s] = whole[s] \o rest
    <3>1. s <= s
      <4>1. s \in Nat
        BY <1>6, FanoutAssumption
      <4> QED BY <4>1
    <3> QED BY <1>6, <3>1 DEF ForwardReceivedData
  <2> HIDE DEF sent, whole, more
  <2> QED BY <1>1, <1>2, <1>3, <1>6, <2>1, <2>2, <2>3 DEF o, data, rest
<1> QED
  BY <1>4, <1>5, <1>6 DEF o, data, rest

\* Where a stream is after StreamDataRecv.
LEMMA ReceiveCounters ==
  ASSUME FanoutInv, NEW t \in Track, NEW last \in 0..N, StreamDataRecv(t, last)
  PROVE  /\ recv[t] <= last
         /\ recv' = [recv EXCEPT ![t] = last + 1]
         /\ parsed' = [parsed EXCEPT ![t] = IF Complete(t, last) THEN Done(t) + 1 ELSE Done(t)]
         /\ group' \in [Track -> 0..MaxGroup]
         /\ subs' = subs /\ paused' = paused
         /\ \A u \in Track \ {t} : fed'[u] = fed[u]
<1>1. /\ recv[t] <= last
      /\ recv' = [recv EXCEPT ![t] = last + 1]
      /\ parsed' = [parsed EXCEPT ![t] = IF Complete(t, last) THEN Done(t) + 1 ELSE Done(t)]
      /\ subs' = subs /\ paused' = paused
  BY DEF StreamDataRecv, Done, Complete
<1>2. group' \in [Track -> 0..MaxGroup]
  <2>1. MaxGroup \in Nat /\ group[t] \in 0..MaxGroup
    BY FanoutAssumption DEF FanoutInv, FanoutTypes
  <2>2. recv[t] = 0 => group[t] < MaxGroup
    BY DEF StreamDataRecv
  <2>3. group' = IF recv[t] = 0 THEN [group EXCEPT ![t] = group[t] + 1] ELSE group
    BY DEF StreamDataRecv
  <2> QED BY <2>1, <2>2, <2>3 DEF FanoutInv, FanoutTypes
<1>3. \A u \in Track \ {t} : fed'[u] = fed[u]
  BY DEF StreamDataRecv, FanoutInv, FanoutTypes
<1> QED
  BY <1>1, <1>2, <1>3

\* A subscriber's stream after StreamDataRecv is over the units of the stream.
LEMMA ReceiveKeepsTypes ==
  ASSUME FanoutInv, NEW t \in Track, NEW last \in 0..N, StreamDataRecv(t, last)
  PROVE  FanoutTypes'
<1> DEFINE data == Data(t, last)
           rest == Rest(t, last)
<1>1. recv[t] <= last
  BY ReceiveCounters
<1>2. /\ N \in Nat /\ data \in Seq(0..N)
      /\ Complete(t, last) => Object(t) \in Seq(0..N) /\ rest \in Seq(0..N)
  BY <1>1, ObjectBounds
<1> HIDE DEF data, rest
<1>3. ASSUME NEW s \in Sub
      PROVE  fed'[t][s] \in Seq(0..N)
  <2> DEFINE o == fed[t][s]
             new == fed'[t][s]
  <2>1. o \in Seq(0..N)
    BY DEF FanoutInv, FanoutTypes
  <2>2. o \o data \in Seq(0..N)
    BY <1>2, <2>1, ConcatStart
  <2>3. Complete(t, last) => /\ o \o rest \in Seq(0..N)
                             /\ (o \o data) \o rest \in Seq(0..N)
                             /\ Object(t) \o rest \in Seq(0..N)
    <3> HIDE DEF o
    <3> QED BY <1>2, <2>1, <2>2, ConcatStart
  <2>4. \/ new = o
        \/ new = <<>>
        \/ new = o \o data
        \/ /\ Complete(t, last)
           /\ new \in {o \o rest, (o \o data) \o rest, Object(t), Object(t) \o rest}
    <3>1. CASE s \notin subs[t]
      BY <3>1, ChunkEffect
    <3>2. CASE s \in subs[t] \ Peer
      BY <3>2, ChunkEffect DEF data, rest
    <3>3. CASE s \in subs[t] \cap Peer
      BY <3>3, ChunkEffect DEF data, rest
    <3> QED BY <3>1, <3>2, <3>3
  <2>5. <<>> \in Seq(0..N)
    BY EmptySeq
  <2> HIDE DEF o, new
  <2>6. new \in Seq(0..N)
    BY <1>2, <2>1, <2>2, <2>3, <2>4, <2>5
  <2> QED BY <2>6 DEF new
<1>4. fed' \in [Track -> [Sub -> Seq(0..N)]]
  <2>1. PICK f : fed' = [fed EXCEPT ![t] = f] /\ f = [s \in Sub |-> f[s]]
    <3> DEFINE start == recv[t] = 0
               sent == ForwardReceivedData(fed[t], t, data, start)
               whole == ObjectReceived(sent, t, Object(t))
               more == ForwardReceivedData(whole, t, rest, start)
               f == IF ~ Complete(t, last) THEN sent ELSE IF rest = <<>> THEN whole ELSE more
    <3>1. fed' = [fed EXCEPT ![t] = f]
      BY DEF StreamDataRecv, Done, Data, Object, Rest, Complete, data, rest
    <3>2. sent = [s \in Sub |-> sent[s]]
      BY DEF ForwardReceivedData
    <3>3. whole = [s \in Sub |-> whole[s]]
      BY DEF ObjectReceived
    <3>4. more = [s \in Sub |-> more[s]]
      BY DEF ForwardReceivedData
    <3> HIDE DEF sent, whole, more
    <3>5. f = [s \in Sub |-> f[s]]
      BY <3>2, <3>3, <3>4
    <3> HIDE DEF f
    <3> QED BY <3>1, <3>5
  <2>2. fed'[t] = f
    BY <2>1 DEF FanoutInv, FanoutTypes
  <2>3. f \in [Sub -> Seq(0..N)]
    BY <1>3, <2>1, <2>2
  <2> QED BY <2>1, <2>3 DEF FanoutInv, FanoutTypes
<1>5. recv' \in [Track -> 0..(N + 1)]
  <2>1. recv' = [recv EXCEPT ![t] = last + 1]
    BY ReceiveCounters
  <2>2. last + 1 \in 0..(N + 1)
    BY <1>2
  <2> QED BY <2>1, <2>2 DEF FanoutInv, FanoutTypes
<1>6. parsed' \in [Track -> 0..Objects]
  <2>1. parsed' = [parsed EXCEPT ![t] = IF Complete(t, last) THEN Done(t) + 1 ELSE Done(t)]
    BY ReceiveCounters
  <2>2. (IF Complete(t, last) THEN Done(t) + 1 ELSE Done(t)) \in 0..Objects
    BY <1>1, ObjectBounds
  <2> QED BY <2>1, <2>2 DEF FanoutInv, FanoutTypes
<1>7. group' \in [Track -> 0..MaxGroup] /\ subs' = subs /\ paused' = paused
  BY ReceiveCounters
<1> QED
  BY <1>4, <1>5, <1>6, <1>7 DEF FanoutInv, FanoutTypes

\* No stream is open that should not be, and a peer's begins with the header.
LEMMA ReceiveKeepsStreams ==
  ASSUME FanoutInv, NEW t \in Track, NEW last \in 0..N, StreamDataRecv(t, last)
  PROVE  NoOrphanStream' /\ PeerStartsWithHeader' /\ ParsedIsThere'
<1> DEFINE data == Data(t, last)
           rest == Rest(t, last)
<1>1. /\ recv[t] <= last
      /\ recv' = [recv EXCEPT ![t] = last + 1]
      /\ parsed' = [parsed EXCEPT ![t] = IF Complete(t, last) THEN Done(t) + 1 ELSE Done(t)]
      /\ subs' = subs /\ paused' = paused
      /\ \A u \in Track \ {t} : fed'[u] = fed[u]
  BY ReceiveCounters
<1>2. /\ N \in Nat /\ recv[t] \in Nat /\ Done(t) * ObjectSize <= last /\ Done(t) \in Nat
      /\ Done(t) * ObjectSize \in Nat
      /\ data \in Seq(0..N) /\ data # <<>> /\ data[1] = recv[t]
      /\ Complete(t, last) => Object(t) \in Seq(0..N) /\ rest \in Seq(0..N)
  BY <1>1, ObjectBounds
<1>3. last \in Nat /\ last + 1 > 0
  BY <1>2
<1>4. /\ recv'[t] = last + 1
      /\ \A u \in Track \ {t} : recv'[u] = recv[u] /\ parsed'[u] = parsed[u]
  BY <1>1 DEF FanoutInv, FanoutTypes
<1> HIDE DEF data, rest
<1>5. ParsedIsThere'
  <2> SUFFICES ASSUME NEW u \in Track, recv'[u] > 0
               PROVE  parsed'[u] * ObjectSize < recv'[u]
    BY DEF ParsedIsThere
  <2>1. CASE u # t
    BY <1>4, <2>1 DEF FanoutInv, ParsedIsThere
  <2>2. CASE u = t
    <3>1. parsed'[t] = IF Complete(t, last) THEN Done(t) + 1 ELSE Done(t)
      BY <1>1 DEF FanoutInv, FanoutTypes
    <3>2. CASE Complete(t, last)
      <4>1. (Done(t) + 1) * ObjectSize <= last /\ (Done(t) + 1) * ObjectSize \in Nat
        <5> DEFINE p == Done(t) * ObjectSize
                   q == (Done(t) + 1) * ObjectSize
        <5>1. q = p + ObjectSize /\ ObjectSize \in Nat
          BY <1>1, ObjectBounds
        <5>2. p \in Nat
          BY <1>2
        <5>3. q <= last
          BY <3>2 DEF Complete
        <5> HIDE DEF p, q
        <5>4. q <= last /\ q \in Nat
          BY <5>1, <5>2, <5>3
        <5> QED BY <5>4 DEF p, q
      <4> QED BY <1>3, <1>4, <2>2, <3>1, <3>2, <4>1
    <3>3. CASE ~ Complete(t, last)
      BY <1>2, <1>3, <1>4, <2>2, <3>1, <3>3
    <3> QED BY <3>2, <3>3
  <2> QED BY <2>1, <2>2
<1>6. NoOrphanStream'
  <2> SUFFICES ASSUME NEW u \in Track, NEW s \in Sub, fed'[u][s] # <<>>
               PROVE  recv'[u] > 0 /\ s \in subs[u] /\ <<u, s>> \notin paused
    BY <1>1 DEF NoOrphanStream
  <2>1. CASE u # t
    BY <1>1, <1>4, <2>1 DEF FanoutInv, NoOrphanStream
  <2>2. CASE u = t
    <3>1. fed[t][s] # <<>> => s \in subs[t] /\ <<t, s>> \notin paused
      BY DEF FanoutInv, NoOrphanStream
    <3>2. s \in subs[t] /\ <<t, s>> \notin paused
      <4>1. CASE s \notin subs[t]
        BY <2>2, <3>1, <4>1, ChunkEffect
      <4>2. CASE s \in subs[t] \ Peer
        BY <2>2, <3>1, <4>2, ChunkEffect
      <4>3. CASE s \in subs[t] \cap Peer
        BY <4>3, FanoutAssumption DEF FanoutInv, FanoutTypes
      <4> QED BY <4>1, <4>2, <4>3
    <3> QED BY <1>3, <1>4, <2>2, <3>2
  <2> QED BY <2>1, <2>2
<1>7. PeerStartsWithHeader'
  <2> SUFFICES ASSUME NEW u \in Track, NEW p \in Peer, fed'[u][p] # <<>>
               PROVE  fed'[u][p][1] = 0
    BY DEF PeerStartsWithHeader
  <2>1. CASE u # t
    BY <1>1, <2>1 DEF FanoutInv, PeerStartsWithHeader
  <2>2. CASE u = t
    <3> DEFINE o == fed[t][p]
               new == fed'[t][p]
    <3>1. p \in Sub /\ o \in Seq(0..N)
      BY DEF Sub, FanoutInv, FanoutTypes
    <3>2. (o # <<>> => o[1] = 0) /\ (recv[t] = 0 => o = <<>>)
      <4>1. o # <<>> => o[1] = 0
        BY DEF FanoutInv, PeerStartsWithHeader
      <4>2. o # <<>> => recv[t] > 0
        BY <3>1 DEF FanoutInv, NoOrphanStream
      <4> QED BY <4>1, <4>2
    <3>3. \/ new = o
          \/ recv[t] = 0 /\ new = o \o data
          \/ recv[t] = 0 /\ Complete(t, last) /\ new = (o \o data) \o rest
          \/ o # <<>> /\ new = o \o data
          \/ o # <<>> /\ Complete(t, last) /\ new \in {o \o rest, (o \o data) \o rest}
      <4>1. CASE p \notin subs[t]
        BY <3>1, <4>1, ChunkEffect
      <4>2. CASE p \in subs[t] \cap Peer
        BY <3>1, <4>2, ChunkEffect DEF data, rest
      <4> QED BY <4>1, <4>2
    <3>4. new # <<>>
      BY <2>2
    <3> HIDE DEF o, new
    <3>5. /\ o # <<>> => (o \o data)[1] = o[1] /\ o \o data # <<>>
          /\ o = <<>> => o \o data = data
          /\ o \o data \in Seq(0..N)
      BY <1>2, <3>1, ConcatStart
    <3>6. Complete(t, last) =>
            /\ o # <<>> => (o \o rest)[1] = o[1]
            /\ o \o data # <<>> => ((o \o data) \o rest)[1] = (o \o data)[1]
      BY <1>2, <3>1, <3>5, ConcatStart
    <3>7. recv[t] = 0 => o \o data # <<>> /\ (o \o data)[1] = 0
      BY <1>2, <3>2, <3>5
    <3>8. new[1] = 0
      BY <3>2, <3>3, <3>4, <3>5, <3>6, <3>7
    <3> QED BY <2>2, <3>8 DEF new
  <2> QED BY <2>1, <2>2
<1> QED
  BY <1>5, <1>6, <1>7

\* StreamDataRecv keeps every client's stream a run up to the last unit received:
\* the data, and then what is left in the buffer and sent again, continue it.
LEMMA ReceiveKeepsClientRun ==
  ASSUME FanoutInv, NEW t \in Track, NEW last \in 0..N, StreamDataRecv(t, last)
  PROVE  ClientRun'
<1> SUFFICES ASSUME NEW u \in Track, NEW s \in Client \cup NsClient, fed'[u][s] # <<>>
             PROVE  \E k \in Nat : /\ k * ObjectSize + 1 <= parsed'[u] * ObjectSize
                                   /\ Run(fed'[u][s], k * ObjectSize + 1, recv'[u])
  BY DEF ClientRun
<1>1. /\ recv[t] <= last
      /\ recv' = [recv EXCEPT ![t] = last + 1]
      /\ parsed' = [parsed EXCEPT ![t] = IF Complete(t, last) THEN Done(t) + 1 ELSE Done(t)]
      /\ \A v \in Track \ {t} : fed'[v] = fed[v]
  BY ReceiveCounters
<1>2. /\ recv'[t] = last + 1
      /\ parsed'[t] = IF Complete(t, last) THEN Done(t) + 1 ELSE Done(t)
      /\ \A v \in Track \ {t} : recv'[v] = recv[v] /\ parsed'[v] = parsed[v]
  BY <1>1 DEF FanoutInv, FanoutTypes
<1>3. CASE u # t
  BY <1>1, <1>2, <1>3 DEF FanoutInv, ClientRun
<1>4. CASE u = t
  <2> DEFINE a == Done(t) * ObjectSize
             b == (Done(t) + 1) * ObjectSize
             data == Data(t, last)
             rest == Rest(t, last)
             o == fed[t][s]
             new == fed'[t][s]
  <2>1. /\ N \in Nat /\ recv[t] \in Nat /\ last \in Nat
        /\ Done(t) \in Nat /\ a \in Nat
        /\ ObjectSize \in Nat /\ ObjectSize > 0
        /\ b = a + ObjectSize /\ b \in Nat
        /\ Complete(t, last) => (rest = <<>> <=> last = b)
    <3> HIDE DEF rest
    <3>1. Complete(t, last) => (rest = <<>> <=> last = b)
      BY <1>1, ObjectBounds DEF rest
    <3> QED BY <1>1, <3>1, ObjectBounds
  <2>2. /\ Complete(t, last) <=> b <= last
        /\ data = Units(recv[t], last) /\ Object(t) = Units(a + 1, b)
        /\ rest = Units(b + 1, last)
    BY <2>1 DEF Complete, Data, Object, Rest
  <2>3. /\ parsed'[t] * ObjectSize \in Nat /\ a <= parsed'[t] * ObjectSize
        /\ Complete(t, last) => parsed'[t] * ObjectSize = b
    BY <1>2, <2>1
  <2>4. s \in Sub /\ s \notin Peer
    BY FanoutAssumption DEF Sub
  <2>5. o # <<>> => recv[t] > 0 /\ s \in subs[t]
    BY <2>4 DEF FanoutInv, NoOrphanStream
  <2>6. \/ o # <<>> /\ new = o \o data
        \/ o # <<>> /\ Complete(t, last) /\ rest # <<>> /\ new = (o \o data) \o rest
        \/ /\ o = <<>> /\ Complete(t, last)
           /\ \/ rest = <<>> /\ new = Object(t)
              \/ rest # <<>> /\ new = Object(t) \o rest
    <3>1. s \in subs[t]
      <4> SUFFICES ASSUME s \notin subs[t] PROVE FALSE
        OBVIOUS
      <4>1. fed'[t][s] = o
        BY <2>4, ChunkEffect
      <4> QED BY <1>4, <2>5, <4>1
    <3>2. s \in subs[t] \ Peer
      BY <2>4, <3>1
    <3> QED BY <1>4, <2>4, <3>2, ChunkEffect
  <2> HIDE DEF a, b, data, rest, o, new
  <2>7. ASSUME o # <<>>
        PROVE  \E k \in Nat : /\ k * ObjectSize + 1 <= parsed'[t] * ObjectSize
                              /\ Run(new, k * ObjectSize + 1, last + 1)
    <3>1. recv[t] > 0 /\ Done(t) = parsed[t]
      BY <2>1, <2>5, <2>7 DEF Done
    <3>2. PICK k \in Nat : /\ k * ObjectSize + 1 <= parsed[t] * ObjectSize
                           /\ Run(o, k * ObjectSize + 1, recv[t])
      BY <2>7 DEF FanoutInv, ClientRun, o
    <3>3. PICK first \in Nat : first = k * ObjectSize + 1
      BY <2>1, <3>2
    <3>4. first <= a /\ a < recv[t]
      <4>1. parsed[t] * ObjectSize < recv[t]
        BY <3>1 DEF FanoutInv, ParsedIsThere
      <4> QED BY <3>1, <3>2, <3>3, <4>1 DEF a
    <3>5. Run(o, first, recv[t])
      BY <3>2, <3>3
    <3>6. Run(o \o data, first, last + 1)
      <4>1. first <= recv[t] /\ recv[t] <= last + 1
        BY <1>1, <2>1, <3>4
      <4> QED BY <1>1, <2>1, <2>2, <3>5, <4>1, RunContinues
    <3>7. k * ObjectSize + 1 <= parsed'[t] * ObjectSize
      <4>1. first <= parsed'[t] * ObjectSize
        BY <2>1, <2>3, <3>4
      <4> QED BY <3>3, <4>1
    <3>8. CASE new = o \o data
      <4>1. Run(new, k * ObjectSize + 1, last + 1)
        BY <3>3, <3>6, <3>8
      <4> QED BY <3>7, <4>1
    <3>9. CASE Complete(t, last) /\ rest # <<>> /\ new = (o \o data) \o rest
      <4>1. b + 1 \in Nat /\ first <= b + 1 /\ b + 1 <= last /\ b + 1 <= last + 1
        <5>1. b <= last /\ b # last
          BY <2>1, <2>2, <3>9
        <5> QED BY <2>1, <3>4, <5>1
      <4>2. last + 1 \in Nat
        BY <2>1
      <4>3. Run((o \o data) \o Units(b + 1, last), first, last + 1)
        BY <2>1, <3>6, <4>1, <4>2, RunContinues
      <4>4. Run(new, k * ObjectSize + 1, last + 1)
        BY <2>2, <3>3, <3>9, <4>3
      <4> QED BY <3>7, <4>4
    <3> QED BY <2>6, <2>7, <3>8, <3>9
  <2>8. ASSUME o = <<>>
        PROVE  \E k \in Nat : /\ k * ObjectSize + 1 <= parsed'[t] * ObjectSize
                              /\ Run(new, k * ObjectSize + 1, last + 1)
    <3>1. Complete(t, last) /\ b <= last
      BY <2>2, <2>6, <2>8
    <3>2. Done(t) * ObjectSize + 1 = a + 1 /\ a + 1 <= parsed'[t] * ObjectSize
      BY <2>1, <2>3, <3>1 DEF a
    <3>3. Run(Units(a + 1, b), a + 1, b + 1)
      <4>1. a + 1 \in Nat /\ a + 1 <= b
        BY <2>1
      <4> QED BY <2>1, <4>1, UnitsRun
    <3>4. Run(new, a + 1, last + 1)
      <4>1. CASE rest = <<>> /\ new = Object(t)
        <5>1. last = b
          BY <2>1, <3>1, <4>1
        <5> QED BY <2>2, <3>3, <4>1, <5>1
      <4>2. CASE rest # <<>> /\ new = Object(t) \o rest
        <5>1. /\ a + 1 \in Nat /\ b + 1 \in Nat /\ a + 1 <= b + 1
              /\ b + 1 <= last /\ b + 1 <= last + 1 /\ b + 1 <= b + 1
          BY <2>1, <3>1, <4>2
        <5>2. Run(Units(a + 1, b) \o Units(b + 1, last), a + 1, last + 1)
          BY <2>1, <3>3, <5>1, RunContinues
        <5> QED BY <2>2, <4>2, <5>2
      <4> QED BY <2>6, <2>8, <4>1, <4>2
    <3> QED BY <2>1, <3>2, <3>4
  <2> QED BY <1>2, <1>4, <2>7, <2>8 DEF new
<1> QED
  BY <1>3, <1>4

-----------------------------------------------------------------------------
(***************************************************************************)
(* The other steps                                                         *)
(***************************************************************************)

\* A step that receives nothing keeps the invariant if all it does to streams
\* is to end some, those of subscribers that leave or are paused among them,
\* and if a publisher's stream that ends takes all of its track along.
LEMMA EndingKeepsInvariant ==
  ASSUME FanoutInv, FanoutTypes', parsed' = parsed,
         \A t \in Track : \A s \in Sub : fed'[t][s] \in {fed[t][s], <<>>},
         \A t \in Track : recv'[t] = recv[t] \/ (recv'[t] = 0 /\ \A s \in Sub : fed'[t][s] = <<>>),
         \A t \in Track : \A s \in Sub :
            fed'[t][s] # <<>> => /\ s \in subs[t] => s \in subs'[t]
                                 /\ <<t, s>> \in paused' => <<t, s>> \in paused
  PROVE  FanoutInv'
<1>1. ParsedIsThere'
  <2> SUFFICES ASSUME NEW t \in Track, recv'[t] > 0
               PROVE  parsed[t] * ObjectSize < recv'[t]
    BY DEF ParsedIsThere
  <2> QED BY DEF FanoutInv, ParsedIsThere
<1>2. \A t \in Track : \A s \in Sub :
         fed'[t][s] # <<>> => fed'[t][s] = fed[t][s] /\ recv'[t] = recv[t]
  OBVIOUS
<1>3. ClientRun'
  <2> SUFFICES ASSUME NEW t \in Track, NEW s \in Client \cup NsClient, fed'[t][s] # <<>>
               PROVE  \E k \in Nat : /\ k * ObjectSize + 1 <= parsed[t] * ObjectSize
                                     /\ Run(fed'[t][s], k * ObjectSize + 1, recv'[t])
    BY DEF ClientRun
  <2>1. s \in Sub
    BY DEF Sub
  <2> QED BY <1>2, <2>1 DEF FanoutInv, ClientRun
<1>4. PeerStartsWithHeader'
  <2> SUFFICES ASSUME NEW t \in Track, NEW p \in Peer, fed'[t][p] # <<>>
               PROVE  fed'[t][p][1] = 0
    BY DEF PeerStartsWithHeader
  <2>1. p \in Sub
    BY DEF Sub
  <2> QED BY <1>2, <2>1 DEF FanoutInv, PeerStartsWithHeader
<1>5. NoOrphanStream'
  <2> SUFFICES ASSUME NEW t \in Track, NEW s \in Sub, fed'[t][s] # <<>>
               PROVE  recv'[t] > 0 /\ s \in subs'[t] /\ <<t, s>> \notin paused'
    BY DEF NoOrphanStream
  <2> QED BY <1>2 DEF FanoutInv, NoOrphanStream
<1> QED
  BY <1>1, <1>3, <1>4, <1>5 DEF FanoutInv

\* The streams of a track end with the publisher's; those of other tracks end
\* where a namespace subscriber's handler ends the group of all its tracks.
LEMMA StreamClosedKeepsInvariant ==
  ASSUME FanoutInv, NEW t \in Track, StreamClosed(t)
  PROVE  FanoutInv'
<1>1. /\ recv' = [recv EXCEPT ![t] = 0]
      /\ group' = group /\ parsed' = parsed /\ subs' = subs /\ paused' = paused
      /\ fed' = [u \in Track |->
                   IF u = t THEN [s \in Sub |-> <<>>]
                   ELSE IF EndedWith(t, u)
                   THEN [s \in Sub |-> IF s \in Peer \/ s \in subs[t] \cap NsClient
                                       THEN <<>> ELSE fed[u][s]]
                   ELSE fed[u]]
  BY DEF StreamClosed
<1>2. \A u \in Track : \A s \in Sub : fed'[u][s] \in {fed[u][s], <<>>}
  BY <1>1
<1>3. \A s \in Sub : fed'[t][s] = <<>>
  BY <1>1
<1>4. \A u \in Track : recv'[u] = IF u = t THEN 0 ELSE recv[u]
  BY <1>1 DEF FanoutInv, FanoutTypes
<1>5. FanoutTypes'
  <2>1. <<>> \in Seq(0..N)
    BY EmptySeq
  <2>2. fed' \in [Track -> [Sub -> Seq(0..N)]]
    BY <1>1, <2>1 DEF FanoutInv, FanoutTypes
  <2>3. recv' \in [Track -> 0..(N + 1)]
    <3>1. 0 \in 0..(N + 1)
      BY FanoutAssumption DEF N
    <3> QED BY <1>1, <3>1 DEF FanoutInv, FanoutTypes
  <2> QED BY <1>1, <2>2, <2>3 DEF FanoutInv, FanoutTypes
<1> QED
  BY <1>1, <1>2, <1>3, <1>4, <1>5, EndingKeepsInvariant

\* A namespace subscriber that is paused, whose stream and the peers' are ended.
LEMMA PauseKeepsInvariant ==
  ASSUME FanoutInv, NEW t \in Track, NEW n \in NsClient, Pause(t, n)
  PROVE  FanoutInv'
<1>1. /\ paused' = paused \cup {<<t, n>>}
      /\ group' = group /\ recv' = recv /\ parsed' = parsed /\ subs' = subs
      /\ fed' = IF SentFirstObject(fed[t], n)
                THEN [fed EXCEPT ![t] = EndPeers([fed[t] EXCEPT ![n] = <<>>])] ELSE fed
  BY DEF Pause
<1>2. <<>> \in Seq(0..N) /\ n \in Sub
  BY EmptySeq DEF Sub
<1>3. /\ fed' \in [Track -> [Sub -> Seq(0..N)]]
      /\ \A u \in Track : \A s \in Sub : fed'[u][s] \in {fed[u][s], <<>>}
      /\ fed'[t][n] = <<>>
  <2>1. CASE SentFirstObject(fed[t], n)
    <3> DEFINE f == [fed[t] EXCEPT ![n] = <<>>]
               g == EndPeers(f)
    <3>1. f \in [Sub -> Seq(0..N)] /\ f[n] = <<>> /\ \A s \in Sub : f[s] \in {fed[t][s], <<>>}
      BY <1>2 DEF FanoutInv, FanoutTypes
    <3> HIDE DEF f
    <3>2. g = [s \in Sub |-> IF s \in Peer THEN <<>> ELSE f[s]]
      BY DEF EndPeers
    <3>3. g \in [Sub -> Seq(0..N)] /\ g[n] = <<>> /\ \A s \in Sub : g[s] \in {fed[t][s], <<>>}
      BY <1>2, <3>1, <3>2
    <3>4. fed' = [fed EXCEPT ![t] = g]
      BY <1>1, <2>1 DEF f
    <3> HIDE DEF g
    <3> QED BY <3>3, <3>4 DEF FanoutInv, FanoutTypes
  <2>2. CASE ~ SentFirstObject(fed[t], n)
    BY <1>1, <1>2, <2>2 DEF SentFirstObject, FanoutInv, FanoutTypes
  <2> QED BY <2>1, <2>2
<1>4. FanoutTypes'
  <2>1. paused' \subseteq Track \X NsClient
    BY <1>1 DEF FanoutInv, FanoutTypes
  <2> QED BY <1>1, <1>3, <2>1 DEF FanoutInv, FanoutTypes
<1>5. \A u \in Track : \A s \in Sub :
         fed'[u][s] # <<>> => (<<u, s>> \in paused' => <<u, s>> \in paused)
  BY <1>1, <1>3
<1> QED
  BY <1>1, <1>3, <1>4, <1>5, EndingKeepsInvariant

\* One who leaves has its stream ended.
LEMMA UnsubscribeKeepsInvariant ==
  ASSUME FanoutInv, NEW t \in Track, NEW x \in Client \cup Peer, Unsubscribe(t, x)
  PROVE  FanoutInv'
<1>1. /\ subs' = [subs EXCEPT ![t] = subs[t] \ {x}]
      /\ fed' = [fed EXCEPT ![t] = [fed[t] EXCEPT ![x] = <<>>]]
      /\ group' = group /\ recv' = recv /\ parsed' = parsed /\ paused' = paused
  BY DEF Unsubscribe
<1>2. <<>> \in Seq(0..N) /\ x \in Sub
  BY EmptySeq DEF Sub
<1>3. /\ fed' \in [Track -> [Sub -> Seq(0..N)]]
      /\ \A u \in Track : \A s \in Sub : fed'[u][s] \in {fed[u][s], <<>>}
      /\ fed'[t][x] = <<>>
  BY <1>1, <1>2 DEF FanoutInv, FanoutTypes
<1>4. FanoutTypes'
  BY <1>1, <1>3 DEF FanoutInv, FanoutTypes
<1>5. \A u \in Track : \A s \in Sub :
         fed'[u][s] # <<>> => (s \in subs[u] => s \in subs'[u])
  BY <1>1, <1>3 DEF FanoutInv, FanoutTypes
<1> QED
  BY <1>1, <1>3, <1>4, <1>5, EndingKeepsInvariant

\* So does one who gives up the namespace, on all tracks.
LEMMA UnsubscribeNamespaceKeepsInvariant ==
  ASSUME FanoutInv, NEW n \in NsClient, UnsubscribeNamespace(n)
  PROVE  FanoutInv'
<1>1. /\ subs' = [t \in Track |-> subs[t] \ {n}]
      /\ paused' = {x \in paused : x[2] # n}
      /\ fed' = [t \in Track |-> [fed[t] EXCEPT ![n] = <<>>]]
      /\ group' = group /\ recv' = recv /\ parsed' = parsed
  BY DEF UnsubscribeNamespace
<1>2. <<>> \in Seq(0..N) /\ n \in Sub
  BY EmptySeq DEF Sub
<1>3. /\ fed' \in [Track -> [Sub -> Seq(0..N)]]
      /\ \A u \in Track : \A s \in Sub : fed'[u][s] \in {fed[u][s], <<>>}
      /\ \A u \in Track : fed'[u][n] = <<>>
  BY <1>1, <1>2 DEF FanoutInv, FanoutTypes
<1>4. FanoutTypes'
  <2>1. subs' \in [Track -> SUBSET Sub]
    BY <1>1 DEF FanoutInv, FanoutTypes
  <2>2. paused' \subseteq Track \X NsClient
    BY <1>1 DEF FanoutInv, FanoutTypes
  <2> QED BY <1>1, <1>3, <2>1, <2>2 DEF FanoutInv, FanoutTypes
<1>5. \A u \in Track : \A s \in Sub :
         fed'[u][s] # <<>> => /\ s \in subs[u] => s \in subs'[u]
                              /\ <<u, s>> \in paused' => <<u, s>> \in paused
  BY <1>1, <1>3 DEF FanoutInv, FanoutTypes
<1> QED
  BY <1>1, <1>3, <1>4, <1>5, EndingKeepsInvariant

\* Every step preserves the invariant.
LEMMA FanoutNextInvariant ==
  ASSUME FanoutInv, [FanoutNext]_fanoutVars
  PROVE  FanoutInv'
<1>1. ASSUME NEW t \in Track, NEW last \in 0..(Objects * ObjectSize), StreamDataRecv(t, last)
      PROVE  FanoutInv'
  <2>1. last \in 0..N
    BY DEF N
  <2> QED BY <1>1, <2>1, ReceiveKeepsTypes, ReceiveKeepsStreams, ReceiveKeepsClientRun DEF FanoutInv
<1>2. ASSUME NEW t \in Track, StreamClosed(t)
      PROVE  FanoutInv'
  BY <1>2, StreamClosedKeepsInvariant
<1>3. ASSUME NEW t \in Track, NEW n \in NsClient, Pause(t, n)
      PROVE  FanoutInv'
  BY <1>3, PauseKeepsInvariant
<1>4. ASSUME NEW t \in Track, NEW n \in NsClient, Resume(t, n)
      PROVE  FanoutInv'
  <2>1. FanoutTypes'
    BY <1>4 DEF Resume, FanoutInv, FanoutTypes
  <2> QED BY <1>4, <2>1, EndingKeepsInvariant DEF Resume
<1>5. ASSUME NEW t \in Track, NEW s \in Client \cup Peer, Subscribe(t, s)
      PROVE  FanoutInv'
  <2>1. FanoutTypes'
    BY <1>5 DEF Subscribe, FanoutInv, FanoutTypes, Sub
  <2>2. \A u \in Track : \A x \in Sub : x \in subs[u] => x \in subs'[u]
    BY <1>5 DEF Subscribe, FanoutInv, FanoutTypes
  <2> QED BY <1>5, <2>1, <2>2, EndingKeepsInvariant DEF Subscribe
<1>6. ASSUME NEW t \in Track, NEW s \in Client \cup Peer, Unsubscribe(t, s)
      PROVE  FanoutInv'
  BY <1>6, UnsubscribeKeepsInvariant
<1>7. ASSUME NEW n \in NsClient, SubscribeNamespace(n)
      PROVE  FanoutInv'
  <2>1. FanoutTypes'
    BY <1>7 DEF SubscribeNamespace, FanoutInv, FanoutTypes, Sub
  <2>2. \A u \in Track : \A x \in Sub : x \in subs[u] => x \in subs'[u]
    BY <1>7 DEF SubscribeNamespace, FanoutInv, FanoutTypes
  <2> QED BY <1>7, <2>1, <2>2, EndingKeepsInvariant DEF SubscribeNamespace
<1>8. ASSUME NEW n \in NsClient, UnsubscribeNamespace(n)
      PROVE  FanoutInv'
  BY <1>8, UnsubscribeNamespaceKeepsInvariant
<1>9. ASSUME UNCHANGED fanoutVars
      PROVE  FanoutInv'
  BY <1>9 DEF fanoutVars, FanoutInv, FanoutTypes, ParsedIsThere, ClientRun, PeerStartsWithHeader, NoOrphanStream
<1> QED
  BY <1>1, <1>2, <1>3, <1>4, <1>5, <1>6, <1>7, <1>8, <1>9 DEF FanoutNext

\* Nothing has been received and nobody has subscribed at the start.
LEMMA FanoutInitInvariant ==
  ASSUME FanoutInit
  PROVE  FanoutInv
<1>1. <<>> \in Seq(0..N) /\ N \in Nat
  BY EmptySeq, FanoutAssumption DEF N
<1>2. FanoutTypes
  BY <1>1, FanoutAssumption DEF FanoutInit, FanoutTypes
<1>3. \A t \in Track : recv[t] = 0 /\ \A s \in Sub : fed[t][s] = <<>>
  BY DEF FanoutInit
<1>4. ParsedIsThere /\ NoOrphanStream
  BY <1>3 DEF ParsedIsThere, NoOrphanStream
<1>5. ClientRun /\ PeerStartsWithHeader
  BY <1>3 DEF ClientRun, PeerStartsWithHeader, Sub
<1> QED
  BY <1>2, <1>4, <1>5 DEF FanoutInv

\* The inductive invariant holds in every reachable state.
LEMMA FanoutInvariant == FanoutSpec => []FanoutInv
<1>1. FanoutInit => FanoutInv
  BY FanoutInitInvariant
<1>2. FanoutInv /\ [FanoutNext]_fanoutVars => FanoutInv'
  BY FanoutNextInvariant
<1> QED
  BY <1>1, <1>2, PTL DEF FanoutSpec

-----------------------------------------------------------------------------
\* Counters stay in range, whatever the chunks, and no object is taken from the
\* buffer before its last unit is there.
THEOREM FanoutTypeOK == FanoutSpec => []StreamsTypeOK
<1>1. FanoutInv => StreamsTypeOK
  BY DEF FanoutInv, FanoutTypes, ParsedIsThere, StreamsTypeOK, N
<1> QED
  BY <1>1, FanoutInvariant, PTL

\* A client's stream begins with a whole object and has every unit since.
THEOREM FanoutClientStreamComplete == FanoutSpec => []ClientStreamComplete
<1>1. FanoutInv => ClientStreamComplete
  <2> SUFFICES ASSUME FanoutInv, NEW t \in Track, NEW s \in Client \cup NsClient, fed[t][s] # <<>>
               PROVE  /\ fed[t][s][1] % ObjectSize = 1 % ObjectSize
                      /\ Range(fed[t][s]) = fed[t][s][1]..(recv[t] - 1)
                      /\ \A i \in 1..(Len(fed[t][s]) - 1) : fed[t][s][i + 1] <= fed[t][s][i] + 1
    BY DEF ClientStreamComplete
  <2> DEFINE o == fed[t][s]
  <2>1. PICK k \in Nat : Run(o, k * ObjectSize + 1, recv[t])
    BY DEF FanoutInv, ClientRun
  <2>2. o[1] % ObjectSize = 1 % ObjectSize
    BY <2>1, FirstUnitMod, FanoutAssumption DEF Run
  <2>3. Range(o) = o[1]..(recv[t] - 1)
    <3>1. o \in Seq(Nat) /\ \A i \in 1..Len(o) : o[i] \in Nat
      BY <2>1, ElementOfSeq DEF Run
    <3>2. Range(o) = {o[i] : i \in 1..Len(o)}
      BY <3>1, RangeEquality
    <3>3. recv[t] \in Nat
      BY FanoutAssumption DEF FanoutInv, FanoutTypes, N
    <3>4. /\ \A i \in 1..Len(o) : o[1] <= o[i] /\ o[i] < recv[t]
          /\ \A u \in o[1]..(recv[t] - 1) : \E i \in 1..Len(o) : o[i] = u
          /\ Len(o) > 0 /\ Len(o) \in Nat
      BY <2>1, <3>1, LenProperties DEF Run
    <3>5. o[1] \in Nat
      BY <3>1, <3>4
    <3> HIDE DEF o
    <3>6. \A i \in 1..Len(o) : o[i] \in o[1]..(recv[t] - 1)
      BY <3>1, <3>3, <3>4, <3>5
    <3> QED BY <3>2, <3>4, <3>6
  <2>4. \A i \in 1..(Len(o) - 1) : o[i + 1] <= o[i] + 1
    BY <2>1 DEF Run
  <2> QED BY <2>2, <2>3, <2>4
<1> QED
  BY <1>1, FanoutInvariant, PTL

\* A peer's stream begins with the header: ClientDataRecv starts none late.
THEOREM FanoutPeerStartsWithHeader == FanoutSpec => []PeerStartsWithHeader
<1>1. FanoutInv => PeerStartsWithHeader
  BY DEF FanoutInv
<1> QED
  BY <1>1, FanoutInvariant, PTL

\* No stream to a client or a peer outlives the publisher's, nor its subscriber.
THEOREM FanoutNoOrphanStream == FanoutSpec => []NoOrphanStream
<1>1. FanoutInv => NoOrphanStream
  BY DEF FanoutInv
<1> QED
  BY <1>1, FanoutInvariant, PTL
=============================================================================
