------------------------------ MODULE GraphProofs ------------------------------
(***************************************************************************)
(* Proofs about the graph of nodes: the push lists keep their types under  *)
(* every edit, a node ends after its source, what is addressed to a        *)
(* destination is accounted for, and the cache of packets leaves no gap;   *)
(* who pushes to a route is one of its publishers, and what is forwarded   *)
(* between two nodes arrives once, in order and with a time that moves on. *)
(***************************************************************************)
EXTENDS MCGraph, SequenceTheorems, FiniteSetTheorems, WellFoundedInduction, TLAPS

----------------------------------------------------------------------------
(* Sequences.                                                              *)

\* A set of natural numbers has a least one.  Induction on a number is by the
\* least counterexample, since its predicate is written out in each proof.
LEMMA Least ==
  ASSUME NEW T, T \subseteq Nat, T # {}
  PROVE  \E n \in T : \A m \in T : n <= m
<1> DEFINE W == {0..n : n \in T}
<1>1. W \subseteq FiniteSubsetsOf(Nat) /\ W # {}
  <2>1. \A n \in Nat : IsFiniteSet(0..n) /\ 0..n \in SUBSET Nat
    BY FS_Interval
  <2>q. QED  BY <2>1 DEF FiniteSubsetsOf
<1>2. PICK x \in W : \A y \in W : ~ (<<y, x>> \in StrictSubsetOrdering(Nat))
  <2> HIDE DEF W
  <2>1. IsWellFoundedOn(StrictSubsetOrdering(Nat), FiniteSubsetsOf(Nat))
    BY FS_StrictSubsetOrderingWellFounded
  <2>q. QED  BY <1>1, <2>1, WFMin
<1>3. PICK n \in T : x = 0..n
  OBVIOUS
<1>4. ASSUME NEW m \in T, ~ (n <= m)  PROVE FALSE
  <2>1. 0..m \in W /\ <<0..m, 0..n>> \notin StrictSubsetOrdering(Nat)
    BY <1>2, <1>3
  <2>2. n \in 0..n /\ n \notin 0..m /\ 0..m \subseteq 0..n /\ 0..n \subseteq Nat
    BY <1>4
  <2>q. QED  BY <2>1, <2>2 DEF StrictSubsetOrdering
<1>q. QED  BY <1>4

\* The recursion of Fresh defines a function ...
LEMMA FreshRecurs ==
  ASSUME NEW now \in Seq(Nodes), NEW known
  PROVE  \E w : /\ Fresh(now, known) = w[Len(now)]
                /\ w = [i \in 0..Len(now) |->
                          IF i = 0 THEN <<>>
                          ELSE IF Contains(known, now[i]) THEN w[i - 1] ELSE Append(w[i - 1], now[i])]
<1> DEFINE Body(f, i) == IF i = 0 THEN <<>>
                         ELSE IF Contains(known, now[i]) THEN f[i - 1] ELSE Append(f[i - 1], now[i])
           Is(f, n) == f = [i \in 0..n |-> Body(f, i)]
           Good(n) == \E f : Is(f, n)
           Bad == {n \in 0..Len(now) : ~Good(n)}
<1>1. Len(now) \in Nat
  BY LenProperties
<1>2. Good(0)
  <2>1. Is([i \in 0..0 |-> <<>>], 0)
    OBVIOUS
  <2>q. QED  BY <2>1
<1>3. ASSUME NEW n \in 1..Len(now), Good(n - 1)  PROVE Good(n)
  <2>1. PICK f : Is(f, n - 1)
    BY <1>3
  <2> DEFINE g == [i \in 0..n |-> IF i = n THEN Body(f, n) ELSE f[i]]
  <2>2. n \in Nat /\ n - 1 \in 0..n - 1 /\ n # 0 /\ n \in 0..n
    BY <1>1
  <2>3. g[n] = Body(f, n) /\ \A i \in 0..n - 1 : g[i] = f[i]
    <3> HIDE DEF Body
    <3>q. QED  BY <2>2
  <2>8. \A i \in 0..n - 1 : f[i] = Body(f, i)
    BY <2>1, Zenon
  <2>4. \A i \in 0..n - 1 : i = 0 \/ i - 1 \in 0..n - 1
    BY <2>2
  <2>5. ASSUME NEW i \in 0..n  PROVE g[i] = Body(g, i)
    <3> HIDE DEF g
    <3>1. CASE i = n
      BY <3>1, <2>2, <2>3
    <3>2. CASE i # n
      <4>1. i \in 0..n - 1
        BY <3>2, <2>2
      <4>q. QED  BY <4>1, <2>3, <2>4, <2>8
    <3>q. QED  BY <3>1, <3>2
  <2>6. g = [i \in 0..n |-> g[i]]
    OBVIOUS
  <2>7. Is(g, n)
    <3> HIDE DEF g
    <3>q. QED  BY <2>5, <2>6
  <2>q. QED  BY <2>7
<1>4. Bad = {}
  <2> HIDE DEF Good
  <2>1. Bad \subseteq Nat
    OBVIOUS
  <2>2. ASSUME NEW n \in Bad, \A m \in Bad : n <= m  PROVE FALSE
    <3>1. n \in 1..Len(now) /\ n - 1 \in 0..Len(now) /\ n - 1 \notin Bad
      BY <2>2, <1>1, <1>2
    <3>q. QED  BY <2>2, <3>1, <1>3
  <2>q. QED
    <3> HIDE DEF Bad
    <3>q. QED  BY <2>1, <2>2, Least
<1>5. Good(Len(now))
  <2> HIDE DEF Good
  <2>q. QED  BY <1>1, <1>4
<1>6. PICK w : w = (CHOOSE g : Is(g, Len(now)))
  OBVIOUS
<1>7. Is(w, Len(now)) /\ Fresh(now, known) = w[Len(now)]
  BY <1>5, <1>6, Zenon DEF Fresh
<1>q. QED  BY <1>7

\* ... whose values are sequences of nodes.
LEMMA FreshTyped ==
  ASSUME NEW now \in Seq(Nodes), NEW known
  PROVE  Fresh(now, known) \in Seq(Nodes)
<1>1. PICK w : /\ Fresh(now, known) = w[Len(now)]
               /\ w = [i \in 0..Len(now) |->
                         IF i = 0 THEN <<>>
                         ELSE IF Contains(known, now[i]) THEN w[i - 1] ELSE Append(w[i - 1], now[i])]
  BY FreshRecurs
<1>2. Len(now) \in Nat /\ \A i \in 1..Len(now) : now[i] \in Nodes
  BY LenProperties
<1>3. <<>> \in Seq(Nodes) /\ \A s \in Seq(Nodes), d \in Nodes : Append(s, d) \in Seq(Nodes)
  BY EmptySeq, AppendProperties
<1>4. w[0] = <<>>
  BY <1>1, <1>2
<1>5. \A i \in 1..Len(now) :
        w[i] = IF Contains(known, now[i]) THEN w[i - 1] ELSE Append(w[i - 1], now[i])
  <2>1. \A i \in 0..Len(now) :
          w[i] = IF i = 0 THEN <<>>
                 ELSE IF Contains(known, now[i]) THEN w[i - 1] ELSE Append(w[i - 1], now[i])
    BY <1>1, Zenon
  <2>2. \A i \in 1..Len(now) : i \in 0..Len(now) /\ i # 0
    BY <1>2
  <2>q. QED  BY <2>1, <2>2, Zenon
<1> DEFINE Bad == {i \in 0..Len(now) : w[i] \notin Seq(Nodes)}
<1>6. ASSUME NEW n \in Bad, \A m \in Bad : n <= m  PROVE FALSE
  <2>2. n # 0
    BY <1>3, <1>4, <1>6
  <2>3. n \in 1..Len(now) /\ n - 1 \in 0..Len(now) /\ ~(n <= n - 1)
    BY <1>2, <2>2
  <2>1. w[n - 1] \in Seq(Nodes)
    BY <1>6, <2>3
  <2>q. QED  BY <2>1, <2>3, <1>2, <1>3, <1>5
<1>7. Bad = {}
  <2>1. Bad \subseteq Nat
    OBVIOUS
  <2> HIDE DEF Bad
  <2>q. QED  BY <1>6, <2>1, Least
<1>8. Len(now) \in 0..Len(now)
  BY <1>2
<1>q. QED  BY <1>1, <1>7, <1>8

\* RemoveFirst takes one element out: what is left was there, and what was
\* taken is left only if it was there twice.
LEMMA RemoveFirstKeeps ==
  ASSUME NEW S, NEW s \in Seq(S), NEW x
  PROVE  /\ RemoveFirst(s, x) \in Seq(S)
         /\ \A y \in ToSet(RemoveFirst(s, x)) : y \in ToSet(s)
         /\ x \in ToSet(RemoveFirst(s, x)) => \E i, j \in DOMAIN s : i # j /\ s[i] = x /\ s[j] = x
         /\ \A i, j \in DOMAIN RemoveFirst(s, x) :
              i # j => \E p, q \in DOMAIN s : p # q /\ s[p] = RemoveFirst(s, x)[i] /\ s[q] = RemoveFirst(s, x)[j]
<1>1. Len(s) \in Nat /\ DOMAIN s = 1..Len(s) /\ \A i \in 1..Len(s) : s[i] \in S
  BY LenProperties
<1>2. CASE ~ \E i \in 1..Len(s) : s[i] = x
  <2>1. RemoveFirst(s, x) = s
    BY <1>2 DEF RemoveFirst
  <2>q. QED  BY <2>1, <1>1, <1>2 DEF ToSet
<1>3. CASE \E i \in 1..Len(s) : s[i] = x
  <2> DEFINE I == {i \in 1..Len(s) : s[i] = x}
  <2>1. PICK k \in 1..Len(s) : s[k] = x /\ RemoveFirst(s, x) = SubSeq(s, 1, k - 1) \o SubSeq(s, k + 1, Len(s))
    <3>1. PICK n \in I : \A m \in I : n <= m
      <4>1. I \subseteq Nat /\ I # {}
        BY <1>3, <1>1
      <4> HIDE DEF I
      <4>q. QED  BY <4>1, Least
    <3>2. Min(I) \in I
      <4> HIDE DEF I
      <4>q. QED  BY <3>1 DEF Min
    <3>3. RemoveFirst(s, x) = RemoveAt(s, Min(I))
      BY <1>3 DEF RemoveFirst, SelectInSeq
    <3>q. QED  BY <3>2, <3>3 DEF RemoveAt
  <2>2. PICK a, b : a = SubSeq(s, 1, k - 1) /\ b = SubSeq(s, k + 1, Len(s))
    OBVIOUS
  <2>3. a \in Seq(S) /\ Len(a) = k - 1 /\ \A i \in 1..k - 1 : a[i] = s[i]
    <3>1. \A i \in 1..k - 1 : s[i] \in S
      BY <1>1
    <3>q. QED  BY <1>1, <2>2, <3>1, SubSeqProperties
  <2>4. b \in Seq(S) /\ Len(b) = Len(s) - k /\ \A i \in 1..Len(s) - k : b[i] = s[k + i]
    <3>1. \A i \in k + 1..Len(s) : s[i] \in S
      BY <1>1
    <3>2. /\ b \in Seq(S) /\ Len(b) = IF k + 1 <= Len(s) THEN Len(s) - (k + 1) + 1 ELSE 0
          /\ \A i \in 1..Len(s) - (k + 1) + 1 : b[i] = s[k + 1 + i - 1]
      <4>1. k + 1 \in Int /\ Len(s) \in Int
        BY <1>1
      <4>q. QED  BY <2>2, <3>1, <4>1, SubSeqProperties
    <3>3. \A i \in 1..Len(s) - k : i \in 1..Len(s) - (k + 1) + 1 /\ k + 1 + i - 1 = k + i
      BY <1>1
    <3>4. \A i \in 1..Len(s) - k : b[i] = s[k + i]
      BY <3>2, <3>3
    <3>5. Len(b) = Len(s) - k
      <4>1. CASE k + 1 <= Len(s)
        BY <4>1, <3>2, <1>1
      <4>2. CASE k = Len(s)
        BY <4>2, <3>2, <1>1
      <4>3. k + 1 <= Len(s) \/ k = Len(s)
        <5>1. k \in 1..Len(s) /\ Len(s) \in Int
          BY <2>1, <1>1
        <5>2. PICK n \in Int : n = Len(s)
          BY <5>1
        <5>3. k \in 1..n
          BY <5>1, <5>2
        <5>4. k + 1 <= n \/ k = n
          BY <5>3
        <5>q. QED  BY <5>2, <5>4
      <4>q. QED  BY <4>1, <4>2, <4>3
    <3>q. QED  BY <3>2, <3>4, <3>5
  <2>5. PICK r : r = RemoveFirst(s, x)
    OBVIOUS
  <2>6. /\ r \in Seq(S) /\ Len(r) = Len(a) + Len(b)
        /\ \A i \in 1..Len(a) + Len(b) : r[i] = IF i <= Len(a) THEN a[i] ELSE b[i - Len(a)]
    <3>1. r = a \o b /\ a \in Seq(S) /\ b \in Seq(S)
      BY <2>1, <2>2, <2>3, <2>4, <2>5
    <3>q. QED  BY <3>1, ConcatProperties
  <2> DEFINE Origin(i) == IF i < k THEN i ELSE i + 1
  <2>7. DOMAIN r = 1..Len(s) - 1 /\ \A i \in 1..Len(s) - 1 : Origin(i) \in 1..Len(s) /\ Origin(i) # k /\ r[i] = s[Origin(i)]
    <3>1. DOMAIN r = 1..Len(r)
      BY <2>6, LenProperties
    <3>2. Len(r) = Len(s) - 1
      BY <2>3, <2>4, <2>6, <1>1
    <3>3. ASSUME NEW i \in 1..Len(s) - 1  PROVE Origin(i) \in 1..Len(s) /\ Origin(i) # k /\ r[i] = s[Origin(i)]
      <4>1. CASE i < k
        <5>1. i \in 1..Len(a) + Len(b) /\ i <= Len(a) /\ i \in 1..k - 1 /\ Origin(i) = i /\ i \in 1..Len(s) /\ i # k
          BY <4>1, <2>3, <2>4, <1>1
        <5>q. QED  BY <5>1, <2>3, <2>6
      <4>2. CASE ~(i < k)
        <5>1. i \in 1..Len(a) + Len(b) /\ ~(i <= Len(a)) /\ i - Len(a) \in 1..Len(s) - k /\ k + (i - Len(a)) = i + 1
          BY <4>2, <2>3, <2>4, <1>1
        <5>2. r[i] = b[i - Len(a)] /\ b[i - Len(a)] = s[k + (i - Len(a))]
          BY <5>1, <2>4, <2>6
        <5>q. QED  BY <4>2, <5>1, <5>2, <1>1
      <4>q. QED  BY <4>1, <4>2
    <3>q. QED  BY <3>1, <3>2, <3>3
  <2>8. \A i, j \in 1..Len(s) - 1 : i # j => Origin(i) # Origin(j)
    BY <1>1
  <2> HIDE DEF Origin
  <2>9. \A i \in DOMAIN r : \E p \in DOMAIN s : p # k /\ s[p] = r[i]
    BY <2>7, <1>1
  <2>10. \A i, j \in DOMAIN r : i # j => \E p, q \in DOMAIN s : p # q /\ s[p] = r[i] /\ s[q] = r[j]
    BY <2>7, <2>8, <1>1
  <2>11. \A i \in DOMAIN r : r[i] = x => \E p, q \in DOMAIN s : p # q /\ s[p] = x /\ s[q] = x
    BY <2>1, <2>9, <1>1
  <2>q. QED  BY <2>5, <2>6, <2>9, <2>10, <2>11 DEF ToSet
<1>q. QED  BY <1>2, <1>3

----------------------------------------------------------------------------
(* The push lists.                                                          *)

\* A change channel was replaced at most once per edit.
ChansBehind == \A n \in Nodes : packetsChan[n] <= edits /\ framesChan[n] <= edits
ListsInv == ListsTypeOK /\ ChansBehind

\* The lists start as they should.
LEMMA ListsInitially == ListsInit => ListsInv
BY ListsAssumption DEF ListsInit, ListsInv, ListsTypeOK, ChansBehind

\* What an edit of the lists of a node may change.
Edited(n) ==
  /\ edits < MaxEdits /\ edits' = edits + 1
  /\ packetsTo' = packetsTo \/ \E s \in Seq(Nodes) : packetsTo' = [packetsTo EXCEPT ![n] = s]
  /\ framesTo' = framesTo \/ \E s \in Seq(Nodes) : framesTo' = [framesTo EXCEPT ![n] = s]
  /\ packetsChan' = packetsChan \/ packetsChan' = [packetsChan EXCEPT ![n] = @ + 1]
  /\ framesChan' = framesChan \/ framesChan' = [framesChan EXCEPT ![n] = @ + 1]
  /\ marked' = marked \/ \E m \in SUBSET Nodes : marked' = [marked EXCEPT ![n] = m]

\* The hooks change the marks of this node, if any.
LEMMA HooksMark ==
  ASSUME ListsTypeOK, NEW n \in Nodes, NEW added \in SUBSET Nodes, NEW removed, Hooks(n, added, removed)
  PROVE  marked' = marked \/ \E m \in SUBSET Nodes : marked' = [marked EXCEPT ![n] = m]
<1>1. (marked[n] \cup added) \ removed \in SUBSET Nodes
  BY DEF ListsTypeOK
<1>q. QED  BY <1>1 DEF Hooks

\* Whatever edits the lists changes a list, its channel and the marks.
LEMMA EditsEdit ==
  ASSUME ListsTypeOK, NEW n \in Nodes, NEW dsts \in SUBSET Nodes, NEW choices \in SUBSET Seq(Nodes),
         EditPackets(n, dsts, choices) \/ EditFrames(n, dsts, choices)
  PROVE  Edited(n)
<1>1. packetsTo[n] \in Seq(Nodes) /\ framesTo[n] \in Seq(Nodes)
  BY DEF ListsTypeOK
<1>2. \A s \in Seq(Nodes), d \in Nodes : Append(s, d) \in Seq(Nodes) /\ RemoveFirst(s, d) \in Seq(Nodes)
  BY AppendProperties, RemoveFirstKeeps
<1>3. \A s \in Seq(Nodes) : ToSet(s) \subseteq Nodes
  BY LenProperties DEF ToSet
<1>4. ASSUME NEW d \in dsts, AddPushPacketsTo(n, d)  PROVE Edited(n)
  <2>1. Hooks(n, {d}, {}) /\ {d} \in SUBSET Nodes
    BY <1>4 DEF AddPushPacketsTo
  <2>q. QED  BY <1>1, <1>2, <1>4, <2>1, HooksMark DEF AddPushPacketsTo, Edit, Edited, Rotate
<1>5. ASSUME NEW d \in dsts, RemovePushPacketsTo(n, d)  PROVE Edited(n)
  <2>1. Hooks(n, {}, {d})
    BY <1>5 DEF RemovePushPacketsTo
  <2>q. QED  BY <1>1, <1>2, <1>5, <2>1, HooksMark DEF RemovePushPacketsTo, Edit, Edited, Rotate
<1>6. ASSUME NEW s \in choices, SetPushPacketsTos(n, s)  PROVE Edited(n)
  <2>1. Hooks(n, ToSet(s) \ ToSet(packetsTo[n]), {}) /\ ToSet(s) \ ToSet(packetsTo[n]) \in SUBSET Nodes
    BY <1>3, <1>6 DEF SetPushPacketsTos
  <2>q. QED  BY <1>6, <2>1, HooksMark DEF SetPushPacketsTos, Edit, Edited, Rotate
<1>7. ASSUME NEW s \in choices, WithPushPacketsTos(n, s)  PROVE Edited(n)
  <2>1. ToSet(s) \ ToSet(packetsTo[n]) \in SUBSET Nodes
    BY <1>3
  <2>2. marked' = marked \/ Hooks(n, ToSet(s) \ ToSet(packetsTo[n]), ToSet(packetsTo[n]) \ ToSet(s))
    BY <1>7 DEF WithPushPacketsTos
  <2>3. marked' = marked \/ \E m \in SUBSET Nodes : marked' = [marked EXCEPT ![n] = m]
    BY <2>1, <2>2, HooksMark
  <2>q. QED  BY <1>7, <2>3 DEF WithPushPacketsTos, Edit, Edited, Rotate
<1>8. ASSUME NEW d \in dsts, AddPushFramesTo(n, d) \/ RemovePushFramesTo(n, d)  PROVE Edited(n)
  BY <1>1, <1>2, <1>8 DEF AddPushFramesTo, RemovePushFramesTo, Edit, Edited, Rotate
<1>9. ASSUME NEW s \in choices, SetPushFramesTos(n, s) \/ WithPushFramesTos(n, s)  PROVE Edited(n)
  <2>1. CASE SetPushFramesTos(n, s)
    BY <1>9, <2>1 DEF SetPushFramesTos, Edit, Edited, Rotate
  <2>2. CASE WithPushFramesTos(n, s)
    BY <1>9, <2>2 DEF WithPushFramesTos, Edit, Edited, Rotate
  <2>q. QED  BY <1>9, <2>1, <2>2
<1>q. QED  BY <1>4, <1>5, <1>6, <1>7, <1>8, <1>9 DEF EditPackets, EditFrames

\* An edit keeps the types of the lists.
LEMMA EditedTyped ==
  ASSUME ListsInv, NEW n \in Nodes, Edited(n)
  PROVE  ListsInv'
<1>1. packetsTo' \in [Nodes -> Seq(Nodes)] /\ framesTo' \in [Nodes -> Seq(Nodes)]
  <2>1. packetsTo \in [Nodes -> Seq(Nodes)] /\ framesTo \in [Nodes -> Seq(Nodes)]
    BY DEF ListsInv, ListsTypeOK
  <2>2. packetsTo' = packetsTo \/ \E s \in Seq(Nodes) : packetsTo' = [packetsTo EXCEPT ![n] = s]
    BY DEF Edited
  <2>3. framesTo' = framesTo \/ \E s \in Seq(Nodes) : framesTo' = [framesTo EXCEPT ![n] = s]
    BY DEF Edited
  <2>4. packetsTo' \in [Nodes -> Seq(Nodes)]
    BY <2>1, <2>2
  <2>5. framesTo' \in [Nodes -> Seq(Nodes)]
    BY <2>1, <2>3
  <2>q. QED  BY <2>4, <2>5
<1>2. marked' \in [Nodes -> SUBSET Nodes]
  <2>1. marked \in [Nodes -> SUBSET Nodes]
    BY DEF ListsInv, ListsTypeOK
  <2>2. marked' = marked \/ \E m \in SUBSET Nodes : marked' = [marked EXCEPT ![n] = m]
    BY DEF Edited
  <2>q. QED  BY <2>1, <2>2
<1>3. edits \in Nat /\ MaxEdits \in Nat /\ edits < MaxEdits /\ edits' = edits + 1
  BY ListsAssumption DEF ListsInv, ListsTypeOK, Edited
<1>4. edits' \in 0..MaxEdits
  BY <1>3
<1>5. ASSUME NEW c, NEW d, c \in [Nodes -> 0..MaxEdits], \A m \in Nodes : c[m] <= edits,
             d = c \/ d = [c EXCEPT ![n] = @ + 1]
      PROVE  d \in [Nodes -> 0..MaxEdits] /\ \A m \in Nodes : d[m] <= edits'
  <2>1. \A m \in Nodes : c[m] \in Nat /\ c[m] <= edits /\ c[m] + 1 \in 0..MaxEdits
    BY <1>3, <1>5
  <2>2. \A m \in Nodes : d[m] = c[m] \/ d[m] = c[m] + 1
    BY <1>5
  <2>3. d \in [Nodes -> 0..MaxEdits]
    BY <1>5, <2>1
  <2>q. QED  BY <1>3, <2>1, <2>2, <2>3
<1>6. /\ packetsChan \in [Nodes -> 0..MaxEdits] /\ framesChan \in [Nodes -> 0..MaxEdits]
      /\ \A m \in Nodes : packetsChan[m] <= edits
      /\ \A m \in Nodes : framesChan[m] <= edits
      /\ packetsChan' = packetsChan \/ packetsChan' = [packetsChan EXCEPT ![n] = @ + 1]
      /\ framesChan' = framesChan \/ framesChan' = [framesChan EXCEPT ![n] = @ + 1]
  BY DEF ListsInv, ListsTypeOK, ChansBehind, Edited
<1>7. packetsChan' \in [Nodes -> 0..MaxEdits] /\ \A m \in Nodes : packetsChan'[m] <= edits'
  BY <1>5, <1>6
<1>8. framesChan' \in [Nodes -> 0..MaxEdits] /\ \A m \in Nodes : framesChan'[m] <= edits'
  BY <1>5, <1>6
<1>q. QED  BY <1>1, <1>2, <1>4, <1>7, <1>8 DEF ListsInv, ListsTypeOK, ChansBehind

----------------------------------------------------------------------------
(* Serving a tree: types.                                                   *)

Origins == Nodes \cup {"root"}
Items == [op : {"visit", "lists", "start"}, node : Nodes, via : Origins]

\* A function whose domain is 1..n is a sequence.
LEMMA IsSeq ==
  ASSUME NEW S, NEW n \in Nat, NEW f \in [1..n -> S]
  PROVE  f \in Seq(S) /\ Len(f) = n
BY SeqDef

\* What a walker puts on its stack is typed.
LEMMA VisitsTyped ==
  ASSUME NEW s \in Seq(Nodes), NEW v \in Origins
  PROVE  /\ Visits(s, v) \in Seq(Items) /\ Len(Visits(s, v)) = Len(s)
         /\ \A i \in 1..Len(s) : Visits(s, v)[i].op = "visit"
<1>1. Len(s) \in Nat /\ DOMAIN s = 1..Len(s) /\ \A i \in 1..Len(s) : s[i] \in Nodes
  BY LenProperties
<1>2. Visits(s, v) \in [1..Len(s) -> Items] /\ \A i \in 1..Len(s) : Visits(s, v)[i].op = "visit"
  BY <1>1 DEF Visits, Do, Items
<1>q. QED  BY <1>1, <1>2, IsSeq

\* What is done next is taken from the front of the work, and its own work put there.
Continues(g, items) ==
  /\ work[g] # <<>> /\ items \in Seq(Items)
  /\ work' = [work EXCEPT ![g] = items \o Tail(@)]

\* A walker's stack loses its first item and may gain others before the rest.
LEMMA WorkMoves ==
  ASSUME work \in [Walkers -> Seq(Items)], NEW g \in Walkers, NEW items, Continues(g, items)
  PROVE  /\ work' \in [Walkers -> Seq(Items)]
         /\ Len(items) \in Nat /\ Head(work[g]) = work[g][1] /\ 1 \in DOMAIN work[g] /\ Head(work[g]) \in Items
         /\ \A h \in Walkers \ {g} : work'[h] = work[h]
         /\ \A i \in DOMAIN work'[g] :
              \/ i \in 1..Len(items) /\ work'[g][i] = items[i]
              \/ /\ i \in Nat /\ i > Len(items)
                 /\ i - Len(items) + 1 \in DOMAIN work[g] \ {1} /\ work'[g][i] = work[g][i - Len(items) + 1]
<1>1. PICK s, t, r : s = work[g] /\ t = Tail(s) /\ r = items \o t
  OBVIOUS
<1>2. s \in Seq(Items) /\ s # <<>> /\ items \in Seq(Items)
  BY <1>1 DEF Continues
<1>3. /\ Head(s) \in Items /\ t \in Seq(Items) /\ Len(t) = Len(s) - 1
      /\ \A i \in 1..Len(t) : t[i] = s[i + 1]
  BY <1>1, <1>2, HeadTailProperties
<1>4. /\ r \in Seq(Items) /\ Len(r) = Len(items) + Len(t)
      /\ \A i \in 1..Len(items) + Len(t) : r[i] = IF i <= Len(items) THEN items[i] ELSE t[i - Len(items)]
  BY <1>1, <1>2, <1>3, ConcatProperties
<1>5. /\ Len(s) \in Nat /\ Len(t) \in Nat /\ Len(items) \in Nat /\ DOMAIN s = 1..Len(s) /\ DOMAIN r = 1..Len(r)
      /\ Len(s) # 0
  BY <1>2, <1>3, <1>4, LenProperties, EmptySeq
<1>6. work' = [work EXCEPT ![g] = r]
  BY <1>1 DEF Continues
<1>7. work' \in [Walkers -> Seq(Items)] /\ work'[g] = r /\ \A h \in Walkers \ {g} : work'[h] = work[h]
  BY <1>4, <1>6
<1>8. Head(s) = s[1] /\ 1 \in DOMAIN s
  BY <1>2, <1>5
<1>9. ASSUME NEW i \in DOMAIN r
      PROVE  \/ i \in 1..Len(items) /\ r[i] = items[i]
             \/ /\ i \in Nat /\ i > Len(items)
                /\ i - Len(items) + 1 \in DOMAIN s \ {1} /\ r[i] = s[i - Len(items) + 1]
  <2>1. i \in 1..Len(items) + Len(t)
    BY <1>4, <1>5
  <2>2. CASE i <= Len(items)
    BY <2>1, <2>2, <1>4, <1>5
  <2>3. CASE ~(i <= Len(items))
    <3>1. i \in Nat /\ i > Len(items) /\ i - Len(items) \in 1..Len(t) /\ i - Len(items) + 1 \in DOMAIN s \ {1}
      BY <2>1, <2>3, <1>3, <1>5
    <3>q. QED  BY <2>1, <2>3, <3>1, <1>3, <1>4
  <2>q. QED  BY <2>2, <2>3
<1>q. QED  BY <1>1, <1>3, <1>5, <1>7, <1>8, <1>9

\* The variables but for work.
RestTyped ==
  /\ cancelled \in BOOLEAN /\ visited \subseteq Nodes
  /\ via \in [Nodes -> Origins] /\ under \in [Nodes -> Origins]
  /\ watcher \in [Nodes -> {"no", "watch", "walk", "done"}]
  /\ server \in [Nodes -> {"no", "serve", "done"}]
  /\ seenPackets \in [Nodes -> 0..MaxEdits] /\ seenFrames \in [Nodes -> 0..MaxEdits]
  /\ knownPackets \in [Nodes -> Seq(Nodes)] /\ knownFrames \in [Nodes -> Seq(Nodes)]
TreeTypes == work \in [Walkers -> Seq(Items)] /\ RestTyped

\* The inductive types imply those that the run checks.
LEMMA TreeTypesImply == TreeTypes => TreeTypeOK
BY DEF TreeTypes, RestTyped, TreeTypeOK, Items, Origins

\* The tree starts with them.
LEMMA TreeTypesInitially == TreeInit => TreeTypes
<1> SUFFICES ASSUME TreeInit  PROVE TreeTypes
  OBVIOUS
<1>1. Visits(Roots, "root") \in Seq(Items)
  BY TreeAssumption, VisitsTyped DEF Origins
<1>2. work \in [Walkers -> Seq(Items)]
  BY <1>1, EmptySeq DEF TreeInit
<1>3. 0 \in 0..MaxEdits
  BY ListsAssumption
<1>q. QED  BY <1>2, <1>3, EmptySeq DEF TreeInit, TreeTypes, RestTyped, Origins

\* What a step of a walker does to its work, to the nodes visited and to the
\* variables that the order of the end depends on.
WalkMoves(g, items) ==
  /\ Continues(g, items)
  /\ UNCHANGED <<lists, cancelled>>
  /\ \/ /\ \A i \in 1..Len(items) : items[i].op = "visit"
        /\ visited \subseteq visited' /\ UNCHANGED <<via, under, server>>
     \/ \E n \in Nodes, v \in Origins :
          /\ n \notin visited /\ visited' = visited \cup {n}
          /\ items = <<Do("lists", n, n)>>
          /\ via' = [via EXCEPT ![n] = v] /\ under' = [under EXCEPT ![n] = CtxUnder(v)]
          /\ UNCHANGED server
     \/ \E n \in Nodes :
          /\ Head(work[g]).op \in {"lists", "start"} /\ Head(work[g]).node = n
          /\ \A i \in 1..Len(items) : items[i].op = "visit" \/ (i = Len(items) /\ items[i].node = n)
          /\ UNCHANGED <<visited, via, under, server>>
     \/ \E n \in Nodes :
          /\ Head(work[g]).op = "start" /\ Head(work[g]).node = n
          /\ items = <<>> /\ server' = [server EXCEPT ![n] = "serve"]
          /\ UNCHANGED <<visited, via, under>>

\* A child's context is that of a node or of the root.
LEMMA CtxUnderTyped ==
  ASSUME under \in [Nodes -> Origins], NEW v \in Origins
  PROVE  CtxUnder(v) \in Origins
BY DEF CtxUnder, ChildrenUnder, Origins

\* A step of a walker keeps the types.
LEMMA WalkersMove ==
  ASSUME ListsInv, TreeTypes, NEW g \in Walkers, WalkStep(g)
  PROVE  RestTyped' /\ \E items : WalkMoves(g, items)
<1>1. work[g] \in Seq(Items) /\ work[g] # <<>>
  BY DEF TreeTypes, WalkStep, AlreadyVisited, Reject, Visit, LoadLists, StartNode, Doing
<1>2. PICK h : h = Item(g)
  OBVIOUS
<1>3. h \in Items /\ h = Head(work[g])
  BY <1>1, <1>2, HeadTailProperties DEF Item
<1>4. h.op \in {"visit", "lists", "start"} /\ h.node \in Nodes /\ h.via \in Origins
  BY <1>3 DEF Items
<1>5. PICK n \in Nodes : n = h.node
  BY <1>4
<1>6. <<>> \in Seq(Items) /\ Len(<<>>) = 0
  BY EmptySeq
<1>7. \A i \in 1..Len(<<>>) : <<>>[i].op = "visit"
  BY <1>6
<1>8. CASE AlreadyVisited(g)
  <2>1. Continues(g, <<>>)
    BY <1>1, <1>6, <1>8 DEF AlreadyVisited, Continue, Continues
  <2>2. WalkMoves(g, <<>>)
    BY <1>7, <1>8, <2>1 DEF AlreadyVisited, WalkMoves
  <2>q. QED  BY <1>8, <2>2 DEF AlreadyVisited, TreeTypes, RestTyped, seen
<1>9. CASE Reject(g)
  <2>1. Continues(g, <<>>)
    BY <1>1, <1>6, <1>9 DEF Reject, Continue, Continues
  <2>2. visited' = visited \cup {n}
    BY <1>2, <1>5, <1>9 DEF Reject
  <2>3. WalkMoves(g, <<>>)
    BY <1>7, <1>9, <2>1, <2>2 DEF Reject, WalkMoves
  <2>q. QED  BY <1>9, <2>2, <2>3 DEF Reject, TreeTypes, RestTyped, seen
<1>10. CASE Visit(g)
  <2>1. <<Do("lists", n, n)>> \in Seq(Items)
    BY DEF Do, Items, Origins
  <2>2. Continues(g, <<Do("lists", n, n)>>)
    BY <1>1, <1>2, <1>5, <1>10, <2>1 DEF Visit, Continue, Continues
  <2>3. /\ n \notin visited /\ visited' = visited \cup {n} /\ h.via \in Origins
        /\ via' = [via EXCEPT ![n] = h.via] /\ under' = [under EXCEPT ![n] = CtxUnder(h.via)]
        /\ seenPackets' = [seenPackets EXCEPT ![n] = packetsChan[n]]
        /\ seenFrames' = [seenFrames EXCEPT ![n] = framesChan[n]]
        /\ UNCHANGED <<lists, cancelled, watcher, knownPackets, knownFrames, server>>
    BY <1>2, <1>4, <1>5, <1>10 DEF Visit
  <2>4. WalkMoves(g, <<Do("lists", n, n)>>)
    BY <2>2, <2>3 DEF WalkMoves
  <2>5. packetsChan[n] \in 0..MaxEdits /\ framesChan[n] \in 0..MaxEdits /\ CtxUnder(h.via) \in Origins
    BY <1>4, CtxUnderTyped DEF ListsInv, ListsTypeOK, TreeTypes, RestTyped
  <2>6. RestTyped'
    BY <2>3, <2>5 DEF TreeTypes, RestTyped
  <2>q. QED  BY <2>4, <2>6
<1>11. CASE LoadLists(g)
  <2> DEFINE all == packetsTo[n] \o framesTo[n]
             start == IF n \in Skipped THEN <<>> ELSE <<Do("start", n, n)>>
             items == Visits(all, n) \o start
  <2>1. packetsTo[n] \in Seq(Nodes) /\ framesTo[n] \in Seq(Nodes)
    BY DEF ListsInv, ListsTypeOK
  <2>2. all \in Seq(Nodes)
    BY <2>1, ConcatProperties
  <2>3. PICK vs : vs = Visits(all, n) /\ vs \in Seq(Items) /\ \A i \in 1..Len(vs) : vs[i].op = "visit"
    <3>1. n \in Origins
      BY DEF Origins
    <3> HIDE DEF all
    <3>q. QED  BY <2>2, <3>1, VisitsTyped
  <2> DEFINE Small(x) == x \in Seq(Items) /\ \A i \in 1..Len(x) : i = Len(x) /\ x[i].node = n
  <2>15. Small(start)
    <3>1. CASE n \in Skipped
      <4>1. start = <<>>
        BY <3>1
      <4>2. Small(<<>>)
        BY <1>6
      <4> HIDE DEF start, Small
      <4>q. QED  BY <4>1, <4>2
    <3>2. CASE n \notin Skipped
      <4>4. Do("start", n, n) \in Items /\ Do("start", n, n).node = n
        BY DEF Do, Items, Origins
      <4>1. PICK x : x = Do("start", n, n) /\ x \in Items /\ x.node = n
        BY <4>4
      <4>2. start = <<x>>
        BY <3>2, <4>1
      <4>3. Small(<<x>>)
        BY <4>1
      <4> HIDE DEF start, Small
      <4>q. QED  BY <4>2, <4>3
    <3>q. QED  BY <3>1, <3>2
  <2>4. PICK st : st = start /\ Small(st)
    <3> HIDE DEF start, Small
    <3>q. QED  BY <2>15
  <2>5. PICK its : its = vs \o st
    OBVIOUS
  <2>6. /\ its \in Seq(Items) /\ Len(its) = Len(vs) + Len(st)
        /\ \A i \in 1..Len(vs) + Len(st) : its[i] = IF i <= Len(vs) THEN vs[i] ELSE st[i - Len(vs)]
    BY <2>3, <2>4, <2>5, ConcatProperties
  <2>7. Len(vs) \in Nat /\ Len(st) \in Nat
    BY <2>3, <2>4, LenProperties
  <2>8. ASSUME NEW i \in 1..Len(its)  PROVE its[i].op = "visit" \/ (i = Len(its) /\ its[i].node = n)
    <3>1. CASE i <= Len(vs)
      BY <3>1, <2>3, <2>6, <2>7
    <3>2. CASE ~(i <= Len(vs))
      <4>1. i - Len(vs) \in 1..Len(st) /\ i \in 1..Len(vs) + Len(st)
        BY <3>2, <2>6, <2>7
      <4>2. i - Len(vs) = Len(st) /\ st[i - Len(vs)].node = n
        BY <2>4, <4>1
      <4>q. QED  BY <3>2, <4>1, <4>2, <2>6, <2>7
    <3>q. QED  BY <3>1, <3>2
  <2>9. work' = [work EXCEPT ![g] = its \o Tail(@)]
    BY <1>2, <1>5, <1>11, <2>3, <2>4, <2>5 DEF LoadLists, Continue
  <2>10. Continues(g, its)
    BY <1>1, <2>6, <2>9 DEF Continues
  <2>11. h.op = "lists" /\ UNCHANGED <<lists, cancelled, visited, via, under, seenPackets, seenFrames, server>>
    BY <1>3, <1>11 DEF LoadLists, Doing
  <2>12. WalkMoves(g, its)
    BY <1>3, <1>5, <2>8, <2>10, <2>11 DEF WalkMoves
  <2>13. /\ knownPackets' = [knownPackets EXCEPT ![n] = packetsTo[n]]
         /\ knownFrames' = [knownFrames EXCEPT ![n] = framesTo[n]]
         /\ watcher' = [watcher EXCEPT ![n] = "watch"]
    BY <1>2, <1>5, <1>11 DEF LoadLists
  <2>14. RestTyped'
    BY <2>1, <2>11, <2>13 DEF TreeTypes, RestTyped
  <2>q. QED  BY <2>12, <2>14
<1>12. CASE StartNode(g)
  <2>1. Continues(g, <<>>)
    BY <1>1, <1>6, <1>12 DEF StartNode, Continue, Continues
  <2>2. server' = [server EXCEPT ![n] = "serve"] /\ h.op = "start"
    BY <1>2, <1>3, <1>5, <1>12 DEF StartNode, Doing
  <2>3. UNCHANGED <<lists, cancelled, visited, via, under, watcher, seen>>
    BY <1>12 DEF StartNode
  <2>4. WalkMoves(g, <<>>)
    BY <1>3, <1>5, <2>1, <2>2, <2>3 DEF WalkMoves
  <2>5. RestTyped'
    BY <2>2, <2>3 DEF TreeTypes, RestTyped, seen
  <2>q. QED  BY <2>4, <2>5
<1>q. QED  BY <1>8, <1>9, <1>10, <1>11, <1>12 DEF WalkStep

----------------------------------------------------------------------------
(* Serving a tree: the order of the end.                                    *)

\* A node's own goroutine is still to be started: by one walker, and once.
Pending(h, i) == i \in DOMAIN work[h] /\ work[h][i].op # "visit"
PendingOnce ==
  \A h, k \in Walkers : \A i \in DOMAIN work[h], j \in DOMAIN work[k] :
    Pending(h, i) /\ Pending(k, j) /\ work[h][i].node = work[k][j].node => h = k /\ i = j
PendingIdle ==
  \A h \in Walkers : \A i \in DOMAIN work[h] :
    Pending(h, i) => work[h][i].node \in visited /\ server[work[h][i].node] = "no"
\* Only visited nodes are served, and the end of the node through which a node
\* was found makes its context done.
Served == \A n \in Nodes : server[n] # "no" => n \in visited
UnderVia == \A n \in Nodes : via[n] \in Nodes \ Skipped => under[n] = via[n]
TreeInv == TreeTypes /\ PendingOnce /\ PendingIdle /\ Served /\ UnderVia /\ EndsAfterItsSource

\* Where the pending nodes of a walker come from when it takes a step that adds
\* at most one, n, in the place of what it takes.
AddsOnly(g, items, n) ==
  /\ Continues(g, items)
  /\ \A i \in 1..Len(items) : items[i].op = "visit" \/ (i = Len(items) /\ items[i].node = n)
  /\ \A h \in Walkers : \A i \in DOMAIN work[h] :
       Pending(h, i) /\ work[h][i].node = n => h = g /\ i = 1
Kept(items, n) ==
  \A h \in Walkers : \A i \in DOMAIN work'[h] :
    Pending(h, i)' =>
      \/ i \in 1..Len(items) /\ work'[h][i].node = n
      \/ /\ work'[h][i].node # n
         /\ \E j \in DOMAIN work[h] : Pending(h, j) /\ work[h][j] = work'[h][i]

\* A visit that is pending after a step was pending before or is the one added.
LEMMA PendingMoves ==
  ASSUME work \in [Walkers -> Seq(Items)], PendingOnce,
         NEW g \in Walkers, NEW items, NEW n, AddsOnly(g, items, n)
  PROVE  PendingOnce' /\ Kept(items, n)
<1>1. /\ work' \in [Walkers -> Seq(Items)] /\ Len(items) \in Nat /\ 1 \in DOMAIN work[g]
      /\ \A h \in Walkers \ {g} : work'[h] = work[h]
      /\ \A i \in DOMAIN work'[g] :
           \/ i \in 1..Len(items) /\ work'[g][i] = items[i]
           \/ /\ i \in Nat /\ i > Len(items)
              /\ i - Len(items) + 1 \in DOMAIN work[g] \ {1} /\ work'[g][i] = work[g][i - Len(items) + 1]
  BY WorkMoves DEF AddsOnly
<1> DEFINE IsNew(h, i) == h = g /\ i = Len(items) /\ i \in 1..Len(items) /\ work'[h][i].node = n
           Was(h, i, j) == /\ j \in DOMAIN work[h] /\ Pending(h, j) /\ work[h][j] = work'[h][i] /\ work[h][j].node # n
                           /\ h # g => j = i
                           /\ h = g => i \in Nat /\ j = i - Len(items) + 1
<1>2. ASSUME NEW h \in Walkers, NEW i \in DOMAIN work'[h], Pending(h, i)'
      PROVE  IsNew(h, i) \/ \E j : Was(h, i, j)
  <2>1. CASE h # g
    <3>1. Pending(h, i) /\ work[h][i] = work'[h][i] /\ i \in DOMAIN work[h]
      BY <1>1, <1>2, <2>1 DEF Pending
    <3>2. Was(h, i, i)
      BY <2>1, <3>1 DEF AddsOnly
    <3>q. QED  BY <3>2
  <2>2. CASE h = g /\ i \in 1..Len(items) /\ work'[g][i] = items[i]
    BY <1>2, <2>2 DEF Pending, AddsOnly
  <2>3. CASE h = g /\ i \in Nat /\ i - Len(items) + 1 \in DOMAIN work[g] \ {1} /\ work'[g][i] = work[g][i - Len(items) + 1]
    <3>1. PICK j : j = i - Len(items) + 1
      OBVIOUS
    <3>2. j \in DOMAIN work[g] /\ j # 1 /\ work'[g][i] = work[g][j]
      BY <2>3, <3>1
    <3>3. Pending(g, j)
      BY <1>2, <2>3, <3>2 DEF Pending
    <3>4. Was(h, i, j)
      BY <2>3, <3>1, <3>2, <3>3 DEF AddsOnly
    <3>q. QED  BY <3>4
  <2>q. QED  BY <1>1, <2>1, <2>2, <2>3
<1>3. ASSUME NEW h \in Walkers, NEW k \in Walkers, NEW i \in DOMAIN work'[h], NEW j \in DOMAIN work'[k],
             Pending(h, i)', Pending(k, j)', work'[h][i].node = work'[k][j].node
      PROVE  h = k /\ i = j
  <2>1. (IsNew(h, i) \/ \E p : Was(h, i, p)) /\ (IsNew(k, j) \/ \E p : Was(k, j, p))
    <3> HIDE DEF IsNew, Was
    <3>q. QED  BY <1>2, <1>3
  <2>2. CASE IsNew(h, i) /\ IsNew(k, j)
    BY <2>2
  <2>3. ASSUME NEW p, NEW q, Was(h, i, p), Was(k, j, q)  PROVE h = k /\ i = j
    <3>1. h = k /\ p = q
      BY <1>3, <2>3 DEF PendingOnce
    <3>q. QED  BY <2>3, <3>1, <1>1
  <2>4. ASSUME NEW p, Was(h, i, p), IsNew(k, j)  PROVE FALSE
    BY <1>3, <2>4
  <2>5. ASSUME NEW p, Was(k, j, p), IsNew(h, i)  PROVE FALSE
    BY <1>3, <2>5
  <2>q. QED
    <3> HIDE DEF IsNew, Was
    <3>q. QED  BY <2>1, <2>2, <2>3, <2>4, <2>5
<1>4. PendingOnce'
  <2> HIDE DEF IsNew, Was
  <2>q. QED  BY <1>3 DEF PendingOnce
<1>5. ASSUME NEW h \in Walkers, NEW i \in DOMAIN work'[h], Pending(h, i)'
      PROVE  \/ i \in 1..Len(items) /\ work'[h][i].node = n
             \/ /\ work'[h][i].node # n
                /\ \E j \in DOMAIN work[h] : Pending(h, j) /\ work[h][j] = work'[h][i]
  BY <1>2, <1>5
<1>q. QED
  <2> HIDE DEF IsNew, Was
  <2>q. QED  BY <1>4, <1>5 DEF Kept

\* What is in a stack is about nodes.
LEMMA ItemsNode ==
  ASSUME NEW w, w \in [Walkers -> Seq(Items)]
  PROVE  \A h \in Walkers : \A i \in DOMAIN w[h] : w[h][i].node \in Nodes
<1> TAKE h \in Walkers
<1> TAKE i \in DOMAIN w[h]
<1>1. PICK s : s = w[h] /\ s \in Seq(Items)
  OBVIOUS
<1>2. s[i] \in Items
  BY <1>1, LenProperties
<1>q. QED  BY <1>1, <1>2 DEF Items

\* A step of a walker keeps a node visited once and its end after its source's.
LEMMA WalkKeeps ==
  ASSUME ListsInv, TreeInv, NEW g \in Walkers, WalkStep(g)
  PROVE  TreeInv'
<1>1. PICK items : RestTyped' /\ WalkMoves(g, items)
  BY WalkersMove DEF TreeInv
<1>2. Continues(g, items) /\ UNCHANGED <<lists, cancelled>>
  BY <1>1 DEF WalkMoves
<1>3. work \in [Walkers -> Seq(Items)] /\ work' \in [Walkers -> Seq(Items)] /\ Head(work[g]) = work[g][1]
      /\ 1 \in DOMAIN work[g] /\ Len(items) \in Nat
  BY <1>2, WorkMoves DEF TreeInv, TreeTypes
<1>4. TreeTypes'
  BY <1>1, <1>3 DEF TreeTypes
<1>5. /\ via \in [Nodes -> Origins] /\ under \in [Nodes -> Origins]
      /\ server \in [Nodes -> {"no", "serve", "done"}]
  BY DEF TreeInv, TreeTypes, RestTyped
<1>6. /\ \A h \in Walkers : \A i \in DOMAIN work[h] : work[h][i].node \in Nodes
      /\ \A h \in Walkers : \A i \in DOMAIN work'[h] : work'[h][i].node \in Nodes
  BY <1>3, ItemsNode
<1>7. CASE /\ \A i \in 1..Len(items) : items[i].op = "visit"
           /\ visited \subseteq visited' /\ UNCHANGED <<via, under, server>>
  <2>1. "root" \notin Nodes
    BY TreeAssumption
  <2>2. /\ \A i \in 1..Len(items) : items[i].op = "visit" \/ (i = Len(items) /\ items[i].node = "root")
        /\ \A h \in Walkers : \A i \in DOMAIN work[h] : Pending(h, i) /\ work[h][i].node = "root" => h = g /\ i = 1
    BY <1>6, <1>7, <2>1
  <2>3. PendingOnce' /\ Kept(items, "root")
    <3>1. AddsOnly(g, items, "root") /\ PendingOnce
      BY <1>2, <2>2 DEF AddsOnly, TreeInv
    <3>q. QED  BY <1>3, <3>1, PendingMoves
  <2>4. PendingIdle'
    BY <1>6, <1>7, <2>1, <2>3 DEF TreeInv, PendingIdle, Kept
  <2>q. QED  BY <1>4, <1>7, <2>3, <2>4 DEF TreeInv, Served, UnderVia, EndsAfterItsSource
<1>8. ASSUME NEW n \in Nodes, NEW v \in Origins,
             n \notin visited, visited' = visited \cup {n}, items = <<Do("lists", n, n)>>,
             via' = [via EXCEPT ![n] = v], under' = [under EXCEPT ![n] = CtxUnder(v)], UNCHANGED server
      PROVE  TreeInv'
  <2>1. server[n] = "no"
    BY <1>8 DEF TreeInv, Served
  <2>2. Len(items) = 1 /\ items[1].node = n
    BY <1>8 DEF Do
  <2>3. \A h \in Walkers : \A i \in DOMAIN work[h] : Pending(h, i) => work[h][i].node # n
    BY <1>8 DEF TreeInv, PendingIdle
  <2>4. PendingOnce' /\ Kept(items, n)
    <3>1. AddsOnly(g, items, n) /\ PendingOnce
      BY <1>2, <2>2, <2>3 DEF AddsOnly, TreeInv
    <3>q. QED  BY <1>3, <3>1, PendingMoves
  <2>5. PendingIdle'
    BY <1>8, <2>1, <2>4 DEF TreeInv, PendingIdle, Kept
  <2>6. Served' /\ EndsAfterItsSource'
    BY <1>5, <1>8, <2>1 DEF TreeInv, Served, EndsAfterItsSource
  <2>7. UnderVia'
    BY <1>5, <1>8, TreeAssumption DEF TreeInv, UnderVia, CtxUnder, ChildrenUnder
  <2>q. QED  BY <1>4, <2>4, <2>5, <2>6, <2>7 DEF TreeInv
<1>9. ASSUME NEW n \in Nodes, Head(work[g]).op \in {"lists", "start"}, Head(work[g]).node = n
      PROVE  /\ Pending(g, 1) /\ n \in visited /\ server[n] = "no"
             /\ \A h \in Walkers : \A i \in DOMAIN work[h] : Pending(h, i) /\ work[h][i].node = n => h = g /\ i = 1
  <2>1. Pending(g, 1)
    BY <1>3, <1>9 DEF Pending
  <2>q. QED  BY <1>3, <1>9, <2>1 DEF TreeInv, PendingOnce, PendingIdle
<1>10. ASSUME NEW n \in Nodes, Head(work[g]).op \in {"lists", "start"}, Head(work[g]).node = n,
              \A i \in 1..Len(items) : items[i].op = "visit" \/ (i = Len(items) /\ items[i].node = n),
              UNCHANGED <<visited, via, under, server>>
       PROVE  TreeInv'
  <2>1. /\ n \in visited /\ server[n] = "no"
        /\ \A h \in Walkers : \A i \in DOMAIN work[h] : Pending(h, i) /\ work[h][i].node = n => h = g /\ i = 1
    BY <1>9, <1>10
  <2>2. PendingOnce' /\ Kept(items, n)
    <3>1. AddsOnly(g, items, n) /\ PendingOnce
      BY <1>2, <1>10, <2>1 DEF AddsOnly, TreeInv
    <3>q. QED  BY <1>3, <3>1, PendingMoves
  <2>3. PendingIdle'
    BY <1>10, <2>1, <2>2 DEF TreeInv, PendingIdle, Kept
  <2>q. QED  BY <1>4, <1>10, <2>2, <2>3 DEF TreeInv, Served, UnderVia, EndsAfterItsSource
<1>11. ASSUME NEW n \in Nodes, Head(work[g]).op = "start", Head(work[g]).node = n,
              items = <<>>, server' = [server EXCEPT ![n] = "serve"], UNCHANGED <<visited, via, under>>
       PROVE  TreeInv'
  <2>1. /\ n \in visited /\ server[n] = "no"
        /\ \A h \in Walkers : \A i \in DOMAIN work[h] : Pending(h, i) /\ work[h][i].node = n => h = g /\ i = 1
    BY <1>9, <1>11
  <2>2. 1..Len(items) = {}
    BY <1>11
  <2>3. PendingOnce' /\ Kept(items, n)
    <3>1. AddsOnly(g, items, n) /\ PendingOnce
      BY <1>2, <2>1, <2>2 DEF AddsOnly, TreeInv
    <3>q. QED  BY <1>3, <3>1, PendingMoves
  <2>4. PendingIdle'
    BY <1>5, <1>6, <1>11, <2>2, <2>3 DEF TreeInv, PendingIdle, Kept
  <2>5. \A m \in Nodes : server'[m] = server[m] \/ (m = n /\ server'[m] = "serve")
    BY <1>5, <1>11
  <2>6. Served' /\ UnderVia' /\ EndsAfterItsSource'
    BY <1>11, <2>1, <2>5 DEF TreeInv, Served, UnderVia, EndsAfterItsSource
  <2>q. QED  BY <1>4, <2>3, <2>4, <2>6 DEF TreeInv
<1>q. QED  BY <1>1, <1>7, <1>8, <1>10, <1>11 DEF WalkMoves

\* A watcher takes new nodes to visit.
LEMMA WatcherWalks ==
  ASSUME TreeInv, RestTyped', NEW n \in Nodes, NEW s \in Seq(Nodes),
         work' = [work EXCEPT ![n] = Visits(s, n)], UNCHANGED <<visited, via, under, server>>
  PROVE  TreeInv'
<1>1. PICK vs : vs = Visits(s, n) /\ vs \in Seq(Items) /\ \A i \in DOMAIN vs : vs[i].op = "visit"
  <2>1. n \in Origins
    BY DEF Origins
  <2>2. /\ Visits(s, n) \in Seq(Items) /\ Len(Visits(s, n)) = Len(s)
        /\ \A i \in 1..Len(s) : Visits(s, n)[i].op = "visit"
    BY <2>1, VisitsTyped
  <2>q. QED  BY <2>2, LenProperties
<1>2. n \in Walkers /\ work \in [Walkers -> Seq(Items)]
  BY DEF Walkers, TreeInv, TreeTypes
<1>3. work' \in [Walkers -> Seq(Items)] /\ work'[n] = vs /\ \A h \in Walkers \ {n} : work'[h] = work[h]
  BY <1>1, <1>2
<1>4. ASSUME NEW h \in Walkers, NEW i \in DOMAIN work'[h], Pending(h, i)'
      PROVE  i \in DOMAIN work[h] /\ Pending(h, i) /\ work'[h][i] = work[h][i]
  <2>1. h # n
    BY <1>1, <1>3, <1>4 DEF Pending
  <2>q. QED  BY <1>3, <1>4, <2>1 DEF Pending
<1>5. PendingOnce' /\ PendingIdle'
  BY <1>4 DEF PendingOnce, PendingIdle, TreeInv
<1>6. TreeTypes'
  BY <1>3 DEF TreeTypes
<1>q. QED  BY <1>5, <1>6 DEF TreeInv, Served, UnderVia, EndsAfterItsSource

\* So does every step of the tree.
LEMMA TreeKeeps ==
  ASSUME ListsInv, TreeInv, TreeNext
  PROVE  ListsInv' /\ TreeInv'
<1>1. RestTyped /\ work \in [Walkers -> Seq(Items)]
  BY DEF TreeInv, TreeTypes
<1>2. ASSUME UNCHANGED lists  PROVE ListsInv'
  BY <1>2 DEF lists, ListsInv, ListsTypeOK, ChansBehind
<1>3. ASSUME UNCHANGED <<walk, server>>, RestTyped'  PROVE TreeInv'
  BY <1>3 DEF walk, TreeInv, TreeTypes, PendingOnce, Pending, PendingIdle, Served, UnderVia, EndsAfterItsSource
<1>4. ASSUME NEW g \in Walkers, WalkStep(g)  PROVE ListsInv' /\ TreeInv'
  <2>1. UNCHANGED lists
    BY <1>4 DEF WalkStep, AlreadyVisited, Reject, Visit, LoadLists, StartNode
  <2>q. QED  BY <1>2, <1>4, <2>1, WalkKeeps
<1>5. ASSUME NEW n \in Nodes, PacketsListChanged(n)  PROVE ListsInv' /\ TreeInv'
  <2>1. packetsTo[n] \in Seq(Nodes) /\ packetsChan[n] \in 0..MaxEdits
    BY DEF ListsInv, ListsTypeOK
  <2>2. Fresh(packetsTo[n], knownPackets[n]) \in Seq(Nodes)
    BY <2>1, FreshTyped
  <2>3. RestTyped'
    BY <1>1, <1>5, <2>1 DEF PacketsListChanged, RestTyped
  <2>4. TreeInv'
    <3>1. /\ work' = [work EXCEPT ![n] = Visits(Fresh(packetsTo[n], knownPackets[n]), n)]
          /\ UNCHANGED <<visited, via, under, server>>
      BY <1>5 DEF PacketsListChanged
    <3>q. QED  BY <2>2, <2>3, <3>1, WatcherWalks
  <2>5. UNCHANGED lists
    BY <1>5 DEF PacketsListChanged
  <2>q. QED  BY <1>2, <2>4, <2>5
<1>6. ASSUME NEW n \in Nodes, FramesListChanged(n)  PROVE ListsInv' /\ TreeInv'
  <2>1. framesTo[n] \in Seq(Nodes) /\ framesChan[n] \in 0..MaxEdits
    BY DEF ListsInv, ListsTypeOK
  <2>2. Fresh(framesTo[n], knownFrames[n]) \in Seq(Nodes)
    BY <2>1, FreshTyped
  <2>3. RestTyped'
    BY <1>1, <1>6, <2>1 DEF FramesListChanged, RestTyped
  <2>4. TreeInv'
    <3>1. /\ work' = [work EXCEPT ![n] = Visits(Fresh(framesTo[n], knownFrames[n]), n)]
          /\ UNCHANGED <<visited, via, under, server>>
      BY <1>6 DEF FramesListChanged
    <3>q. QED  BY <2>2, <2>3, <3>1, WatcherWalks
  <2>5. UNCHANGED lists
    BY <1>6 DEF FramesListChanged
  <2>q. QED  BY <1>2, <2>4, <2>5
<1>7. ASSUME NEW n \in Nodes, WatchAgain(n) \/ StopWatching(n)  PROVE ListsInv' /\ TreeInv'
  <2>1. UNCHANGED <<lists, cancelled, walk, seen, server>>
    BY <1>7 DEF WatchAgain, StopWatching
  <2>2. RestTyped'
    BY <1>1, <1>7, <2>1 DEF WatchAgain, StopWatching, RestTyped, walk, seen
  <2>q. QED  BY <1>2, <1>3, <2>1, <2>2
<1>8. ASSUME NEW n \in Nodes, NodeReturns(n)  PROVE ListsInv' /\ TreeInv'
  <2>1. /\ server[n] = "serve" /\ server' = [server EXCEPT ![n] = "done"]
        /\ UNCHANGED <<lists, cancelled, walk, watcher, seen>> /\ (Ended(under[n]) \/ n \in Enders)
    BY <1>8 DEF NodeReturns, NodeCtxDone
  <2>2. server' \in [Nodes -> {"no", "serve", "done"}] /\ \A m \in Nodes : server'[m] = IF m = n THEN "done" ELSE server[m]
    BY <1>1, <2>1 DEF RestTyped
  <2>3. TreeTypes'
    BY <1>1, <2>1, <2>2 DEF TreeTypes, RestTyped, walk, seen
  <2>4. PendingOnce' /\ UnderVia'
    BY <2>1 DEF walk, TreeInv, PendingOnce, Pending, UnderVia
  <2>5. PendingIdle'
    <3>1. \A h \in Walkers : \A i \in DOMAIN work[h] : Pending(h, i) => server[work[h][i].node] = "no" /\ work[h][i].node \in Nodes
      BY <1>1, ItemsNode DEF TreeInv, PendingIdle
    <3>q. QED  BY <2>1, <2>2, <3>1 DEF walk, TreeInv, PendingIdle, Pending
  <2>6. Served'
    BY <2>1, <2>2 DEF walk, TreeInv, Served
  <2>7. EndsAfterItsSource'
    <3>1. ASSUME NEW m \in Nodes \ Enders, server'[m] = "done", via[m] \in Nodes \ Skipped
          PROVE  server'[via[m]] = "done"
      <4>1. CASE m = n
        <5>1. under[n] = via[n] /\ via[n] # "root"
          BY <3>1, <4>1, TreeAssumption DEF TreeInv, UnderVia
        <5>2. server[via[n]] = "done"
          BY <2>1, <3>1, <4>1, <5>1 DEF Ended
        <5>q. QED  BY <2>2, <3>1, <4>1, <5>2
      <4>2. CASE m # n
        BY <2>2, <3>1, <4>2 DEF TreeInv, EndsAfterItsSource
      <4>q. QED  BY <4>1, <4>2
    <3>q. QED  BY <2>1, <3>1 DEF walk, EndsAfterItsSource
  <2>q. QED  BY <1>2, <2>1, <2>3, <2>4, <2>5, <2>6, <2>7 DEF TreeInv
<1>9. CASE CancelServe
  <2>1. RestTyped' /\ UNCHANGED <<lists, walk, server>>
    BY <1>1, <1>9 DEF CancelServe, RestTyped, walk, seen
  <2>q. QED  BY <1>2, <1>3, <2>1
<1>10. CASE EditGraph
  <2>1. PICK n \in EditedNodes : EditPackets(n, AddedNodes, {}) \/ EditFrames(n, AddedNodes, FrameChoices)
    BY <1>10 DEF EditGraph
  <2>2. n \in Nodes /\ AddedNodes \in SUBSET Nodes /\ FrameChoices \in SUBSET Seq(Nodes) /\ {} \in SUBSET Seq(Nodes)
    BY TreeAssumption
  <2>3. Edited(n)
    <3>1. ListsTypeOK
      BY DEF ListsInv
    <3>2. CASE EditPackets(n, AddedNodes, {})
      BY <2>2, <3>1, <3>2, EditsEdit
    <3>3. CASE EditFrames(n, AddedNodes, FrameChoices)
      BY <2>2, <3>1, <3>3, EditsEdit
    <3>q. QED  BY <2>1, <3>2, <3>3
  <2>4. ListsInv'
    BY <2>2, <2>3, EditedTyped
  <2>5. UNCHANGED tree
    BY <1>10 DEF EditGraph
  <2>6. RestTyped' /\ UNCHANGED <<walk, server>>
    BY <1>1, <2>5 DEF tree, walk, seen, RestTyped
  <2>q. QED  BY <1>3, <2>4, <2>6
<1>q. QED  BY <1>4, <1>5, <1>6, <1>7, <1>8, <1>9, <1>10 DEF TreeNext, WatcherStep

\* The tree starts with its invariant.
LEMMA TreeInitially == TreeInit => TreeInv
<1> SUFFICES ASSUME TreeInit  PROVE TreeInv
  OBVIOUS
<1>1. TreeTypes
  BY TreeTypesInitially
<1>2. \A h \in Walkers : \A i \in DOMAIN work[h] : ~ Pending(h, i)
  <2> TAKE h \in Walkers
  <2>1. CASE h = "main"
    <3>1. work[h] = Visits(Roots, "root")
      BY <2>1 DEF TreeInit
    <3>2. /\ Visits(Roots, "root") \in Seq(Items) /\ Len(Visits(Roots, "root")) = Len(Roots)
          /\ \A i \in 1..Len(Roots) : Visits(Roots, "root")[i].op = "visit"
      BY TreeAssumption, VisitsTyped DEF Origins
    <3>3. PICK vs : vs = Visits(Roots, "root") /\ DOMAIN vs = 1..Len(Roots)
      BY <3>2, LenProperties
    <3>q. QED  BY <3>1, <3>2, <3>3 DEF Pending
  <2>2. CASE h # "main"
    BY <2>2 DEF TreeInit, Pending
  <2>q. QED  BY <2>1, <2>2
<1>3. PendingOnce /\ PendingIdle
  BY <1>2 DEF PendingOnce, PendingIdle
<1>4. \A n \in Nodes : via[n] = "root" /\ under[n] = "root" /\ server[n] = "no"
  BY DEF TreeInit
<1>q. QED  BY <1>1, <1>3, <1>4, TreeAssumption DEF TreeInv, Served, UnderVia, EndsAfterItsSource

----------------------------------------------------------------------------
(* Sequences of objects, in the order in which they were pulled.            *)

Increasing(s) == \A i, j \in DOMAIN s : i <= j => s[i] <= s[j]

\* What an appended sequence contains.
LEMMA ContainsAppended ==
  ASSUME NEW S, NEW s \in Seq(S), NEW x \in S, NEW v
  PROVE  Contains(Append(s, x), v) <=> Contains(s, v) \/ v = x
<1>1. PICK r : r = Append(s, x) /\ r \in Seq(S) /\ Len(r) = Len(s) + 1
                /\ (\A i \in 1..Len(s) : r[i] = s[i]) /\ r[Len(s) + 1] = x
  <2>1. /\ Append(s, x) \in Seq(S) /\ Len(Append(s, x)) = Len(s) + 1
        /\ (\A i \in 1..Len(s) : Append(s, x)[i] = s[i]) /\ Append(s, x)[Len(s) + 1] = x
    BY AppendProperties
  <2>q. QED  BY <2>1
<1>2. PICK n \in Nat : n = Len(s)
  BY LenProperties
<1>3. \A i \in 1..n + 1 : i \in 1..n \/ i = n + 1
  BY <1>2
<1>4. (\A i \in 1..n : i \in 1..n + 1) /\ n + 1 \in 1..n + 1
  BY <1>2
<1>q. QED  BY <1>1, <1>2, <1>3, <1>4 DEF Contains

\* A sequence contains its head and what its tail contains.
LEMMA ContainsSplit ==
  ASSUME NEW S, NEW s \in Seq(S), s # <<>>
  PROVE  /\ Head(s) \in S /\ Tail(s) \in Seq(S) /\ Contains(s, Head(s))
         /\ \A v : Contains(s, v) <=> v = Head(s) \/ Contains(Tail(s), v)
<1>1. PICK t : t = Tail(s) /\ t \in Seq(S) /\ Len(t) = Len(s) - 1 /\ \A i \in 1..Len(t) : t[i] = s[i + 1]
  BY HeadTailProperties
<1>2. Head(s) = s[1] /\ Head(s) \in S
  BY HeadTailProperties
<1>3. PICK n \in Nat : n = Len(s) /\ n # 0
  BY LenProperties, EmptySeq
<1>4. \A i \in 1..n : i = 1 \/ (i - 1 \in 1..n - 1 /\ i - 1 + 1 = i)
  BY <1>3
<1>5. (\A i \in 1..n - 1 : i + 1 \in 1..n) /\ 1 \in 1..n
  BY <1>3
<1>6. Len(t) = n - 1
  BY <1>1, <1>3
<1>7. \A v : Contains(s, v) => v = Head(s) \/ Contains(t, v)
  BY <1>1, <1>2, <1>3, <1>4, <1>6 DEF Contains
<1>8. \A v : v = Head(s) \/ Contains(t, v) => Contains(s, v)
  BY <1>1, <1>2, <1>3, <1>5, <1>6 DEF Contains
<1>q. QED  BY <1>1, <1>2, <1>7, <1>8

\* A greater number appended keeps a sequence increasing.
LEMMA IncreasingAppended ==
  ASSUME NEW s \in Seq(Int), NEW x \in Int, Increasing(s), \A v \in Int : Contains(s, v) => v <= x
  PROVE  Increasing(Append(s, x))
<1>1. PICK r : r = Append(s, x) /\ r \in Seq(Int) /\ Len(r) = Len(s) + 1
                /\ (\A i \in 1..Len(s) : r[i] = s[i]) /\ r[Len(s) + 1] = x
  <2>1. /\ Append(s, x) \in Seq(Int) /\ Len(Append(s, x)) = Len(s) + 1
        /\ (\A i \in 1..Len(s) : Append(s, x)[i] = s[i]) /\ Append(s, x)[Len(s) + 1] = x
    BY AppendProperties
  <2>q. QED  BY <2>1
<1>2. PICK n \in Nat : n = Len(s)
  BY LenProperties
<1>3. DOMAIN s = 1..n /\ DOMAIN r = 1..n + 1 /\ \A i \in 1..n : s[i] \in Int /\ s[i] <= x
  <2>1. \A i \in 1..n : s[i] \in Int
    BY <1>2, LenProperties
  <2>q. QED  BY <1>1, <1>2, <2>1, LenProperties DEF Contains
<1>4. ASSUME NEW i \in 1..n + 1, NEW j \in 1..n + 1, i <= j  PROVE r[i] <= r[j]
  <2>1. CASE j \in 1..n
    <3>1. i \in 1..n
      BY <1>4, <2>1
    <3>q. QED  BY <1>1, <1>2, <1>3, <1>4, <2>1, <3>1 DEF Increasing
  <2>2. CASE j = n + 1 /\ i \in 1..n
    BY <1>1, <1>2, <1>3, <2>2
  <2>3. CASE j = n + 1 /\ i = n + 1
    BY <1>1, <1>2, <2>3
  <2>4. (j \in 1..n \/ j = n + 1) /\ (i \in 1..n \/ i = n + 1)
    BY <1>4
  <2>q. QED  BY <2>1, <2>2, <2>3, <2>4
<1>q. QED  BY <1>1, <1>3, <1>4 DEF Increasing

\* So does leaving out the first.
LEMMA IncreasingTail ==
  ASSUME NEW s \in Seq(Int), s # <<>>, Increasing(s)
  PROVE  Increasing(Tail(s)) /\ \A v : Contains(s, v) => Head(s) <= v
<1>1. PICK t : t = Tail(s) /\ t \in Seq(Int) /\ Len(t) = Len(s) - 1 /\ \A i \in 1..Len(t) : t[i] = s[i + 1]
  BY HeadTailProperties
<1>2. Head(s) = s[1]
  BY HeadTailProperties
<1>3. PICK n \in Nat : n = Len(s) /\ n # 0
  BY LenProperties, EmptySeq
<1>4. DOMAIN t = 1..n - 1 /\ DOMAIN s = 1..n
  BY <1>1, <1>3, LenProperties
<1>5. ASSUME NEW i \in 1..n - 1, NEW j \in 1..n - 1, i <= j  PROVE t[i] <= t[j]
  <2>1. i + 1 \in 1..n /\ j + 1 \in 1..n /\ i + 1 <= j + 1
    BY <1>3, <1>5
  <2>2. s[i + 1] <= s[j + 1]
    BY <1>4, <2>1 DEF Increasing
  <2>q. QED  BY <1>1, <1>3, <2>2
<1>6. \A i \in 1..n : 1 \in 1..n /\ 1 <= i
  BY <1>3
<1>7. \A i \in 1..n : s[1] <= s[i]
  BY <1>4, <1>6 DEF Increasing
<1>q. QED  BY <1>1, <1>2, <1>3, <1>4, <1>5, <1>7 DEF Increasing, Contains

\* The last element is replaced.
LEMMA LastReplaced ==
  ASSUME NEW S, NEW s \in Seq(S), s # <<>>, NEW x \in S
  PROVE  /\ Append(Front(s), x) \in Seq(S) /\ Len(Append(Front(s), x)) = Len(s)
         /\ \A j \in 1..Len(s) : Append(Front(s), x)[j] = IF j = Len(s) THEN x ELSE s[j]
<1>1. PICK n \in Nat : n = Len(s) /\ n # 0
  BY LenProperties, EmptySeq
<1>2. \A i \in 1..n - 1 : s[i] \in S
  BY <1>1, LenProperties
<1>3. PICK f : f = SubSeq(s, 1, n - 1)
  OBVIOUS
<1>4. f \in Seq(S) /\ Len(f) = n - 1 /\ \A i \in 1..n - 1 : f[i] = s[i]
  BY <1>1, <1>2, <1>3, SubSeqProperties
<1>5. f = Front(s)
  BY <1>1, <1>3 DEF Front
<1>6. PICK r : r = Append(f, x)
  OBVIOUS
<1>7. r \in Seq(S) /\ Len(r) = Len(f) + 1 /\ (\A i \in 1..Len(f) : r[i] = f[i]) /\ r[Len(f) + 1] = x
  BY <1>4, <1>6, AppendProperties
<1>8. Len(r) = n
  BY <1>4, <1>7, <1>1
<1>9. ASSUME NEW j \in 1..n  PROVE r[j] = IF j = n THEN x ELSE s[j]
  <2>1. CASE j = n
    <3>1. Len(f) + 1 = n
      BY <1>1, <1>4
    <3>q. QED  BY <2>1, <3>1, <1>7
  <2>2. CASE j # n
    <3>1. j \in 1..n - 1
      BY <2>2, <1>1
    <3>q. QED  BY <2>2, <3>1, <1>4, <1>7
  <2>q. QED  BY <2>1, <2>2
<1>q. QED  BY <1>1, <1>5, <1>6, <1>7, <1>8, <1>9

----------------------------------------------------------------------------
(* Pushing: types.                                                          *)

Fates == {"addressed", "received", "missed"}
PushShape ==
  /\ {pushCtxDone, locked} \subseteq BOOLEAN /\ editor \in {"idle", "lock"}
  /\ pushing \in {"pull", "lock", "spawned", "wait", "return"}
  /\ inbox \in [Nodes -> Seq(Objects)] /\ got \in [Nodes -> Seq(Objects)]
  /\ doubled \subseteq Nodes
\* An object is sent when the push of it is over.
SentBehind ==
  /\ object \in 0..MaxObjects /\ sent \in Nat
  /\ pushing \in {"lock", "spawned", "wait"} => object = sent + 1
  /\ pushing \notin {"lock", "spawned", "wait"} => object = sent
CacheShape ==
  /\ cache \in Seq(Video) /\ Increasing(cache) /\ \A v \in Int : Contains(cache, v) => v <= object
  /\ Pusher \notin CachingNodes => cache = <<>>
EntryShape ==
  /\ entry \in Seq(Nodes) /\ (entry # <<>> => pushing \in {"spawned", "wait"})
  /\ task \in [DOMAIN entry -> {"build", "push", "done"}]
  /\ rest \in [DOMAIN entry -> Seq(Objects)] /\ outcome \in [DOMAIN entry -> Seq(Fates)]
  /\ \A i \in DOMAIN entry : Increasing(rest[i])
\* Only what is being given is addressed and no more.
OneAddressed ==
  \A i \in DOMAIN entry : \A j \in DOMAIN outcome[i] :
    outcome[i][j] = "addressed" => j = Len(outcome[i]) /\ rest[i] # <<>> /\ task[i] = "push"
CountersTyped == {addressed, received, missed} \subseteq [Nodes -> Nat]

PushTypes == PushShape /\ SentBehind /\ CacheShape /\ EntryShape /\ OneAddressed /\ CountersTyped

\* The inductive types imply those that the run checks.
LEMMA PushTypesImply == PushTypes => PushTypeOK
<1> SUFFICES ASSUME PushTypes  PROVE PushTypeOK
  OBVIOUS
<1>1. sent \in 0..MaxObjects
  BY PushAssumption DEF PushTypes, SentBehind
<1>2. DOMAIN rest = DOMAIN entry /\ DOMAIN outcome = DOMAIN entry
  BY DEF PushTypes, EntryShape
<1>q. QED  BY <1>1, <1>2 DEF PushTypes, PushShape, SentBehind, CacheShape, EntryShape, CountersTyped, PushTypeOK

\* A push starts with them.
LEMMA PushTypesInitially == PushInit => PushTypes
<1> SUFFICES ASSUME PushInit  PROVE PushTypes
  OBVIOUS
<1>1. <<>> \in Seq(Video) /\ <<>> \in Seq(Nodes) /\ <<>> \in Seq(Objects) /\ DOMAIN <<>> = {}
  BY EmptySeq
<1>2. PushShape
  BY <1>1 DEF PushInit, PushShape, Twice
<1>3. SentBehind
  BY PushAssumption DEF PushInit, SentBehind
<1>4. CacheShape
  BY <1>1, EmptySeq DEF PushInit, CacheShape, Increasing, Contains
<1>5. EntryShape /\ OneAddressed
  BY <1>1 DEF PushInit, EntryShape, OneAddressed
<1>6. CountersTyped
  BY DEF PushInit, CountersTyped
<1>q. QED  BY <1>2, <1>3, <1>4, <1>5, <1>6 DEF PushTypes

----------------------------------------------------------------------------
(* Pushing: what the goroutines of the entries owe to the counters.         *)

Owed(d, how) ==
  {p \in Nat \X Nat : /\ p[1] \in DOMAIN entry /\ entry[p[1]] = d /\ task[p[1]] # "done"
                      /\ p[2] \in DOMAIN outcome[p[1]] /\ outcome[p[1]][p[2]] = how}
Debt(d, how) == Cardinality(Owed(d, how))
Finite(d) == \A how \in Fates : IsFiniteSet(Owed(d, how))
Account(d) ==
  /\ Finite(d)
  /\ addressed[d] = received[d] + missed[d]
                    + Debt(d, "addressed") + Debt(d, "received") + Debt(d, "missed")
  /\ Len(got[d]) = received[d] + Debt(d, "received")
Accounted == \A d \in Nodes : Account(d)

\* Who is owed what is settled by the entry, its task and its outcome.
LEMMA OwedIs ==
  ASSUME NEW d, NEW how, NEW i, NEW j
  PROVE  <<i, j>> \in Owed(d, how) <=>
           /\ i \in Nat /\ j \in Nat /\ i \in DOMAIN entry /\ entry[i] = d /\ task[i] # "done"
           /\ j \in DOMAIN outcome[i] /\ outcome[i][j] = how
BY DEF Owed

\* A debt is a number.
LEMMA DebtTyped ==
  ASSUME NEW d, Finite(d)
  PROVE  \A how \in Fates : Debt(d, how) \in Nat
BY FS_CardinalityType DEF Finite, Debt

\* Nobody owes anything when there are no goroutines, or none that is not done.
LEMMA NothingOwed ==
  ASSUME entry = <<>> \/ \A i \in DOMAIN entry : task[i] = "done"
  PROVE  \A d, how : Owed(d, how) = {} /\ Debt(d, how) = 0 /\ IsFiniteSet(Owed(d, how))
<1> TAKE d, how
<1>1. Owed(d, how) = {}
  BY DEF Owed
<1>q. QED  BY <1>1, FS_EmptySet DEF Debt

\* Two sets of pairs are equal if they have the same pairs.
LEMMA SamePairs ==
  ASSUME NEW A \in SUBSET (Nat \X Nat), NEW B \in SUBSET (Nat \X Nat),
         \A k, j \in Nat : <<k, j>> \in A <=> <<k, j>> \in B
  PROVE  A = B
<1>1. \A p \in Nat \X Nat : \E k, j \in Nat : p = <<k, j>>
  OBVIOUS
<1>2. ASSUME NEW p \in Nat \X Nat  PROVE p \in A <=> p \in B
  <2>1. PICK k \in Nat, j \in Nat : p = <<k, j>>
    BY <1>1, Zenon
  <2>q. QED  BY <2>1
<1>q. QED  BY <1>2

\* Entries are counted from one.
LEMMA EntriesCounted ==
  ASSUME EntryShape
  PROVE  DOMAIN entry \subseteq Nat /\ DOMAIN entry = 1..Len(entry)
<1>1. PICK e : e = entry /\ e \in Seq(Nodes)
  BY DEF EntryShape
<1>2. DOMAIN e = 1..Len(e) /\ Len(e) \in Nat
  BY <1>1, LenProperties
<1>q. QED  BY <1>1, <1>2

\* What changes when an outcome is appended ...
LEMMA OwedAppended ==
  ASSUME EntryShape, NEW i \in DOMAIN entry, task[i] # "done", NEW how \in Fates,
         UNCHANGED <<entry, task>>, outcome' = [outcome EXCEPT ![i] = Append(@, how)],
         NEW d, NEW h
  PROVE  \/ /\ d = entry[i] /\ h = how
            /\ \E p : p \notin Owed(d, h) /\ Owed(d, h)' = Owed(d, h) \cup {p}
         \/ ~ (d = entry[i] /\ h = how) /\ Owed(d, h)' = Owed(d, h)
<1>1. PICK s, r : s = outcome[i] /\ r = Append(s, how)
  OBVIOUS
<1>2. s \in Seq(Fates) /\ DOMAIN entry \subseteq Nat
  <2>1. DOMAIN entry \subseteq Nat
    BY EntriesCounted
  <2>q. QED  BY <1>1, <2>1 DEF EntryShape
<1>3. r \in Seq(Fates) /\ Len(r) = Len(s) + 1 /\ (\A j \in 1..Len(s) : r[j] = s[j]) /\ r[Len(s) + 1] = how
  BY <1>1, <1>2, AppendProperties
<1>4. PICK n \in Nat : n = Len(s) /\ DOMAIN s = 1..n
  BY <1>2, LenProperties
<1>5. DOMAIN r = 1..n + 1 /\ r[n + 1] = how /\ \A j \in 1..n : r[j] = s[j]
  BY <1>3, <1>4, LenProperties
<1>6. outcome'[i] = r /\ \A k \in DOMAIN entry \ {i} : outcome'[k] = outcome[k]
  BY <1>1 DEF EntryShape
<1>7. n + 1 \in 1..n + 1 /\ n + 1 \notin 1..n /\ n + 1 \in Nat
      /\ \A j \in Nat : j \in 1..n + 1 <=> j \in 1..n \/ j = n + 1
  BY <1>4
<1>8. ASSUME NEW k \in Nat, NEW j \in Nat
      PROVE  <<k, j>> \in Owed(d, h)' <=>
               <<k, j>> \in Owed(d, h) \/ (k = i /\ j = n + 1 /\ d = entry[i] /\ h = how)
  BY <1>1, <1>4, <1>5, <1>6, <1>7 DEF Owed
<1>9. Owed(d, h) \subseteq Nat \X Nat /\ Owed(d, h)' \subseteq Nat \X Nat
  BY DEF Owed
<1>10. <<i, n + 1>> \notin Owed(d, h) /\ <<i, n + 1>> \in Nat \X Nat
  BY <1>1, <1>2, <1>4, <1>7 DEF Owed
<1>11. CASE d = entry[i] /\ h = how
  <2>1. Owed(d, h)' = Owed(d, h) \cup {<<i, n + 1>>}
    BY <1>8, <1>9, <1>10, <1>11
  <2>q. QED  BY <1>10, <1>11, <2>1
<1>12. CASE ~(d = entry[i] /\ h = how)
  <2>1. \A k, j \in Nat : <<k, j>> \in Owed(d, h)' <=> <<k, j>> \in Owed(d, h)
    BY <1>8, <1>12
  <2>2. Owed(d, h)' = Owed(d, h)
    BY <1>9, <2>1, SamePairs
  <2>q. QED  BY <1>12, <2>2
<1>q. QED  BY <1>11, <1>12

\* ... when what was addressed is decided ...
LEMMA OwedDecided ==
  ASSUME EntryShape, NEW i \in DOMAIN entry, task[i] # "done", IsAddressed(i), NEW how \in {"received", "missed"},
         UNCHANGED <<entry, task>>, Decided(i, how)
  PROVE  \E p : /\ p \in Owed(entry[i], "addressed") /\ p \notin Owed(entry[i], how)
                /\ Owed(entry[i], "addressed")' = Owed(entry[i], "addressed") \ {p}
                /\ Owed(entry[i], how)' = Owed(entry[i], how) \cup {p}
                /\ \A d, h : ~ (d = entry[i] /\ h \in {"addressed", how}) => Owed(d, h)' = Owed(d, h)
<1>1. PICK s, r : s = outcome[i] /\ r = Append(Front(s), how)
  OBVIOUS
<1>2. s \in Seq(Fates) /\ s # <<>> /\ Last(s) = "addressed" /\ how \in Fates /\ DOMAIN entry \subseteq Nat
  <2>1. DOMAIN entry \subseteq Nat
    BY EntriesCounted
  <2>q. QED  BY <1>1, <2>1 DEF EntryShape, IsAddressed, Fates
<1>3. r \in Seq(Fates) /\ Len(r) = Len(s) /\ \A j \in 1..Len(s) : r[j] = IF j = Len(s) THEN how ELSE s[j]
  BY <1>1, <1>2, LastReplaced
<1>4. PICK n \in Nat : n = Len(s) /\ n # 0 /\ DOMAIN s = 1..n
  BY <1>2, LenProperties, EmptySeq
<1>5. DOMAIN r = 1..n /\ r[n] = how /\ s[n] = "addressed" /\ n \in 1..n /\ \A j \in 1..n : j # n => r[j] = s[j]
  <2>1. DOMAIN r = 1..n /\ s[n] = "addressed" /\ n \in 1..n
    BY <1>2, <1>3, <1>4, LenProperties DEF Last
  <2>q. QED  BY <1>3, <1>4, <2>1
<1>6. outcome'[i] = r /\ \A k \in DOMAIN entry \ {i} : outcome'[k] = outcome[k]
  BY <1>1 DEF EntryShape, Decided
<1>7. PICK p : p = <<i, n>>
  OBVIOUS
<1>8. p \in Nat \X Nat
  BY <1>2, <1>4, <1>7
<1>9. ASSUME NEW d, NEW h, NEW k \in Nat, NEW j \in Nat, <<k, j>> # p
      PROVE  <<k, j>> \in Owed(d, h)' <=> <<k, j>> \in Owed(d, h)
  <2>1. k # i \/ j # n
    BY <1>7, <1>9
  <2>2. CASE k # i
    BY <1>6, <2>2 DEF Owed
  <2>3. CASE k = i /\ j # n
    BY <1>1, <1>4, <1>5, <1>6, <2>3 DEF Owed
  <2>q. QED  BY <2>1, <2>2, <2>3
<1>10. ASSUME NEW d, NEW h
       PROVE  /\ p \in Owed(d, h) <=> d = entry[i] /\ h = "addressed"
              /\ p \in Owed(d, h)' <=> d = entry[i] /\ h = how
  BY <1>1, <1>2, <1>4, <1>5, <1>6, <1>7 DEF Owed
<1>11. \A d, h : Owed(d, h) \in SUBSET (Nat \X Nat) /\ Owed(d, h)' \in SUBSET (Nat \X Nat)
  BY DEF Owed
<1>12. how # "addressed"
  OBVIOUS
<1>13. ASSUME NEW d, NEW h, ~ (d = entry[i] /\ h \in {"addressed", how})
       PROVE  Owed(d, h)' = Owed(d, h)
  <2>1. p \notin Owed(d, h) /\ p \notin Owed(d, h)'
    BY <1>10, <1>13
  <2>2. \A k, j \in Nat : <<k, j>> \in Owed(d, h)' <=> <<k, j>> \in Owed(d, h)
    BY <1>9, <2>1
  <2>q. QED  BY <1>11, <2>2, SamePairs
<1>14. Owed(entry[i], "addressed")' = Owed(entry[i], "addressed") \ {p}
  <2>1. \A k, j \in Nat : <<k, j>> \in Owed(entry[i], "addressed")' <=> <<k, j>> \in Owed(entry[i], "addressed") \ {p}
    BY <1>9, <1>10, <1>12
  <2>2. Owed(entry[i], "addressed") \ {p} \in SUBSET (Nat \X Nat)
    BY <1>11
  <2>q. QED  BY <1>11, <2>1, <2>2, SamePairs
<1>15. Owed(entry[i], how)' = Owed(entry[i], how) \cup {p}
  <2>1. \A k, j \in Nat : <<k, j>> \in Owed(entry[i], how)' <=> <<k, j>> \in Owed(entry[i], how) \cup {p}
    BY <1>9, <1>10
  <2>2. Owed(entry[i], how) \cup {p} \in SUBSET (Nat \X Nat)
    BY <1>8, <1>11
  <2>q. QED  BY <1>11, <2>1, <2>2, SamePairs
<1>q. QED  BY <1>10, <1>12, <1>13, <1>14, <1>15

\* ... and when a goroutine is done.
LEMMA OwedCounted ==
  ASSUME EntryShape, NEW i \in DOMAIN entry, task[i] # "done",
         UNCHANGED <<entry, outcome>>, task' = [task EXCEPT ![i] = "done"],
         NEW h, IsFiniteSet(Owed(entry[i], h))
  PROVE  /\ IsFiniteSet(Owed(entry[i], h)') /\ Times(i, h) \in Nat
         /\ Debt(entry[i], h)' \in Nat /\ Debt(entry[i], h) = Debt(entry[i], h)' + Times(i, h)
         /\ \A d : d # entry[i] => Owed(d, h)' = Owed(d, h)
<1>1. PICK s : s = outcome[i] /\ s \in Seq(Fates)
  BY DEF EntryShape
<1>2. PICK n \in Nat : n = Len(s) /\ DOMAIN s = 1..n
  BY <1>1, LenProperties
<1> DEFINE J == {j \in DOMAIN s : s[j] = h}
           S == {<<i, j>> : j \in J}
           f == [j \in J |-> <<i, j>>]
<1>3. i \in Nat /\ J \subseteq Nat
  <2>1. DOMAIN entry \subseteq Nat
    BY EntriesCounted
  <2>q. QED  BY <1>2, <2>1
<1>4. IsFiniteSet(J) /\ Times(i, h) = Cardinality(J)
  <2>1. IsFiniteSet(1..n) /\ J \in SUBSET (1..n)
    BY <1>2, FS_Interval
  <2>2. IsFiniteSet(J)
    <3> HIDE DEF J
    <3>q. QED  BY <2>1, FS_Subset
  <2>q. QED  BY <1>1, <2>2 DEF Times
<1>5. IsFiniteSet(S) /\ Cardinality(S) = Cardinality(J)
  <2>1. f \in Bijection(J, S)
    <3> HIDE DEF J
    <3>1. f \in [J -> S] /\ (\A x, y \in J : f[x] = f[y] => x = y) /\ \A t \in S : \E x \in J : f[x] = t
      OBVIOUS
    <3>q. QED  BY <3>1 DEF Bijection, Injection, Surjection, IsInjective
  <2>2. ExistsBijection(J, S)
    BY <2>1 DEF ExistsBijection
  <2>q. QED
    <3> HIDE DEF J, S
    <3>q. QED  BY <1>4, <2>2, FS_Bijection
<1>6. task'[i] = "done" /\ \A k \in DOMAIN entry \ {i} : task'[k] = task[k]
  BY DEF EntryShape
<1>7. S = {p \in Owed(entry[i], h) : p[1] = i}
  <2>1. \A j \in Nat : <<i, j>> \in Owed(entry[i], h) <=> j \in J
    BY <1>1, <1>3 DEF Owed
  <2>2. ASSUME NEW p \in Owed(entry[i], h), p[1] = i  PROVE p \in S
    <3>1. PICK k \in Nat, j \in Nat : p = <<k, j>>
      BY <2>2 DEF Owed
    <3>2. p = <<i, j>>
      BY <2>2, <3>1
    <3>3. j \in J
      BY <2>1, <2>2, <3>2
    <3>q. QED  BY <3>2, <3>3
  <2>3. ASSUME NEW p \in S  PROVE p \in Owed(entry[i], h) /\ p[1] = i
    BY <1>3, <2>1
  <2>q. QED  BY <2>2, <2>3
<1>8. Owed(entry[i], h)' = Owed(entry[i], h) \ S
  <2>1. \A p \in Nat \X Nat : p \in Owed(entry[i], h)' <=> p \in Owed(entry[i], h) /\ p[1] # i
    BY <1>6 DEF Owed
  <2>2. Owed(entry[i], h)' \in SUBSET (Nat \X Nat) /\ Owed(entry[i], h) \in SUBSET (Nat \X Nat)
    BY DEF Owed
  <2> HIDE DEF S
  <2>q. QED  BY <1>7, <2>1, <2>2
<1>9. IsFiniteSet(Owed(entry[i], h)')
  BY <1>8, FS_Subset
<1>10. Cardinality(Owed(entry[i], h)) = Cardinality(Owed(entry[i], h)') + Cardinality(S)
  <2>1. Owed(entry[i], h) = Owed(entry[i], h)' \cup S /\ Owed(entry[i], h)' \cap S = {}
    <3> HIDE DEF S
    <3>q. QED  BY <1>7, <1>8
  <2>2. PICK A, B : A = Owed(entry[i], h)' /\ B = S
    OBVIOUS
  <2>3. IsFiniteSet(A) /\ IsFiniteSet(B) /\ A \cap B = {} /\ Owed(entry[i], h) = A \cup B
    <3> HIDE DEF S
    <3>q. QED  BY <1>5, <1>9, <2>1, <2>2
  <2>4. Cardinality(A \cup B) = Cardinality(A) + Cardinality(B) - Cardinality(A \cap B)
    BY <2>3, FS_Union
  <2>5. Cardinality(A) \in Nat /\ Cardinality(B) \in Nat /\ Cardinality(A \cap B) = 0
    BY <2>3, FS_CardinalityType, FS_EmptySet
  <2>6. Cardinality(A \cup B) = Cardinality(A) + Cardinality(B)
    BY <2>4, <2>5
  <2>q. QED
    <3> HIDE DEF S
    <3>q. QED  BY <2>2, <2>3, <2>6
<1>11. \A d : d # entry[i] => Owed(d, h)' = Owed(d, h)
  <2>1. ASSUME NEW d, d # entry[i]  PROVE Owed(d, h)' = Owed(d, h)
    <3>1. \A p \in Nat \X Nat : p \in Owed(d, h)' <=> p \in Owed(d, h)
      BY <1>6, <2>1 DEF Owed
    <3>2. Owed(d, h)' \in SUBSET (Nat \X Nat) /\ Owed(d, h) \in SUBSET (Nat \X Nat)
      BY DEF Owed
    <3>q. QED  BY <3>1, <3>2
  <2>q. QED  BY <2>1
<1>12. Cardinality(J) \in Nat /\ Cardinality(Owed(entry[i], h)') \in Nat
  <2> HIDE DEF J
  <2>q. QED  BY <1>4, <1>9, FS_CardinalityType
<1>q. QED
  <2> HIDE DEF J, S
  <2>q. QED  BY <1>4, <1>5, <1>9, <1>10, <1>11, <1>12 DEF Debt

----------------------------------------------------------------------------
(* Pushing: every step keeps the types.                                     *)

\* Objects are numbers, in the cache as elsewhere.
LEMMA ObjectsCounted ==
  ASSUME NEW s, s \in Seq(Objects) \/ s \in Seq(Video)
  PROVE  s \in Seq(Objects) /\ s \in Seq(Int)
<1>1. \A v \in Video \cup Objects : v \in Objects /\ v \in Int
  BY PushAssumption DEF Objects
<1>2. PICK n \in Nat : n = Len(s) /\ DOMAIN s = 1..n /\ s = [k \in 1..n |-> s[k]] /\ \A k \in 1..n : s[k] \in Video \cup Objects
  <2>1. CASE s \in Seq(Objects)
    <3>1. Len(s) \in Nat /\ DOMAIN s = 1..Len(s) /\ \A k \in 1..Len(s) : s[k] \in Objects
      BY <2>1, LenProperties
    <3>2. s = [k \in 1..Len(s) |-> s[k]]
      BY <2>1, <3>1, SeqDef
    <3>q. QED  BY <3>1, <3>2
  <2>2. CASE s \in Seq(Video)
    <3>1. Len(s) \in Nat /\ DOMAIN s = 1..Len(s) /\ \A k \in 1..Len(s) : s[k] \in Video
      BY <2>2, LenProperties
    <3>2. s = [k \in 1..Len(s) |-> s[k]]
      BY <2>2, <3>1, SeqDef
    <3>q. QED  BY <3>1, <3>2
  <2>q. QED  BY <2>1, <2>2
<1>3. s \in [1..n -> Objects] /\ s \in [1..n -> Int]
  BY <1>1, <1>2
<1>q. QED  BY <1>3, IsSeq

\* What a step of the goroutine of an entry may change of the entries.
EntryStep(i) ==
  /\ UNCHANGED <<entry, pushing>>
  /\ task' = task \/ \E x : task' = [task EXCEPT ![i] = x]
  /\ rest' = rest \/ \E x : rest' = [rest EXCEPT ![i] = x]
  /\ outcome' = outcome \/ \E x : outcome' = [outcome EXCEPT ![i] = x]

\* A task changes its own entry only, and keeps its shape if what it stores has it.
LEMMA EntryMoves ==
  ASSUME EntryShape, OneAddressed, NEW i \in DOMAIN entry, EntryStep(i),
         task'[i] \in {"build", "push", "done"}, rest'[i] \in Seq(Objects), Increasing(rest'[i]),
         outcome'[i] \in Seq(Fates),
         \A j \in DOMAIN outcome'[i] :
           outcome'[i][j] = "addressed" => j = Len(outcome'[i]) /\ rest'[i] # <<>> /\ task'[i] = "push"
  PROVE  /\ EntryShape' /\ OneAddressed'
         /\ \A k \in DOMAIN entry \ {i} : task'[k] = task[k] /\ rest'[k] = rest[k] /\ outcome'[k] = outcome[k]
<1>1. \A k \in DOMAIN entry \ {i} : task'[k] = task[k] /\ rest'[k] = rest[k] /\ outcome'[k] = outcome[k]
  BY DEF EntryShape, EntryStep
<1>2. task' \in [DOMAIN entry -> {"build", "push", "done"}]
  BY <1>1 DEF EntryShape, EntryStep
<1>3. rest' \in [DOMAIN entry -> Seq(Objects)]
  BY <1>1 DEF EntryShape, EntryStep
<1>4. outcome' \in [DOMAIN entry -> Seq(Fates)]
  BY <1>1 DEF EntryShape, EntryStep
<1>5. \A k \in DOMAIN entry : Increasing(rest'[k])
  BY <1>1 DEF EntryShape
<1>6. EntryShape'
  BY <1>2, <1>3, <1>4, <1>5 DEF EntryShape, EntryStep, Increasing
<1>7. OneAddressed'
  BY <1>1 DEF OneAddressed, EntryStep
<1>q. QED  BY <1>1, <1>6, <1>7

\* The goroutine of an entry: what it does to its own part and to the rest.
LEMMA TasksMove ==
  ASSUME ListsInv, PushTypes, NEW i \in DOMAIN entry, PushTask(i)
  PROVE  ListsInv' /\ PushTypes'
<1>1. EntryShape /\ OneAddressed
  BY DEF PushTypes
<1>2. /\ entry[i] \in Nodes /\ task[i] \in {"build", "push", "done"} /\ rest[i] \in Seq(Objects)
      /\ outcome[i] \in Seq(Fates) /\ Increasing(rest[i]) /\ pushing \in {"spawned", "wait"} /\ entry # <<>>
  <2>1. PICK e : e = entry /\ e \in Seq(Nodes)
    BY DEF PushTypes, EntryShape
  <2>2. e[i] \in Nodes /\ e # <<>>
    BY <2>1, LenProperties, EmptySeq
  <2>q. QED  BY <2>1, <2>2 DEF PushTypes, EntryShape
<1>3. object \in Objects /\ cache \in Seq(Video) /\ Increasing(cache)
  BY <1>2, PushAssumption DEF PushTypes, SentBehind, CacheShape, Objects
<1>4. ASSUME UNCHANGED <<pushCtxDone, locked, editor, pushing, object, cache, sent, doubled>>
      PROVE  /\ SentBehind' /\ CacheShape'
             /\ inbox' \in [Nodes -> Seq(Objects)] /\ got' \in [Nodes -> Seq(Objects)] => PushShape'
  <2>1. CacheShape'
    BY <1>4 DEF PushTypes, CacheShape, Increasing, Contains
  <2>q. QED  BY <1>4, <2>1 DEF PushTypes, SentBehind, PushShape
<1>5. inbox \in [Nodes -> Seq(Objects)] /\ got \in [Nodes -> Seq(Objects)]
  BY DEF PushTypes, PushShape
<1>6. ASSUME UNCHANGED lists  PROVE ListsInv'
  BY <1>6 DEF lists, ListsInv, ListsTypeOK, ChansBehind
<1>7. addressed \in [Nodes -> Nat] /\ received \in [Nodes -> Nat] /\ missed \in [Nodes -> Nat]
  BY DEF PushTypes, CountersTyped
<1>8. CASE BuildInput(i)
  <2>1. PICK r : r = IF entry[i] \in marked[Pusher] /\ cache # <<>> THEN cache ELSE <<object>>
    OBVIOUS
  <2>2. r \in Seq(Objects) /\ Increasing(r)
    <3>1. CASE r = cache
      BY <1>3, <3>1, ObjectsCounted
    <3>2. CASE r = <<object>>
      <4>1. <<object>> \in Seq(Objects) /\ Len(<<object>>) = 1 /\ DOMAIN <<object>> = {1}
        BY <1>3
      <4>2. object <= object
        BY <1>3 DEF Objects
      <4>q. QED  BY <3>2, <4>1, <4>2 DEF Increasing
    <3>q. QED  BY <2>1, <3>1, <3>2
  <2>3. /\ task[i] = "build" /\ task' = [task EXCEPT ![i] = "push"] /\ rest' = [rest EXCEPT ![i] = r]
        /\ marked' = [marked EXCEPT ![Pusher] = @ \ {entry[i]}]
        /\ UNCHANGED <<packetsTo, framesTo, packetsChan, framesChan, edits, pushCtxDone, locked, editor,
                       pushing, object, cache, entry, outcome, counters, inbox, got, doubled>>
    BY <1>8, <2>1 DEF BuildInput
  <2>4. task'[i] = "push" /\ rest'[i] = r /\ outcome' = outcome /\ EntryStep(i)
    BY <1>1, <2>3 DEF EntryShape, EntryStep
  <2>5. \A j \in DOMAIN outcome[i] : outcome[i][j] # "addressed"
    BY <1>1, <2>3 DEF OneAddressed
  <2>6. EntryShape' /\ OneAddressed'
    <3>1. /\ task'[i] \in {"build", "push", "done"} /\ rest'[i] \in Seq(Objects) /\ Increasing(rest'[i])
          /\ outcome'[i] \in Seq(Fates)
          /\ \A j \in DOMAIN outcome'[i] :
               outcome'[i][j] = "addressed" => j = Len(outcome'[i]) /\ rest'[i] # <<>> /\ task'[i] = "push"
      BY <1>2, <2>2, <2>4, <2>5
    <3>q. QED  BY <1>1, <2>4, <3>1, EntryMoves
  <2>7. ListsInv'
    <3>1. marked' \in [Nodes -> SUBSET Nodes]
      BY <2>3 DEF ListsInv, ListsTypeOK
    <3>q. QED  BY <2>3, <3>1 DEF ListsInv, ListsTypeOK, ChansBehind
  <2>8. UNCHANGED <<pushCtxDone, locked, editor, pushing, object, cache, sent, doubled, inbox, got, addressed, received, missed>>
    BY <2>3 DEF counters
  <2>9. CountersTyped'
    BY <1>7, <2>8 DEF CountersTyped
  <2>q. QED  BY <1>4, <1>5, <2>6, <2>7, <2>8, <2>9 DEF PushTypes
<1>9. ASSUME Pushable(i), UNCHANGED <<lists, pushCtxDone, locked, editor, pushing, object, cache, entry, task, sent, doubled>>,
             EntryStep(i), rest'[i] \in {rest[i], Tail(rest[i]), <<>>}, outcome'[i] \in Seq(Fates),
             \A j \in DOMAIN outcome'[i] : outcome'[i][j] = "addressed" => j = Len(outcome'[i]) /\ rest'[i] # <<>>,
             CountersTyped', inbox' \in [Nodes -> Seq(Objects)], got' \in [Nodes -> Seq(Objects)]
      PROVE  ListsInv' /\ PushTypes'
  <2>1. task'[i] = "push" /\ rest[i] # <<>>
    BY <1>9 DEF Pushable
  <2>2. <<>> \in Seq(Objects) /\ Increasing(<<>>)
    BY EmptySeq DEF Increasing
  <2>3. Tail(rest[i]) \in Seq(Objects) /\ Increasing(Tail(rest[i]))
    <3>1. rest[i] \in Seq(Int)
      BY <1>2, ObjectsCounted
    <3>q. QED  BY <1>2, <2>1, <3>1, IncreasingTail, HeadTailProperties
  <2>4. EntryShape' /\ OneAddressed'
    <3>1. /\ task'[i] \in {"build", "push", "done"} /\ rest'[i] \in Seq(Objects) /\ Increasing(rest'[i])
          /\ outcome'[i] \in Seq(Fates)
          /\ \A j \in DOMAIN outcome'[i] :
               outcome'[i][j] = "addressed" => j = Len(outcome'[i]) /\ rest'[i] # <<>> /\ task'[i] = "push"
      BY <1>2, <1>9, <2>1, <2>2, <2>3
    <3>q. QED  BY <1>1, <1>9, <3>1, EntryMoves
  <2>q. QED  BY <1>4, <1>6, <1>9, <2>4 DEF PushTypes
<1>10. ASSUME IsAddressed(i), NEW how \in {"received", "missed"}, Decided(i, how)
       PROVE  /\ outcome'[i] \in Seq(Fates) /\ \A j \in DOMAIN outcome'[i] : outcome'[i][j] # "addressed"
              /\ \E x : outcome' = [outcome EXCEPT ![i] = x]
  <2>1. PICK s, r : s = outcome[i] /\ r = Append(Front(s), how)
    OBVIOUS
  <2>2. s \in Seq(Fates) /\ s # <<>> /\ how \in Fates
    BY <1>2, <1>10, <2>1 DEF IsAddressed, Fates
  <2>3. r \in Seq(Fates) /\ Len(r) = Len(s) /\ \A j \in 1..Len(s) : r[j] = IF j = Len(s) THEN how ELSE s[j]
    BY <2>1, <2>2, LastReplaced
  <2>4. outcome' = [outcome EXCEPT ![i] = r] /\ outcome'[i] = r
    BY <1>1, <1>10, <2>1 DEF Decided, EntryShape
  <2>5. DOMAIN r = 1..Len(s) /\ DOMAIN s = 1..Len(s)
    BY <2>2, <2>3, LenProperties
  <2>6. ASSUME NEW j \in 1..Len(s)  PROVE r[j] # "addressed"
    <3>1. CASE j = Len(s)
      BY <2>3, <3>1
    <3>2. CASE j # Len(s)
      <4>1. s[j] # "addressed"
        BY <1>1, <2>1, <2>5, <3>2 DEF OneAddressed
      <4>q. QED  BY <2>3, <3>2, <4>1
    <3>q. QED  BY <3>1, <3>2
  <2>q. QED  BY <2>3, <2>4, <2>5, <2>6
<1>11. CASE SkipRefused(i)
  <2>1. /\ Pushable(i) /\ ~IsAddressed(i) /\ rest' = [rest EXCEPT ![i] = Tail(@)]
        /\ UNCHANGED <<outcome, addressed, received, missed, inbox, got>>
        /\ UNCHANGED <<lists, pushCtxDone, locked, editor, pushing, object, cache, entry, task, sent, doubled>>
    BY <1>11 DEF SkipRefused, PushUnchanged
  <2>2. EntryStep(i) /\ rest'[i] = Tail(rest[i])
    BY <1>1, <2>1 DEF EntryShape, EntryStep
  <2>3. \A j \in DOMAIN outcome[i] : outcome[i][j] # "addressed"
    <3>1. ASSUME NEW j \in DOMAIN outcome[i], outcome[i][j] = "addressed"  PROVE FALSE
      <4>1. outcome[i] # <<>> /\ Last(outcome[i]) = "addressed"
        BY <1>1, <3>1 DEF OneAddressed, Last
      <4>q. QED  BY <2>1, <4>1 DEF IsAddressed
    <3>q. QED  BY <3>1
  <2>4. CountersTyped'
    BY <1>7, <2>1 DEF CountersTyped
  <2>q. QED  BY <1>2, <1>5, <1>9, <2>1, <2>2, <2>3, <2>4
<1>12. CASE Address(i)
  <2>1. /\ Pushable(i) /\ ~IsAddressed(i) /\ UNCHANGED <<received, missed, inbox, got>>
        /\ UNCHANGED <<lists, pushCtxDone, locked, editor, pushing, object, cache, entry, task, sent, doubled>>
    BY <1>12 DEF Address, PushUnchanged
  <2>2. ASSUME NEW j \in DOMAIN outcome[i], outcome[i][j] = "addressed"  PROVE FALSE
    <3>1. outcome[i] # <<>> /\ Last(outcome[i]) = "addressed"
      BY <1>1, <2>2 DEF OneAddressed, Last
    <3>q. QED  BY <2>1, <3>1 DEF IsAddressed
  <2>3. CASE pushCtxDone
    <3>1. rest' = [rest EXCEPT ![i] = <<>>] /\ UNCHANGED <<outcome, addressed>>
      BY <1>12, <2>3 DEF Address
    <3>2. EntryStep(i) /\ rest'[i] = <<>>
      BY <1>1, <2>1, <3>1 DEF EntryShape, EntryStep
    <3>3. CountersTyped'
      BY <1>7, <2>1, <3>1 DEF CountersTyped
    <3>q. QED  BY <1>2, <1>5, <1>9, <2>1, <2>2, <3>1, <3>2, <3>3
  <2>4. CASE ~pushCtxDone
    <3>1. /\ addressed' = [addressed EXCEPT ![entry[i]] = @ + 1]
          /\ outcome' = [outcome EXCEPT ![i] = Append(@, "addressed")] /\ UNCHANGED rest
      BY <1>12, <2>4 DEF Address, Count
    <3>2. EntryStep(i) /\ rest'[i] = rest[i]
      BY <1>1, <2>1, <3>1 DEF EntryShape, EntryStep
    <3>3. CountersTyped'
      <4>1. addressed' \in [Nodes -> Nat]
        BY <1>2, <1>7, <3>1
      <4>q. QED  BY <1>7, <2>1, <4>1 DEF CountersTyped
    <3>4. PICK s, r : s = outcome[i] /\ r = Append(s, "addressed")
      OBVIOUS
    <3>5. r \in Seq(Fates) /\ Len(r) = Len(s) + 1 /\ \A j \in 1..Len(s) : r[j] = s[j]
      BY <1>2, <3>4, AppendProperties DEF Fates
    <3>6. DOMAIN r = 1..Len(s) + 1 /\ DOMAIN s = 1..Len(s) /\ Len(s) \in Nat
      BY <1>2, <3>4, <3>5, LenProperties
    <3>7. \A j \in DOMAIN r : r[j] = "addressed" => j = Len(r)
      <4>1. \A j \in 1..Len(s) + 1 : j \in 1..Len(s) \/ j = Len(s) + 1
        BY <3>6
      <4>q. QED  BY <2>2, <3>4, <3>5, <3>6, <4>1
    <3>8. outcome'[i] = r
      BY <1>1, <3>1, <3>4 DEF EntryShape
    <3>9. rest[i] # <<>>
      BY <2>1 DEF Pushable
    <3>q. QED  BY <1>2, <1>5, <1>9, <2>1, <3>2, <3>3, <3>5, <3>7, <3>8, <3>9
  <2>q. QED  BY <2>3, <2>4
<1>13. CASE Give(i)
  <2>1. /\ Pushable(i) /\ IsAddressed(i) /\ Decided(i, "received") /\ rest' = [rest EXCEPT ![i] = Tail(@)]
        /\ inbox' = [inbox EXCEPT ![entry[i]] = <<Head(rest[i])>>]
        /\ got' = [got EXCEPT ![entry[i]] = Append(@, Head(rest[i]))]
        /\ UNCHANGED <<addressed, received, missed>>
        /\ UNCHANGED <<lists, pushCtxDone, locked, editor, pushing, object, cache, entry, task, sent, doubled>>
    BY <1>13 DEF Give, PushUnchanged
  <2>2. Head(rest[i]) \in Objects
    BY <1>2, <2>1, HeadTailProperties DEF Pushable
  <2>3. inbox' \in [Nodes -> Seq(Objects)] /\ got' \in [Nodes -> Seq(Objects)]
    <3>1. PICK h \in Objects : h = Head(rest[i])
      BY <2>2
    <3>2. <<h>> \in Seq(Objects) /\ Append(got[entry[i]], h) \in Seq(Objects)
      BY <1>2, <1>5, AppendProperties
    <3>q. QED  BY <1>5, <2>1, <3>1, <3>2
  <2>4. EntryStep(i) /\ rest'[i] = Tail(rest[i])
    <3>1. \E x : outcome' = [outcome EXCEPT ![i] = x]
      BY <2>1, <1>10
    <3>q. QED  BY <1>1, <2>1, <3>1 DEF EntryShape, EntryStep
  <2>5. CountersTyped'
    BY <1>7, <2>1 DEF CountersTyped
  <2>6. outcome'[i] \in Seq(Fates) /\ \A j \in DOMAIN outcome'[i] : outcome'[i][j] # "addressed"
    BY <2>1, <1>10
  <2>q. QED  BY <1>9, <2>1, <2>3, <2>4, <2>5, <2>6
<1>14. CASE Discard(i) \/ GiveUp(i)
  <2>1. /\ Pushable(i) /\ IsAddressed(i) /\ Decided(i, "missed")
        /\ rest' = [rest EXCEPT ![i] = Tail(@)] \/ rest' = [rest EXCEPT ![i] = <<>>]
        /\ UNCHANGED <<addressed, received, missed, inbox, got>>
        /\ UNCHANGED <<lists, pushCtxDone, locked, editor, pushing, object, cache, entry, task, sent, doubled>>
    BY <1>14 DEF Discard, GiveUp, PushUnchanged
  <2>2. EntryStep(i) /\ rest'[i] \in {Tail(rest[i]), <<>>}
    <3>1. \E x : outcome' = [outcome EXCEPT ![i] = x]
      BY <2>1, <1>10
    <3>q. QED  BY <1>1, <2>1, <3>1 DEF EntryShape, EntryStep
  <2>3. CountersTyped'
    BY <1>7, <2>1 DEF CountersTyped
  <2>4. outcome'[i] \in Seq(Fates) /\ \A j \in DOMAIN outcome'[i] : outcome'[i][j] # "addressed"
    BY <2>1, <1>10
  <2>q. QED  BY <1>5, <1>9, <2>1, <2>2, <2>3, <2>4
<1>15. CASE Counted(i)
  <2>1. /\ task[i] = "push" /\ rest[i] = <<>> /\ task' = [task EXCEPT ![i] = "done"]
        /\ received' = [received EXCEPT ![entry[i]] = @ + Times(i, "received")]
        /\ missed' = [missed EXCEPT ![entry[i]] = @ + Times(i, "missed")]
        /\ UNCHANGED <<lists, pushCtxDone, locked, editor, pushing, object, cache, entry, rest, outcome,
                 addressed, sent, inbox, got, doubled>>
    BY <1>15 DEF Counted
  <2>2. EntryStep(i) /\ task'[i] = "done"
    BY <1>1, <2>1 DEF EntryShape, EntryStep
  <2>3. \A h : Times(i, h) \in Nat
    <3> TAKE h
    <3>1. PICK s : s = outcome[i] /\ s \in Seq(Fates)
      BY <1>2
    <3>2. IsFiniteSet(1..Len(s)) /\ DOMAIN s = 1..Len(s)
      BY <3>1, LenProperties, FS_Interval
    <3>3. PICK J : J = {j \in DOMAIN s : s[j] = h}
      OBVIOUS
    <3>4. IsFiniteSet(J)
      BY <3>2, <3>3, FS_Subset
    <3>q. QED  BY <3>1, <3>3, <3>4, FS_CardinalityType DEF Times
  <2>4. CountersTyped'
    <3>1. received' \in [Nodes -> Nat] /\ missed' \in [Nodes -> Nat]
      <4>1. PICK x \in Nat, y \in Nat : x = Times(i, "received") /\ y = Times(i, "missed")
        BY <2>3
      <4>q. QED  BY <1>2, <1>7, <2>1, <4>1
    <3>q. QED  BY <1>7, <2>1, <3>1 DEF CountersTyped
  <2>5. EntryShape' /\ OneAddressed'
    <3>1. /\ task'[i] \in {"build", "push", "done"} /\ rest'[i] \in Seq(Objects) /\ Increasing(rest'[i])
          /\ outcome'[i] \in Seq(Fates)
          /\ \A j \in DOMAIN outcome'[i] :
               outcome'[i][j] = "addressed" => j = Len(outcome'[i]) /\ rest'[i] # <<>> /\ task'[i] = "push"
      BY <1>1, <1>2, <2>1, <2>2 DEF OneAddressed
    <3>q. QED  BY <1>1, <2>2, <3>1, EntryMoves
  <2>q. QED  BY <1>4, <1>5, <1>6, <2>1, <2>4, <2>5 DEF PushTypes
<1>q. QED  BY <1>8, <1>11, <1>12, <1>13, <1>14, <1>15 DEF PushTask

\* The steps of Serve and of the others.
LEMMA PushersMove ==
  ASSUME ListsInv, PushTypes, PushNext
  PROVE  ListsInv' /\ PushTypes'
<1>1. EntryShape /\ OneAddressed /\ PushShape /\ SentBehind /\ CacheShape /\ CountersTyped
  BY DEF PushTypes
<1>2. ASSUME UNCHANGED lists  PROVE ListsInv'
  BY <1>2 DEF lists, ListsInv, ListsTypeOK, ChansBehind
<1>3. ASSUME UNCHANGED <<entry, task, rest, outcome>>, entry # <<>> => pushing' \in {"spawned", "wait"}
      PROVE  EntryShape' /\ OneAddressed'
  BY <1>1, <1>3 DEF EntryShape, OneAddressed, Increasing
<1>4. ASSUME UNCHANGED <<object, cache>>  PROVE CacheShape'
  BY <1>1, <1>4 DEF CacheShape, Increasing, Contains
<1>5. ASSUME UNCHANGED <<addressed, received, missed>>  PROVE CountersTyped'
  BY <1>1, <1>5 DEF CountersTyped
<1>6. ASSUME UNCHANGED <<entry, task, rest, outcome, object, sent, cache, counters, pushing>>, PushShape'
      PROVE  PushTypes'
  <2>1. EntryShape' /\ OneAddressed' /\ CacheShape' /\ CountersTyped'
    BY <1>1, <1>3, <1>4, <1>5, <1>6 DEF counters, EntryShape
  <2>2. SentBehind'
    BY <1>1, <1>6 DEF SentBehind
  <2>q. QED  BY <1>6, <2>1, <2>2 DEF PushTypes
<1>7. CASE Pull
  <2>1. /\ pushing = "pull" /\ object < MaxObjects /\ object' = object + 1 /\ pushing' = "lock"
        /\ UNCHANGED <<lists, pushCtxDone, locked, editor, entry, task, rest, outcome, counters, inbox, got, doubled>>
    BY <1>7 DEF Pull
  <2>2. PushShape' /\ CountersTyped'
    BY <1>1, <1>5, <2>1 DEF PushShape, counters
  <2>3. SentBehind'
    BY <1>1, <2>1, PushAssumption DEF SentBehind, counters
  <2>4. EntryShape' /\ OneAddressed'
    BY <1>1, <1>3, <2>1 DEF EntryShape
  <2>5. object \in Nat /\ cache \in Seq(Video) /\ Increasing(cache) /\ cache \in Seq(Int)
        /\ \A v \in Int : Contains(cache, v) => v <= object
    BY <1>1, ObjectsCounted DEF SentBehind, CacheShape
  <2>6. CacheShape'
    <3>1. CASE cache' = cache
      <4>1. \A v \in Int : Contains(cache, v) => v <= object'
        BY <2>1, <2>5
      <4>2. Increasing(cache')
        BY <2>5, <3>1 DEF Increasing
      <4>q. QED  BY <1>1, <3>1, <4>1, <4>2 DEF CacheShape, Contains
    <3>2. CASE Pusher \in CachingNodes /\ object' \in Video /\ cache' = Append(cache, object')
      <4>1. PICK o \in Video : o = object' /\ o = object + 1 /\ o \in Int
        BY <2>1, <2>5, <3>2
      <4>2. PICK c : c = Append(cache, o)
        OBVIOUS
      <4>3. \A v \in Int : Contains(cache, v) => v <= o
        BY <2>5, <4>1
      <4>4. Increasing(c) /\ c \in Seq(Video)
        BY <2>5, <4>1, <4>2, <4>3, IncreasingAppended, AppendProperties
      <4>5. \A v : Contains(c, v) <=> Contains(cache, v) \/ v = o
        BY <2>5, <4>1, <4>2, ContainsAppended
      <4>6. \A v \in Int : Contains(c, v) => v <= o
        BY <4>1, <4>3, <4>5
      <4>7. cache' = c /\ object' = o
        BY <3>2, <4>1, <4>2
      <4>q. QED  BY <3>2, <4>4, <4>6, <4>7 DEF CacheShape, Increasing, Contains
    <3>q. QED  BY <1>7, <3>1, <3>2 DEF Pull
  <2>q. QED  BY <1>2, <2>1, <2>2, <2>3, <2>4, <2>6 DEF PushTypes
<1>8. CASE TakeList
  <2>1. /\ pushing = "lock" /\ ~locked /\ entry' = packetsTo[Pusher]
        /\ task' = [i \in DOMAIN entry' |-> "build"]
        /\ rest' = [i \in DOMAIN entry' |-> <<>>] /\ outcome' = rest'
        /\ \/ entry' = <<>> /\ pushing' = "pull" /\ sent' = sent + 1 /\ UNCHANGED locked
           \/ entry' # <<>> /\ pushing' = "spawned" /\ locked' = TRUE /\ UNCHANGED sent
        /\ UNCHANGED <<lists, pushCtxDone, editor, object, cache, addressed, received, missed, inbox, got, doubled>>
    BY <1>8 DEF TakeList
  <2>2. packetsTo[Pusher] \in Seq(Nodes)
    BY PushAssumption DEF ListsInv, ListsTypeOK
  <2>3. <<>> \in Seq(Objects) /\ <<>> \in Seq(Fates) /\ DOMAIN <<>> = {} /\ Increasing(<<>>)
    BY EmptySeq DEF Increasing
  <2>4. EntryShape'
    <3>1. \A i \in DOMAIN entry' : rest'[i] = <<>> /\ outcome'[i] = <<>>
      BY <2>1
    <3>2. rest' \in [DOMAIN entry' -> Seq(Objects)] /\ outcome' \in [DOMAIN entry' -> Seq(Fates)]
      BY <2>1, <2>3
    <3>3. task' \in [DOMAIN entry' -> {"build", "push", "done"}] /\ entry' \in Seq(Nodes)
          /\ (entry' # <<>> => pushing' \in {"spawned", "wait"})
      BY <2>1, <2>2
    <3>4. \A i \in DOMAIN entry' : DOMAIN rest'[i] = {}
      BY <2>3, <3>1
    <3>q. QED  BY <3>2, <3>3, <3>4 DEF EntryShape, Increasing
  <2>5. OneAddressed'
    <3>1. \A i \in DOMAIN entry' : DOMAIN outcome'[i] = {}
      BY <2>1, <2>3
    <3>q. QED  BY <3>1 DEF OneAddressed
  <2>6. PushShape'
    BY <1>1, <2>1 DEF PushShape
  <2>7. SentBehind'
    BY <1>1, <2>1 DEF SentBehind
  <2>q. QED  BY <1>2, <1>4, <1>5, <2>1, <2>4, <2>5, <2>6, <2>7 DEF PushTypes
<1>9. CASE Unlock
  <2>1. /\ pushing = "spawned" /\ pushing' = "wait" /\ locked' = FALSE
        /\ UNCHANGED <<lists, pushCtxDone, editor, object, cache, entry, task, rest, outcome, counters, inbox, got, doubled>>
    BY <1>9 DEF Unlock
  <2>2. PushShape' /\ SentBehind'
    BY <1>1, <2>1 DEF PushShape, SentBehind, counters
  <2>3. EntryShape' /\ OneAddressed' /\ CacheShape' /\ CountersTyped'
    BY <1>3, <1>4, <1>5, <2>1 DEF counters
  <2>q. QED  BY <1>2, <2>1, <2>2, <2>3 DEF PushTypes
<1>10. CASE Joined
  <2>1. /\ pushing = "wait" /\ sent' = sent + 1 /\ pushing' = "pull"
        /\ entry' = <<>> /\ task' = <<>> /\ rest' = <<>> /\ outcome' = <<>>
        /\ UNCHANGED <<lists, pushCtxDone, locked, editor, object, cache, addressed, received, missed, inbox, got, doubled>>
    BY <1>10 DEF Joined
  <2>2. PushShape' /\ SentBehind'
    BY <1>1, <2>1 DEF PushShape, SentBehind
  <2>3. EntryShape' /\ OneAddressed'
    BY <2>1, EmptySeq DEF EntryShape, OneAddressed
  <2>q. QED  BY <1>2, <1>4, <1>5, <2>1, <2>2, <2>3 DEF PushTypes
<1>11. CASE PushReturns
  <2>1. /\ pushing = "pull" /\ pushing' = "return" /\ cache' = <<>>
        /\ marked' = [marked EXCEPT ![Pusher] = IF Pusher \in CachingNodes THEN {} ELSE @]
        /\ UNCHANGED <<packetsTo, framesTo, packetsChan, framesChan, edits, pushCtxDone, locked, editor,
                       object, entry, task, rest, outcome, counters, inbox, got, doubled>>
    BY <1>11 DEF PushReturns
  <2>2. ListsInv'
    <3>1. marked' \in [Nodes -> SUBSET Nodes]
      BY <2>1 DEF ListsInv, ListsTypeOK
    <3>q. QED  BY <2>1, <3>1 DEF ListsInv, ListsTypeOK, ChansBehind
  <2>3. PushShape' /\ SentBehind'
    BY <1>1, <2>1 DEF PushShape, SentBehind, counters
  <2>4. EntryShape' /\ OneAddressed' /\ CountersTyped'
    BY <1>1, <1>3, <1>5, <2>1 DEF EntryShape, counters
  <2>5. CacheShape'
    <3>1. <<>> \in Seq(Video) /\ DOMAIN <<>> = {} /\ 1..Len(<<>>) = {}
      BY EmptySeq
    <3>q. QED  BY <2>1, <3>1 DEF CacheShape, Increasing, Contains
  <2>q. QED  BY <2>2, <2>3, <2>4, <2>5 DEF PushTypes
<1>12. CASE WantEdit
  <2>1. PushShape' /\ UNCHANGED <<lists, entry, task, rest, outcome, object, sent, cache, counters, pushing>>
    BY <1>1, <1>12 DEF WantEdit, PushShape, counters
  <2>q. QED  BY <1>2, <1>6, <2>1
<1>13. CASE LockAndEdit
  <2>1. PushShape' /\ UNCHANGED <<entry, task, rest, outcome, object, sent, cache, counters, pushing>>
    BY <1>1, <1>13 DEF LockAndEdit, PushShape, counters, Twice
  <2>2. ListsInv'
    <3>1. CASE EditPackets(Pusher, Dsts, ListChoices)
      <4>1. Edited(Pusher)
        BY <3>1, PushAssumption, EditsEdit DEF ListsInv
      <4>q. QED  BY <4>1, PushAssumption, EditedTyped
    <3>2. CASE UNCHANGED lists
      BY <1>2, <3>2
    <3>q. QED  BY <1>13, <3>1, <3>2 DEF LockAndEdit
  <2>q. QED  BY <1>6, <2>1, <2>2
<1>14. CASE EndPushing
  <2>1. PushShape' /\ UNCHANGED <<lists, entry, task, rest, outcome, object, sent, cache, counters, pushing>>
    BY <1>1, <1>14 DEF EndPushing, PushShape, counters
  <2>q. QED  BY <1>2, <1>6, <2>1
<1>15. ASSUME NEW d \in Nodes, Consume(d)  PROVE ListsInv' /\ PushTypes'
  <2>1. inbox' = [inbox EXCEPT ![d] = <<>>] /\ inbox \in [Nodes -> Seq(Objects)]
        /\ UNCHANGED <<lists, pushCtxDone, locked, editor, pushing, object, cache, entry, task, rest, outcome, counters, got, doubled>>
    BY <1>1, <1>15 DEF Consume, PushShape
  <2>2. inbox' \in [Nodes -> Seq(Objects)]
    BY <2>1, EmptySeq
  <2>3. PushShape' /\ UNCHANGED <<lists, entry, task, rest, outcome, object, sent, cache, counters, pushing>>
    BY <1>1, <2>1, <2>2 DEF PushShape, counters
  <2>q. QED  BY <1>2, <1>6, <2>3
<1>16. ASSUME NEW i \in DOMAIN entry, PushTask(i)  PROVE ListsInv' /\ PushTypes'
  BY <1>16, TasksMove
<1>q. QED  BY <1>7, <1>8, <1>9, <1>10, <1>11, <1>12, <1>13, <1>14, <1>15, <1>16 DEF PushNext, PushStep

----------------------------------------------------------------------------
(* Pushing: every step keeps the account.                                   *)

\* An account is the same as long as what it reads is.
LEMMA AccountSame ==
  ASSUME Accounted, UNCHANGED <<addressed, received, missed, got>>, \A d, h : Owed(d, h)' = Owed(d, h)
  PROVE  Accounted'
BY DEF Accounted, Account, Finite, Debt

\* So is what is owed.
LEMMA OwedSame ==
  ASSUME UNCHANGED <<entry, outcome>>, \A i \in DOMAIN entry : task[i] = "done" <=> task'[i] = "done"
  PROVE  \A d, h : Owed(d, h)' = Owed(d, h)
BY DEF Owed

\* The parts of the account of a destination, as numbers.
LEMMA AccountTyped ==
  ASSUME PushTypes, Accounted, NEW d \in Nodes
  PROVE  /\ Debt(d, "addressed") \in Nat /\ Debt(d, "received") \in Nat /\ Debt(d, "missed") \in Nat
         /\ addressed[d] \in Nat /\ received[d] \in Nat /\ missed[d] \in Nat /\ Len(got[d]) \in Nat
         /\ IsFiniteSet(Owed(d, "addressed")) /\ IsFiniteSet(Owed(d, "received")) /\ IsFiniteSet(Owed(d, "missed"))
         /\ addressed[d] = received[d] + missed[d]
                           + Debt(d, "addressed") + Debt(d, "received") + Debt(d, "missed")
         /\ Len(got[d]) = received[d] + Debt(d, "received")
<1>1. Account(d) /\ Finite(d)
  BY DEF Accounted, Account
<1>2. /\ Debt(d, "addressed") \in Nat /\ Debt(d, "received") \in Nat /\ Debt(d, "missed") \in Nat
      /\ IsFiniteSet(Owed(d, "addressed")) /\ IsFiniteSet(Owed(d, "received")) /\ IsFiniteSet(Owed(d, "missed"))
  <2>1. "addressed" \in Fates /\ "received" \in Fates /\ "missed" \in Fates
    BY DEF Fates
  <2>q. QED  BY <1>1, <2>1, DebtTyped DEF Finite
<1>3. addressed[d] \in Nat /\ received[d] \in Nat /\ missed[d] \in Nat
  BY DEF PushTypes, CountersTyped
<1>4. Len(got[d]) \in Nat
  <2>1. got[d] \in Seq(Objects)
    BY DEF PushTypes, PushShape
  <2>q. QED  BY <2>1, LenProperties
<1>q. QED  BY <1>1, <1>2, <1>3, <1>4 DEF Account

\* A destination whose part of the account is as it was.
LEMMA AccountOf ==
  ASSUME Accounted, NEW d \in Nodes, \A h \in Fates : Owed(d, h)' = Owed(d, h),
         addressed'[d] = addressed[d], received'[d] = received[d], missed'[d] = missed[d], got'[d] = got[d]
  PROVE  Account(d)'
<1>1. "addressed" \in Fates /\ "received" \in Fates /\ "missed" \in Fates
  BY DEF Fates
<1>q. QED  BY <1>1 DEF Accounted, Account, Finite, Debt

\* Every step of a task keeps the accounts.
LEMMA TasksAccount ==
  ASSUME PushTypes, Accounted, NEW i \in DOMAIN entry, PushTask(i)
  PROVE  Accounted'
<1>1. EntryShape /\ OneAddressed /\ CountersTyped
  BY DEF PushTypes
<1>2. PICK d \in Nodes : d = entry[i]
  <2>1. PICK e : e = entry /\ e \in Seq(Nodes)
    BY <1>1 DEF EntryShape
  <2>2. e[i] \in Nodes
    BY <2>1, LenProperties
  <2>q. QED  BY <2>1, <2>2
<1>3. addressed \in [Nodes -> Nat] /\ received \in [Nodes -> Nat] /\ missed \in [Nodes -> Nat]
      /\ got \in [Nodes -> Seq(Objects)]
  BY <1>1 DEF PushTypes, CountersTyped, PushShape
<1>4. /\ Debt(d, "addressed") \in Nat /\ Debt(d, "received") \in Nat /\ Debt(d, "missed") \in Nat
      /\ addressed[d] \in Nat /\ received[d] \in Nat /\ missed[d] \in Nat /\ Len(got[d]) \in Nat
      /\ IsFiniteSet(Owed(d, "addressed")) /\ IsFiniteSet(Owed(d, "received")) /\ IsFiniteSet(Owed(d, "missed"))
      /\ addressed[d] = received[d] + missed[d]
                        + Debt(d, "addressed") + Debt(d, "received") + Debt(d, "missed")
      /\ Len(got[d]) = received[d] + Debt(d, "received")
  BY AccountTyped
<1>5. ASSUME \A c \in Nodes \ {d} : /\ \A h \in Fates : Owed(c, h)' = Owed(c, h)
                                    /\ addressed'[c] = addressed[c] /\ received'[c] = received[c]
                                    /\ missed'[c] = missed[c] /\ got'[c] = got[c],
             Account(d)'
      PROVE  Accounted'
  <2>1. ASSUME NEW c \in Nodes  PROVE Account(c)'
    <3>1. CASE c = d
      BY <1>5, <3>1
    <3>2. CASE c # d
      BY <1>5, <3>2, AccountOf
    <3>q. QED  BY <3>1, <3>2
  <2>q. QED  BY <2>1 DEF Accounted
<1>6. CASE BuildInput(i)
  <2>1. /\ task[i] = "build" /\ task' = [task EXCEPT ![i] = "push"]
        /\ UNCHANGED <<entry, outcome, addressed, received, missed, got>>
    BY <1>6 DEF BuildInput, counters
  <2>2. \A k \in DOMAIN entry : task[k] = "done" <=> task'[k] = "done"
    BY <1>1, <2>1 DEF EntryShape
  <2>q. QED  BY <2>1, <2>2, OwedSame, AccountSame
<1>7. CASE SkipRefused(i) \/ (Address(i) /\ pushCtxDone)
  <2>1. UNCHANGED <<entry, task, outcome, addressed, received, missed, got>>
    BY <1>7 DEF SkipRefused, Address, PushUnchanged
  <2>q. QED  BY <2>1, OwedSame, AccountSame
<1>8. CASE Address(i) /\ ~pushCtxDone
  <2>1. /\ task[i] = "push" /\ addressed' = [addressed EXCEPT ![d] = @ + 1]
        /\ outcome' = [outcome EXCEPT ![i] = Append(@, "addressed")]
        /\ UNCHANGED <<received, missed, got, entry, task>>
    BY <1>2, <1>8 DEF Address, Count, PushUnchanged, Pushable
  <2>2. ASSUME NEW c, NEW h
        PROVE  \/ /\ c = d /\ h = "addressed"
                  /\ \E p : p \notin Owed(c, h) /\ Owed(c, h)' = Owed(c, h) \cup {p}
               \/ ~ (c = d /\ h = "addressed") /\ Owed(c, h)' = Owed(c, h)
    <3>1. EntryShape /\ task[i] # "done" /\ "addressed" \in Fates
      BY <1>1, <2>1 DEF Fates
    <3>2. UNCHANGED <<entry, task>> /\ outcome' = [outcome EXCEPT ![i] = Append(@, "addressed")]
      BY <2>1
    <3>3. \/ /\ c = entry[i] /\ h = "addressed"
             /\ \E p : p \notin Owed(c, h) /\ Owed(c, h)' = Owed(c, h) \cup {p}
          \/ ~ (c = entry[i] /\ h = "addressed") /\ Owed(c, h)' = Owed(c, h)
      BY <3>1, <3>2, OwedAppended
    <3>q. QED  BY <1>2, <3>3
  <2>3. PICK p : p \notin Owed(d, "addressed") /\ Owed(d, "addressed")' = Owed(d, "addressed") \cup {p}
    BY <2>2
  <2>4. IsFiniteSet(Owed(d, "addressed")') /\ Debt(d, "addressed")' = Debt(d, "addressed") + 1
    BY <1>4, <2>3, FS_AddElement DEF Debt
  <2>5. Owed(d, "received")' = Owed(d, "received") /\ Owed(d, "missed")' = Owed(d, "missed")
    BY <2>2
  <2>6. Debt(d, "received")' = Debt(d, "received") /\ Debt(d, "missed")' = Debt(d, "missed")
    BY <2>5 DEF Debt
  <2>7. addressed'[d] = addressed[d] + 1 /\ \A c \in Nodes \ {d} : addressed'[c] = addressed[c]
    BY <1>3, <2>1
  <2>8. Finite(d)'
    BY <1>4, <2>4, <2>5 DEF Finite, Fates
  <2>9. addressed'[d] = received'[d] + missed'[d]
                        + Debt(d, "addressed")' + Debt(d, "received")' + Debt(d, "missed")'
    <3>1. /\ Debt(d, "addressed") \in Nat /\ Debt(d, "received") \in Nat /\ Debt(d, "missed") \in Nat
          /\ addressed[d] \in Nat /\ received[d] \in Nat /\ missed[d] \in Nat
          /\ addressed[d] = received[d] + missed[d]
                            + Debt(d, "addressed") + Debt(d, "received") + Debt(d, "missed")
      BY <1>4
    <3>2. /\ addressed'[d] = addressed[d] + 1 /\ received'[d] = received[d] /\ missed'[d] = missed[d]
          /\ Debt(d, "addressed")' = Debt(d, "addressed") + 1
          /\ Debt(d, "received")' = Debt(d, "received") /\ Debt(d, "missed")' = Debt(d, "missed")
      BY <2>1, <2>4, <2>6, <2>7
    <3>q. QED  BY <3>1, <3>2
  <2>10. Len(got'[d]) = received'[d] + Debt(d, "received")'
    BY <1>4, <2>1, <2>6
  <2>11. Account(d)'
    BY <2>8, <2>9, <2>10 DEF Account
  <2>12. \A c \in Nodes \ {d} : \A h \in Fates : Owed(c, h)' = Owed(c, h)
    BY <2>2
  <2>q. QED  BY <1>5, <2>1, <2>7, <2>11, <2>12
<1>9. ASSUME NEW how \in {"received", "missed"}, task[i] = "push", IsAddressed(i), Decided(i, how),
             UNCHANGED <<entry, task, addressed, received, missed>>,
             \/ how = "missed" /\ UNCHANGED got
             \/ how = "received" /\ \E x \in Objects : got' = [got EXCEPT ![d] = Append(@, x)]
      PROVE  Accounted'
  <2>1. PICK p : /\ p \in Owed(d, "addressed") /\ p \notin Owed(d, how)
                 /\ Owed(d, "addressed")' = Owed(d, "addressed") \ {p}
                 /\ Owed(d, how)' = Owed(d, how) \cup {p}
                 /\ \A c, h : ~ (c = d /\ h \in {"addressed", how}) => Owed(c, h)' = Owed(c, h)
    <3>1. task[i] # "done"
      BY <1>9
    <3>q. QED  BY <1>1, <1>2, <1>9, <3>1, OwedDecided
  <2>2. /\ IsFiniteSet(Owed(d, "addressed")') /\ Debt(d, "addressed")' = Debt(d, "addressed") - 1
        /\ IsFiniteSet(Owed(d, how)) /\ Debt(d, how) \in Nat
    BY <1>4, <2>1, FS_RemoveElement DEF Debt
  <2>3. IsFiniteSet(Owed(d, how)') /\ Debt(d, how)' = Debt(d, how) + 1
    BY <2>1, <2>2, FS_AddElement DEF Debt
  <2>4. \A c \in Nodes \ {d} : /\ \A h \in Fates : Owed(c, h)' = Owed(c, h)
                               /\ addressed'[c] = addressed[c] /\ received'[c] = received[c]
                               /\ missed'[c] = missed[c] /\ got'[c] = got[c]
    <3>1. \A c \in Nodes \ {d} : got'[c] = got[c]
      BY <1>3, <1>9
    <3>q. QED  BY <1>9, <2>1, <3>1
  <2>5. CASE how = "received"
    <3>1. Owed(d, "missed")' = Owed(d, "missed")
      BY <2>1, <2>5
    <3>2. Debt(d, "missed")' = Debt(d, "missed")
      BY <3>1 DEF Debt
    <3>3. Finite(d)'
      BY <1>4, <2>2, <2>3, <2>5, <3>1 DEF Finite, Fates
    <3>4. Len(got'[d]) = Len(got[d]) + 1
      <4>1. PICK x \in Objects : got' = [got EXCEPT ![d] = Append(@, x)]
        BY <1>9, <2>5
      <4>2. got'[d] = Append(got[d], x) /\ got[d] \in Seq(Objects)
        BY <1>3, <4>1
      <4>q. QED  BY <4>2, AppendProperties
    <3>8. /\ addressed'[d] = addressed[d] /\ received'[d] = received[d] /\ missed'[d] = missed[d]
          /\ Debt(d, "addressed")' = Debt(d, "addressed") - 1
          /\ Debt(d, "received")' = Debt(d, "received") + 1 /\ Debt(d, "missed")' = Debt(d, "missed")
      BY <1>9, <2>2, <2>3, <2>5, <3>2
    <3>5. addressed'[d] = received'[d] + missed'[d]
                          + Debt(d, "addressed")' + Debt(d, "received")' + Debt(d, "missed")'
      <4>1. /\ Debt(d, "addressed") \in Nat /\ Debt(d, "received") \in Nat /\ Debt(d, "missed") \in Nat
            /\ addressed[d] \in Nat /\ received[d] \in Nat /\ missed[d] \in Nat
            /\ addressed[d] = received[d] + missed[d]
                              + Debt(d, "addressed") + Debt(d, "received") + Debt(d, "missed")
        BY <1>4
      <4>q. QED  BY <3>8, <4>1
    <3>6. Len(got'[d]) = received'[d] + Debt(d, "received")'
      <4>1. Len(got[d]) = received[d] + Debt(d, "received") /\ Debt(d, "received") \in Nat /\ received[d] \in Nat
        BY <1>4
      <4>q. QED  BY <3>4, <3>8, <4>1
    <3>7. Account(d)'
      BY <3>3, <3>5, <3>6 DEF Account
    <3>q. QED  BY <1>5, <2>4, <3>7
  <2>6. CASE how = "missed"
    <3>1. Owed(d, "received")' = Owed(d, "received")
      BY <2>1, <2>6
    <3>2. Debt(d, "received")' = Debt(d, "received")
      BY <3>1 DEF Debt
    <3>3. Finite(d)'
      BY <1>4, <2>2, <2>3, <2>6, <3>1 DEF Finite, Fates
    <3>4. got' = got
      BY <1>9, <2>6
    <3>5. addressed'[d] = received'[d] + missed'[d]
                          + Debt(d, "addressed")' + Debt(d, "received")' + Debt(d, "missed")'
      BY <1>4, <1>9, <2>2, <2>3, <2>6, <3>2
    <3>6. Len(got'[d]) = received'[d] + Debt(d, "received")'
      BY <1>4, <1>9, <3>2, <3>4
    <3>7. Account(d)'
      BY <3>3, <3>5, <3>6 DEF Account
    <3>q. QED  BY <1>5, <2>4, <3>7
  <2>q. QED  BY <1>9, <2>5, <2>6
<1>10. CASE Give(i)
  <2>1. /\ task[i] = "push" /\ IsAddressed(i) /\ Decided(i, "received") /\ rest[i] # <<>>
        /\ got' = [got EXCEPT ![d] = Append(@, Head(rest[i]))]
        /\ UNCHANGED <<entry, task, addressed, received, missed>>
    BY <1>2, <1>10 DEF Give, PushUnchanged, Pushable
  <2>2. Head(rest[i]) \in Objects
    <3>1. rest[i] \in Seq(Objects)
      BY <1>1 DEF EntryShape
    <3>q. QED  BY <2>1, <3>1, HeadTailProperties
  <2>q. QED  BY <1>9, <2>1, <2>2
<1>11. CASE Discard(i) \/ GiveUp(i)
  <2>1. /\ task[i] = "push" /\ IsAddressed(i) /\ Decided(i, "missed")
        /\ UNCHANGED <<entry, task, addressed, received, missed, got>>
    BY <1>11 DEF Discard, GiveUp, PushUnchanged, Pushable
  <2>q. QED  BY <1>9, <2>1
<1>12. CASE Counted(i)
  <2>1. /\ task[i] = "push" /\ rest[i] = <<>> /\ task' = [task EXCEPT ![i] = "done"]
        /\ received' = [received EXCEPT ![d] = @ + Times(i, "received")]
        /\ missed' = [missed EXCEPT ![d] = @ + Times(i, "missed")]
        /\ UNCHANGED <<entry, outcome, addressed, got>>
    BY <1>2, <1>12 DEF Counted
  <2>2. ASSUME NEW h \in Fates
        PROVE  /\ IsFiniteSet(Owed(d, h)') /\ Times(i, h) \in Nat
               /\ Debt(d, h)' \in Nat /\ Debt(d, h) = Debt(d, h)' + Times(i, h)
               /\ \A c : c # d => Owed(c, h)' = Owed(c, h)
    <3>1. IsFiniteSet(Owed(d, h)) /\ task[i] # "done"
      BY <1>4, <2>1 DEF Fates
    <3>q. QED  BY <1>1, <1>2, <2>1, <3>1, OwedCounted
  <2>3. "addressed" \in Fates /\ "received" \in Fates /\ "missed" \in Fates
    BY DEF Fates
  <2>4. /\ Times(i, "received") \in Nat /\ Debt(d, "received")' \in Nat
        /\ Debt(d, "received") = Debt(d, "received")' + Times(i, "received")
        /\ Times(i, "missed") \in Nat /\ Debt(d, "missed")' \in Nat
        /\ Debt(d, "missed") = Debt(d, "missed")' + Times(i, "missed")
        /\ Times(i, "addressed") \in Nat /\ Debt(d, "addressed")' \in Nat
        /\ Debt(d, "addressed") = Debt(d, "addressed")' + Times(i, "addressed")
    BY <2>2, <2>3
  <2>5. Times(i, "addressed") = 0
    <3>1. {j \in DOMAIN outcome[i] : outcome[i][j] = "addressed"} = {}
      BY <1>1, <2>1 DEF OneAddressed
    <3>q. QED  BY <3>1, FS_EmptySet DEF Times
  <2>6. received'[d] = received[d] + Times(i, "received") /\ missed'[d] = missed[d] + Times(i, "missed")
        /\ \A c \in Nodes \ {d} : received'[c] = received[c] /\ missed'[c] = missed[c]
    BY <1>3, <2>1
  <2>7. Finite(d)'
    BY <2>2 DEF Finite
  <2>8. addressed'[d] = received'[d] + missed'[d]
                        + Debt(d, "addressed")' + Debt(d, "received")' + Debt(d, "missed")'
    <3>1. /\ Debt(d, "addressed") \in Nat /\ Debt(d, "received") \in Nat /\ Debt(d, "missed") \in Nat
          /\ addressed[d] \in Nat /\ received[d] \in Nat /\ missed[d] \in Nat
          /\ addressed[d] = received[d] + missed[d]
                            + Debt(d, "addressed") + Debt(d, "received") + Debt(d, "missed")
      BY <1>4
    <3>2. /\ Times(i, "received") \in Nat /\ Debt(d, "received")' \in Nat
          /\ Debt(d, "received") = Debt(d, "received")' + Times(i, "received")
          /\ Times(i, "missed") \in Nat /\ Debt(d, "missed")' \in Nat
          /\ Debt(d, "missed") = Debt(d, "missed")' + Times(i, "missed")
          /\ Debt(d, "addressed")' \in Nat /\ Debt(d, "addressed") = Debt(d, "addressed")'
      BY <2>4, <2>5
    <3>3. /\ received'[d] = received[d] + Times(i, "received") /\ missed'[d] = missed[d] + Times(i, "missed")
          /\ addressed'[d] = addressed[d]
      BY <2>1, <2>6
    <3>q. QED  BY <3>1, <3>2, <3>3
  <2>9. Len(got'[d]) = received'[d] + Debt(d, "received")'
    <3>1. /\ Debt(d, "received") \in Nat /\ received[d] \in Nat /\ Len(got[d]) = received[d] + Debt(d, "received")
      BY <1>4
    <3>2. /\ Times(i, "received") \in Nat /\ Debt(d, "received")' \in Nat
          /\ Debt(d, "received") = Debt(d, "received")' + Times(i, "received")
      BY <2>4
    <3>3. got' = got /\ received'[d] = received[d] + Times(i, "received")
      BY <2>1, <2>6
    <3>q. QED  BY <3>1, <3>2, <3>3
  <2>10. Account(d)'
    BY <2>7, <2>8, <2>9 DEF Account
  <2>q. QED  BY <1>5, <2>1, <2>2, <2>6, <2>10
<1>q. QED  BY <1>6, <1>7, <1>8, <1>10, <1>11, <1>12 DEF PushTask

\* Every step of the node, its tasks and its editor keeps the accounts.
LEMMA PushersAccount ==
  ASSUME PushTypes, Accounted, PushNext
  PROVE  Accounted'
<1>1. EntryShape
  BY DEF PushTypes
<1>2. ASSUME UNCHANGED <<entry, task, outcome, addressed, received, missed, got>>  PROVE Accounted'
  BY <1>2, OwedSame, AccountSame
<1>3. CASE Pull \/ Unlock \/ PushReturns \/ WantEdit \/ LockAndEdit \/ EndPushing \/ \E d \in Nodes : Consume(d)
  <2>1. UNCHANGED <<entry, task, outcome, addressed, received, missed, got>>
    BY <1>3 DEF Pull, Unlock, PushReturns, WantEdit, LockAndEdit, EndPushing, Consume, counters
  <2>q. QED  BY <1>2, <2>1
<1>4. CASE TakeList
  <2>1. /\ pushing = "lock" /\ outcome' = [i \in DOMAIN entry' |-> <<>>]
        /\ UNCHANGED <<addressed, received, missed, got>>
    BY <1>4 DEF TakeList
  <2>2. entry = <<>>
    BY <1>1, <2>1 DEF EntryShape
  <2>3. \A d, h : Owed(d, h) = {}
    BY <2>2, NothingOwed
  <2>4. \A i \in DOMAIN entry' : DOMAIN outcome'[i] = {}
    <3>1. DOMAIN <<>> = {}
      OBVIOUS
    <3>q. QED  BY <2>1, <3>1
  <2>5. \A d, h : Owed(d, h)' = {}
    BY <2>4 DEF Owed
  <2>q. QED  BY <2>1, <2>3, <2>5, AccountSame
<1>5. CASE Joined
  <2>1. /\ \A i \in DOMAIN entry : task[i] = "done"
        /\ entry' = <<>> /\ UNCHANGED <<addressed, received, missed, got>>
    BY <1>5 DEF Joined
  <2>2. \A d, h : Owed(d, h) = {}
    BY <2>1, NothingOwed
  <2>3. \A d, h : Owed(d, h)' = {}
    BY <2>1 DEF Owed
  <2>q. QED  BY <2>1, <2>2, <2>3, AccountSame
<1>q. QED  BY <1>3, <1>4, <1>5, TasksAccount DEF PushNext, PushStep

----------------------------------------------------------------------------
(* Pushing: the cache leaves no gap.                                        *)

\* An object on its way to a destination: it was given, it is the one that was
\* pulled last, or a goroutine of the push has it still before it.
WithTask(d, v, i) ==
  /\ i \in DOMAIN entry /\ entry[i] = d
  /\ (task[i] = "build" /\ v = object) \/ (task[i] = "push" /\ Contains(rest[i], v))
\* A packet was given to a destination or will be, by the push that is on its way.
OnItsWay(d, v) ==
  Contains(got[d], v) \/ (pushing = "lock" /\ v = object) \/ \E i \in DOMAIN entry : WithTask(d, v, i)
\* Nothing pulled since v may be dropped.
Undropped(v) == ~ \E o \in Droppable : v <= o /\ o <= object
Settled(d) ==
  /\ d \in ToSet(packetsTo[Pusher]) /\ d \notin marked[Pusher] /\ d \notin doubled
  /\ ~Droppy(d) /\ d \notin Discarding /\ ~pushCtxDone
Gapless ==
  \A d \in Nodes, v \in Objects :
    Settled(d) /\ Contains(cache, v) /\ Undropped(v) => OnItsWay(d, v)
TwiceDoubled == Twice(packetsTo[Pusher]) \subseteq doubled
\* Nothing is given that was not pulled.
GivenBelow ==
  /\ \A i \in DOMAIN entry : \A v \in Int : Contains(rest[i], v) => v <= object
  /\ \A d \in Nodes : \A v \in Int : Contains(got[d], v) => v <= object

\* An empty sequence contains nothing.
LEMMA NothingContained == \A v : ~ Contains(<<>>, v)
BY EmptySeq DEF Contains

\* A sequence of one contains that.
LEMMA OneContained ==
  ASSUME NEW x
  PROVE  Contains(<<x>>, x) /\ \A v : Contains(<<x>>, v) => v = x
BY DEF Contains

\* Between two objects nothing is on its way, so that there is no gap.
LEMMA GapImplies ==
  ASSUME ListsInv, PushTypes, Gapless, GivenBelow
  PROVE  CacheLeavesNoGap
<1>1. ASSUME NEW d \in ToSet(packetsTo[Pusher]) \ (marked[Pusher] \cup doubled),
             entry = <<>>, ~pushCtxDone, ~Droppy(d), d \notin Discarding,
             NEW v \in Objects, NEW w \in Objects, v < w, Contains(cache, v), Contains(got[d], w),
             ~ \E o \in Droppable : v <= o /\ o <= object
      PROVE  Contains(got[d], v)
  <2>1. d \in Nodes
    <3>1. packetsTo[Pusher] \in Seq(Nodes)
      BY PushAssumption DEF ListsInv, ListsTypeOK
    <3>2. \A i \in DOMAIN packetsTo[Pusher] : packetsTo[Pusher][i] \in Nodes
      BY <3>1, LenProperties
    <3>q. QED  BY <3>2 DEF ToSet
  <2>2. Settled(d) /\ Undropped(v)
    BY <1>1 DEF Settled, Undropped
  <2>3. OnItsWay(d, v)
    BY <1>1, <2>1, <2>2 DEF Gapless
  <2>4. v \in Int /\ w \in Int /\ object \in Int /\ w <= object
    BY <1>1, <2>1, PushAssumption DEF GivenBelow, Objects, PushTypes, SentBehind
  <2>5. v # object
    BY <1>1, <2>4
  <2>6. DOMAIN entry = {}
    BY <1>1
  <2>q. QED  BY <2>3, <2>5, <2>6 DEF OnItsWay
<1>q. QED  BY <1>1 DEF CacheLeavesNoGap

\* A destination that is settled after an edit was settled before.
LEMMA EditSettles ==
  ASSUME ListsInv, TwiceDoubled, Pusher \in CachingNodes, LockAndEdit, NEW d, Settled(d)'
  PROVE  Settled(d)
<1>1. PICK L : L = packetsTo[Pusher] /\ L \in Seq(Nodes)
  BY PushAssumption DEF ListsInv, ListsTypeOK
<1>2. packetsTo \in [Nodes -> Seq(Nodes)] /\ marked \in [Nodes -> SUBSET Nodes] /\ Pusher \in Nodes
  BY PushAssumption DEF ListsInv, ListsTypeOK
<1>3. d \notin doubled /\ ~Droppy(d) /\ d \notin Discarding /\ ~pushCtxDone
      /\ d \in ToSet(packetsTo'[Pusher]) /\ d \notin marked'[Pusher]
  BY DEF LockAndEdit, Settled, Droppy
<1>4. ASSUME NEW added, NEW removed, Hooks(Pusher, added, removed)
      PROVE  marked'[Pusher] = (marked[Pusher] \cup added) \ removed
  BY <1>2, <1>4 DEF Hooks
<1>5. SUFFICES d \in ToSet(L) /\ d \notin marked[Pusher]
  BY <1>1, <1>3 DEF Settled
<1>6. ASSUME NEW x \in Dsts, AddPushPacketsTo(Pusher, x)  PROVE d \in ToSet(L) /\ d \notin marked[Pusher]
  <2>1. marked'[Pusher] = marked[Pusher] \cup {x} /\ packetsTo'[Pusher] = Append(L, x)
    BY <1>1, <1>2, <1>4, <1>6 DEF AddPushPacketsTo
  <2>2. ToSet(Append(L, x)) \subseteq ToSet(L) \cup {x}
    <3>1. PICK r : r = Append(L, x) /\ r \in Seq(Nodes) /\ Len(r) = Len(L) + 1
                    /\ (\A i \in 1..Len(L) : r[i] = L[i]) /\ r[Len(L) + 1] = x
      <4>1. x \in Nodes
        BY PushAssumption
      <4>2. /\ Append(L, x) \in Seq(Nodes) /\ Len(Append(L, x)) = Len(L) + 1
            /\ (\A i \in 1..Len(L) : Append(L, x)[i] = L[i]) /\ Append(L, x)[Len(L) + 1] = x
        BY <1>1, <4>1, AppendProperties
      <4>q. QED  BY <4>2
    <3>2. DOMAIN r = 1..Len(L) + 1 /\ DOMAIN L = 1..Len(L) /\ Len(L) \in Nat
      BY <1>1, <3>1, LenProperties
    <3>3. \A i \in 1..Len(L) + 1 : i \in 1..Len(L) \/ i = Len(L) + 1
      BY <3>2
    <3>q. QED  BY <3>1, <3>2, <3>3 DEF ToSet
  <2>q. QED  BY <1>3, <2>1, <2>2
<1>7. ASSUME NEW x \in Dsts, RemovePushPacketsTo(Pusher, x)  PROVE d \in ToSet(L) /\ d \notin marked[Pusher]
  <2>1. marked'[Pusher] = marked[Pusher] \ {x} /\ packetsTo'[Pusher] = RemoveFirst(L, x)
    BY <1>1, <1>2, <1>4, <1>7 DEF RemovePushPacketsTo
  <2>2. /\ \A y \in ToSet(RemoveFirst(L, x)) : y \in ToSet(L)
        /\ x \in ToSet(RemoveFirst(L, x)) => \E i, j \in DOMAIN L : i # j /\ L[i] = x /\ L[j] = x
    BY <1>1, RemoveFirstKeeps
  <2>3. d # x
    <3>1. ASSUME d = x  PROVE FALSE
      <4>1. \E i, j \in DOMAIN L : i # j /\ L[i] = x /\ L[j] = x
        BY <1>3, <2>1, <2>2, <3>1
      <4>2. x \in Twice(L)
        BY <4>1, PushAssumption DEF Twice
      <4>q. QED  BY <1>1, <1>3, <3>1, <4>2 DEF TwiceDoubled
    <3>q. QED  BY <3>1
  <2>q. QED  BY <1>3, <2>1, <2>2, <2>3
<1>8. ASSUME NEW s \in ListChoices, SetPushPacketsTos(Pusher, s)  PROVE d \in ToSet(L) /\ d \notin marked[Pusher]
  <2>1. marked'[Pusher] = marked[Pusher] \cup (ToSet(s) \ ToSet(L)) /\ packetsTo'[Pusher] = s
    BY <1>1, <1>2, <1>4, <1>8 DEF SetPushPacketsTos
  <2>q. QED  BY <1>3, <2>1
<1>9. ASSUME NEW s \in ListChoices, WithPushPacketsTos(Pusher, s)  PROVE d \in ToSet(L) /\ d \notin marked[Pusher]
  <2>1. packetsTo'[Pusher] = s
    BY <1>1, <1>2, <1>9 DEF WithPushPacketsTos
  <2>2. \/ ToSet(L) \ ToSet(s) = {} /\ ToSet(s) \ ToSet(L) = {} /\ marked' = marked
        \/ marked'[Pusher] = (marked[Pusher] \cup (ToSet(s) \ ToSet(L))) \ (ToSet(L) \ ToSet(s))
    BY <1>1, <1>4, <1>9 DEF WithPushPacketsTos
  <2>q. QED  BY <1>3, <2>1, <2>2
<1>10. CASE UNCHANGED lists
  BY <1>1, <1>3, <1>10 DEF lists
<1>q. QED  BY <1>6, <1>7, <1>8, <1>9, <1>10 DEF LockAndEdit, EditPackets

\* The goroutine of an entry gives what is before it, or is out of the question.
LEMMA TasksLeaveNoGap ==
  ASSUME ListsInv, PushTypes, TwiceDoubled, GivenBelow, Gapless, NEW i \in DOMAIN entry, PushTask(i)
  PROVE  TwiceDoubled' /\ GivenBelow' /\ Gapless'
<1>1. EntryShape /\ OneAddressed
  BY DEF PushTypes
<1>2. /\ entry[i] \in Nodes /\ rest[i] \in Seq(Objects) /\ rest[i] \in Seq(Int) /\ Increasing(rest[i])
      /\ pushing \in {"spawned", "wait"} /\ task[i] \in {"build", "push", "done"}
  <2>1. PICK e : e = entry /\ e \in Seq(Nodes)
    BY <1>1 DEF EntryShape
  <2>2. e[i] \in Nodes /\ e # <<>>
    BY <2>1, LenProperties, EmptySeq
  <2>3. rest[i] \in Seq(Objects)
    BY <1>1 DEF EntryShape
  <2>q. QED  BY <1>1, <2>1, <2>2, <2>3, ObjectsCounted DEF EntryShape
<1>3. object \in Objects /\ object \in Int /\ cache \in Seq(Video) /\ \A v \in Int : Contains(cache, v) => v <= object
  BY <1>2, PushAssumption DEF PushTypes, SentBehind, CacheShape, Objects
<1>4. /\ UNCHANGED <<packetsTo, pushCtxDone, object, cache, entry, pushing, doubled>>
      /\ \A k \in DOMAIN entry \ {i} : task'[k] = task[k] /\ rest'[k] = rest[k]
  <2>1. UNCHANGED <<packetsTo, pushCtxDone, object, cache, entry, pushing, doubled>>
    BY DEF PushTask, BuildInput, SkipRefused, Address, Give, Discard, GiveUp, Counted, PushUnchanged, lists
  <2>2. /\ task' = task \/ \E x : task' = [task EXCEPT ![i] = x]
        /\ rest' = rest \/ \E x : rest' = [rest EXCEPT ![i] = x]
    BY DEF PushTask, BuildInput, SkipRefused, Address, Give, Discard, GiveUp, Counted, PushUnchanged
  <2>3. \A k \in DOMAIN entry \ {i} : task'[k] = task[k] /\ rest'[k] = rest[k]
    BY <1>1, <2>2 DEF EntryShape
  <2>q. QED  BY <2>1, <2>3
<1>5. TwiceDoubled'
  BY <1>4 DEF TwiceDoubled, Twice
<1>6. rest[i] # <<>> => /\ Head(rest[i]) \in Objects /\ Contains(rest[i], Head(rest[i])) /\ Increasing(Tail(rest[i]))
                        /\ \A v : Contains(rest[i], v) <=> v = Head(rest[i]) \/ Contains(Tail(rest[i]), v)
                        /\ \A v : Contains(rest[i], v) => Head(rest[i]) <= v
  BY <1>2, ContainsSplit, IncreasingTail
<1>7. ASSUME \A v \in Int : Contains(rest'[i], v) => v <= object,
             \A d \in Nodes : \A v \in Int : Contains(got'[d], v) => v <= object
      PROVE  GivenBelow'
  BY <1>4, <1>7 DEF GivenBelow
\* Between two states in which somebody's mark is taken or not.
<1>8. ASSUME UNCHANGED marked,
             \A d \in Nodes : \A v \in Objects : Contains(got[d], v) => Contains(got'[d], v),
             \A v \in Objects :
               Settled(entry[i]) /\ Undropped(v) /\ WithTask(entry[i], v, i) =>
                 Contains(got'[entry[i]], v) \/ WithTask(entry[i], v, i)'
      PROVE  Gapless'
  <2>1. ASSUME NEW d \in Nodes, NEW v \in Objects, Settled(d)', Contains(cache, v), Undropped(v)
        PROVE  OnItsWay(d, v)'
    <3>1. Settled(d)
      BY <1>4, <1>8, <2>1 DEF Settled, Droppy
    <3>2. OnItsWay(d, v)
      BY <2>1, <3>1 DEF Gapless
    <3>3. CASE Contains(got[d], v)
      BY <1>8, <3>3 DEF OnItsWay
    <3>4. CASE pushing = "lock"
      BY <1>2, <3>4
    <3>5. ASSUME NEW k \in DOMAIN entry, WithTask(d, v, k)  PROVE OnItsWay(d, v)'
      <4>1. CASE k = i
        <5>1. d = entry[i]
          BY <3>5, <4>1 DEF WithTask
        <5>3. Contains(got'[entry[i]], v) \/ WithTask(entry[i], v, i)'
          BY <1>8, <2>1, <3>1, <3>5, <4>1, <5>1
        <5>2. Contains(got'[d], v) \/ WithTask(d, v, i)'
          BY <1>4, <5>1, <5>3 DEF WithTask
        <5>q. QED  BY <1>4, <5>2 DEF OnItsWay
      <4>2. CASE k # i
        <5>1. WithTask(d, v, k)'
          BY <1>4, <3>5, <4>2 DEF WithTask
        <5>q. QED  BY <1>4, <5>1 DEF OnItsWay
      <4>q. QED  BY <4>1, <4>2
    <3>q. QED  BY <3>2, <3>3, <3>4, <3>5 DEF OnItsWay
  <2>q. QED  BY <1>4, <2>1 DEF Gapless, Undropped
<1>9. CASE BuildInput(i)
  <2>1. PICK r : r = IF entry[i] \in marked[Pusher] /\ cache # <<>> THEN cache ELSE <<object>>
    OBVIOUS
  <2>2. /\ task[i] = "build" /\ task' = [task EXCEPT ![i] = "push"] /\ rest' = [rest EXCEPT ![i] = r]
        /\ marked' = [marked EXCEPT ![Pusher] = @ \ {entry[i]}] /\ UNCHANGED got
    BY <1>9, <2>1 DEF BuildInput
  <2>3. task'[i] = "push" /\ rest'[i] = r
    BY <1>1, <2>2 DEF EntryShape
  <2>4. marked'[Pusher] = marked[Pusher] \ {entry[i]}
    BY <2>2, PushAssumption DEF ListsInv, ListsTypeOK
  <2>5. Contains(<<object>>, object) /\ \A v : Contains(<<object>>, v) => v = object
    BY OneContained
  <2>6. \A v \in Int : Contains(r, v) => v <= object
    BY <1>3, <2>1, <2>5
  <2>7. GivenBelow'
    BY <1>7, <2>2, <2>3, <2>6 DEF GivenBelow
  <2>8. ASSUME NEW d \in Nodes, NEW v \in Objects, Settled(d)', Contains(cache, v), Undropped(v)
        PROVE  OnItsWay(d, v)'
    <3>1. CASE d \in marked[Pusher]
      <4>1. d = entry[i]
        BY <2>4, <2>8, <3>1 DEF Settled
      <4>2. cache # <<>>
        BY <2>8, NothingContained
      <4>3. Contains(rest'[i], v)
        BY <2>1, <2>3, <2>8, <3>1, <4>1, <4>2
      <4>4. WithTask(d, v, i)'
        BY <1>4, <2>3, <4>1, <4>3 DEF WithTask
      <4>q. QED  BY <1>4, <4>4 DEF OnItsWay
    <3>2. CASE d \notin marked[Pusher]
      <4>1. Settled(d)
        BY <1>4, <2>8, <3>2 DEF Settled, Droppy
      <4>2. OnItsWay(d, v)
        BY <2>8, <4>1 DEF Gapless
      <4>3. ASSUME NEW k \in DOMAIN entry, WithTask(d, v, k)  PROVE OnItsWay(d, v)'
        <5>1. CASE k = i
          <6>1. d = entry[i] /\ v = object
            BY <2>2, <4>3, <5>1 DEF WithTask
          <6>2. Contains(rest'[i], v)
            BY <2>1, <2>3, <2>5, <3>2, <6>1
          <6>3. WithTask(d, v, i)'
            BY <1>4, <2>3, <6>1, <6>2 DEF WithTask
          <6>q. QED  BY <1>4, <6>3 DEF OnItsWay
        <5>2. CASE k # i
          <6>1. WithTask(d, v, k)'
            BY <1>4, <4>3, <5>2 DEF WithTask
          <6>q. QED  BY <1>4, <6>1 DEF OnItsWay
        <5>q. QED  BY <5>1, <5>2
      <4>4. Contains(got[d], v) => OnItsWay(d, v)'
        BY <2>2 DEF OnItsWay
      <4>q. QED  BY <1>2, <4>2, <4>3, <4>4 DEF OnItsWay
    <3>q. QED  BY <3>1, <3>2
  <2>9. Gapless'
    BY <1>4, <2>8 DEF Gapless, Undropped
  <2>q. QED  BY <1>5, <2>7, <2>9
<1>10. ASSUME UNCHANGED <<marked, got>>, \A v : Contains(rest'[i], v) => Contains(rest[i], v),
              \A v \in Objects :
                Settled(entry[i]) /\ Undropped(v) /\ WithTask(entry[i], v, i) => WithTask(entry[i], v, i)'
       PROVE  TwiceDoubled' /\ GivenBelow' /\ Gapless'
  <2>1. GivenBelow'
    BY <1>7, <1>10 DEF GivenBelow
  <2>2. Gapless'
    BY <1>8, <1>10
  <2>q. QED  BY <1>5, <2>1, <2>2
<1>11. CASE SkipRefused(i)
  <2>1. /\ rest[i] # <<>> /\ <<entry[i], Head(rest[i])>> \in Refused /\ rest' = [rest EXCEPT ![i] = Tail(@)]
        /\ UNCHANGED <<marked, got>>
    BY <1>11 DEF SkipRefused, Pushable, PushUnchanged, lists
  <2>2. rest'[i] = Tail(rest[i])
    BY <1>1, <2>1 DEF EntryShape
  <2>3. ~ Settled(entry[i])
    BY <1>6, <2>1 DEF Settled, Droppy
  <2>q. QED  BY <1>6, <1>10, <2>1, <2>2, <2>3
<1>12. CASE Address(i)
  <2>1. UNCHANGED <<marked, got, task>> /\ (rest' = rest \/ (pushCtxDone /\ rest' = [rest EXCEPT ![i] = <<>>]))
    BY <1>12 DEF Address, PushUnchanged, lists
  <2>2. rest'[i] = rest[i] \/ (pushCtxDone /\ rest'[i] = <<>>)
    BY <1>1, <2>1 DEF EntryShape
  <2>3. CASE rest'[i] = rest[i]
    <3>1. \A v \in Objects : WithTask(entry[i], v, i) => WithTask(entry[i], v, i)'
      BY <1>4, <2>1, <2>3 DEF WithTask
    <3>q. QED  BY <1>10, <2>1, <2>3, <3>1
  <2>4. CASE pushCtxDone /\ rest'[i] = <<>>
    <3>1. ~ Settled(entry[i])
      BY <2>4 DEF Settled
    <3>q. QED  BY <1>10, <2>1, <2>4, <3>1, NothingContained
  <2>q. QED  BY <2>2, <2>3, <2>4
<1>13. CASE Give(i)
  <2>1. /\ task[i] = "push" /\ rest[i] # <<>> /\ rest' = [rest EXCEPT ![i] = Tail(@)]
        /\ got' = [got EXCEPT ![entry[i]] = Append(@, Head(rest[i]))] /\ UNCHANGED <<marked, task>>
    BY <1>13 DEF Give, Pushable, PushUnchanged, lists
  <2>2. rest'[i] = Tail(rest[i]) /\ task'[i] = "push"
    BY <1>1, <2>1 DEF EntryShape
  <2>3. PICK h \in Objects : h = Head(rest[i])
    BY <1>6, <2>1
  <2>4. got \in [Nodes -> Seq(Objects)]
    BY DEF PushTypes, PushShape
  <2>5. /\ \A v : Contains(got'[entry[i]], v) <=> Contains(got[entry[i]], v) \/ v = h
        /\ \A d \in Nodes \ {entry[i]} : got'[d] = got[d]
    <3>1. got'[entry[i]] = Append(got[entry[i]], h) /\ got[entry[i]] \in Seq(Objects)
      BY <1>2, <2>1, <2>3, <2>4
    <3>2. \A v : Contains(Append(got[entry[i]], h), v) <=> Contains(got[entry[i]], v) \/ v = h
      BY <3>1, ContainsAppended
    <3>q. QED  BY <2>1, <2>4, <3>1, <3>2
  <2>6. h \in Int /\ h <= object
    BY <1>6, <2>1, <2>3 DEF GivenBelow, Objects
  <2>7. \A d \in Nodes : \A v \in Int : Contains(got'[d], v) => v <= object
    BY <2>5, <2>6 DEF GivenBelow
  <2>8. \A v \in Int : Contains(rest'[i], v) => v <= object
    BY <1>6, <2>1, <2>2 DEF GivenBelow
  <2>9. \A d \in Nodes : \A v \in Objects : Contains(got[d], v) => Contains(got'[d], v)
    BY <2>5
  <2>10. \A v \in Objects : WithTask(entry[i], v, i) => Contains(got'[entry[i]], v) \/ WithTask(entry[i], v, i)'
    BY <1>4, <1>6, <2>1, <2>2, <2>3, <2>5 DEF WithTask
  <2>q. QED  BY <1>5, <1>7, <1>8, <2>1, <2>7, <2>8, <2>9, <2>10
<1>14. CASE Discard(i)
  <2>1. /\ rest[i] # <<>> /\ entry[i] \in Discarding /\ rest' = [rest EXCEPT ![i] = Tail(@)]
        /\ UNCHANGED <<marked, got>>
    BY <1>14 DEF Discard, Pushable, PushUnchanged, lists
  <2>2. rest'[i] = Tail(rest[i]) /\ ~ Settled(entry[i])
    BY <1>1, <2>1 DEF EntryShape, Settled
  <2>q. QED  BY <1>6, <1>10, <2>1, <2>2
<1>15. CASE GiveUp(i)
  <2>1. /\ rest[i] # <<>> /\ rest' = [rest EXCEPT ![i] = <<>>] /\ UNCHANGED <<marked, got>> /\ task[i] = "push"
        /\ <<entry[i], Head(rest[i])>> \in Filtered \/ object \in Droppable \/ pushCtxDone
    BY <1>15 DEF GiveUp, Pushable, PushUnchanged, lists
  <2>2. rest'[i] = <<>>
    BY <1>1, <2>1 DEF EntryShape
  <2>3. ASSUME NEW v \in Objects, Settled(entry[i]), Undropped(v), WithTask(entry[i], v, i)  PROVE FALSE
    <3>1. Contains(rest[i], v)
      BY <2>1, <2>3 DEF WithTask
    <3>2. object \in Droppable
      BY <1>6, <2>1, <2>3 DEF Settled, Droppy
    <3>3. v \in Int /\ object \in Int /\ v <= object
      BY <1>3, <2>3, <3>1, PushAssumption DEF GivenBelow, Objects
    <3>q. QED  BY <2>3, <3>2, <3>3 DEF Undropped
  <2>q. QED  BY <1>10, <2>1, <2>2, <2>3, NothingContained
<1>16. CASE Counted(i)
  <2>1. task[i] = "push" /\ rest[i] = <<>> /\ UNCHANGED <<marked, got, rest>>
    BY <1>16 DEF Counted, lists
  <2>2. \A v : ~ WithTask(entry[i], v, i)
    BY <2>1, NothingContained DEF WithTask
  <2>q. QED  BY <1>10, <2>1, <2>2
<1>q. QED  BY <1>9, <1>11, <1>12, <1>13, <1>14, <1>15, <1>16 DEF PushTask

\* Every step of the node, its tasks and its editor leaves no gap.
LEMMA PushersLeaveNoGap ==
  ASSUME ListsInv, PushTypes, TwiceDoubled, GivenBelow, Gapless, PushNext
  PROVE  TwiceDoubled' /\ GivenBelow' /\ Gapless'
<1>1. EntryShape /\ SentBehind /\ CacheShape /\ PushShape
  BY DEF PushTypes
<1>2. object \in Int /\ cache \in Seq(Video)
  BY <1>1 DEF SentBehind, CacheShape
<1>3. ASSUME UNCHANGED <<packetsTo, doubled>>  PROVE TwiceDoubled'
  BY <1>3 DEF TwiceDoubled, Twice
<1>4. ASSUME UNCHANGED <<entry, rest, got>>, object' \in Int, object <= object'  PROVE GivenBelow'
  <2>1. ASSUME NEW v \in Int, v <= object  PROVE v <= object'
    BY <1>2, <1>4, <2>1
  <2>q. QED  BY <1>4, <2>1 DEF GivenBelow
<1>5. \A v : (\E i \in DOMAIN entry : TRUE) => pushing \in {"spawned", "wait"}
  BY <1>1 DEF EntryShape
<1>6. CASE Pull
  <2>1. /\ pushing = "pull" /\ object' = object + 1 /\ pushing' = "lock"
        /\ cache' = cache \/ (object' \in Video /\ cache' = Append(cache, object'))
        /\ UNCHANGED <<packetsTo, marked, doubled, pushCtxDone, entry, rest, got>>
    BY <1>6 DEF Pull, lists
  <2>2. object <= object' /\ object' \in Int
    BY <1>2, <2>1
  <2>3. ASSUME NEW d \in Nodes, NEW v \in Objects, Settled(d)', Contains(cache', v), Undropped(v)'
        PROVE  OnItsWay(d, v)'
    <3>1. CASE Contains(cache, v)
      <4>1. Settled(d)
        BY <2>1, <2>3 DEF Settled, Droppy
      <4>r. Undropped(v)
        <5>1. \A o \in Droppable : o \in Int /\ (o <= object => o <= object')
          BY <1>2, <2>1, PushAssumption DEF Objects
        <5>q. QED  BY <2>3, <5>1 DEF Undropped
      <4>2. OnItsWay(d, v)
        BY <2>3, <3>1, <4>1, <4>r DEF Gapless
      <4>3. Contains(got[d], v)
        BY <1>5, <2>1, <4>2 DEF OnItsWay
      <4>q. QED  BY <2>1, <4>3 DEF OnItsWay
    <3>2. CASE ~ Contains(cache, v)
      <4>1. object' \in Video /\ cache' = Append(cache, object')
        BY <2>1, <2>3, <3>2
      <4>2. v = object'
        BY <1>2, <2>3, <3>2, <4>1, ContainsAppended
      <4>q. QED  BY <2>1, <4>2 DEF OnItsWay
    <3>q. QED  BY <3>1, <3>2
  <2>4. Gapless'
    BY <2>3 DEF Gapless, Undropped
  <2>q. QED  BY <1>3, <1>4, <2>1, <2>2, <2>4
<1>7. CASE TakeList
  <2>1. /\ pushing = "lock" /\ entry' = packetsTo[Pusher]
        /\ task' = [i \in DOMAIN entry' |-> "build"] /\ rest' = [i \in DOMAIN entry' |-> <<>>]
        /\ UNCHANGED <<packetsTo, marked, doubled, pushCtxDone, object, cache, got>>
    BY <1>7 DEF TakeList, lists
  <2>2. \A i \in DOMAIN entry' : rest'[i] = <<>> /\ task'[i] = "build"
    BY <2>1
  <2>3. GivenBelow'
    BY <2>1, <2>2, NothingContained DEF GivenBelow
  <2>4. ASSUME NEW d \in Nodes, NEW v \in Objects, Settled(d)', Contains(cache', v), Undropped(v)
        PROVE  OnItsWay(d, v)'
    <3>1. Settled(d)
      BY <2>1, <2>4 DEF Settled, Droppy
    <3>2. OnItsWay(d, v)
      BY <2>1, <2>4, <3>1 DEF Gapless
    <3>3. CASE Contains(got[d], v)
      BY <2>1, <3>3 DEF OnItsWay
    <3>4. CASE v = object
      <4>1. PICK i \in DOMAIN entry' : entry'[i] = d
        BY <2>1, <3>1 DEF Settled, ToSet
      <4>2. WithTask(d, v, i)'
        BY <2>1, <2>2, <3>4, <4>1 DEF WithTask
      <4>q. QED  BY <4>1, <4>2 DEF OnItsWay
    <3>q. QED  BY <1>5, <2>1, <3>2, <3>3, <3>4 DEF OnItsWay
  <2>5. Gapless'
    BY <2>1, <2>4 DEF Gapless, Undropped
  <2>q. QED  BY <1>3, <2>1, <2>3, <2>5
<1>8. CASE Joined
  <2>1. /\ pushing = "wait" /\ entry' = <<>> /\ \A i \in DOMAIN entry : task[i] = "done"
        /\ UNCHANGED <<packetsTo, marked, doubled, pushCtxDone, object, cache, got>>
    BY <1>8 DEF Joined, lists
  <2>2. GivenBelow'
    BY <2>1 DEF GivenBelow
  <2>3. ASSUME NEW d \in Nodes, NEW v \in Objects, Settled(d)', Contains(cache', v), Undropped(v)
        PROVE  OnItsWay(d, v)'
    <3>1. Settled(d)
      BY <2>1, <2>3 DEF Settled, Droppy
    <3>2. OnItsWay(d, v)
      BY <2>1, <2>3, <3>1 DEF Gapless
    <3>3. Contains(got[d], v)
      BY <2>1, <3>2 DEF OnItsWay, WithTask
    <3>q. QED  BY <2>1, <3>3 DEF OnItsWay
  <2>4. Gapless'
    BY <2>1, <2>3 DEF Gapless, Undropped
  <2>q. QED  BY <1>3, <2>1, <2>2, <2>4
<1>9. CASE PushReturns
  <2>1. /\ cache' = <<>> /\ UNCHANGED <<packetsTo, doubled, object, entry, rest, got>>
    BY <1>9 DEF PushReturns
  <2>2. Gapless'
    BY <2>1, NothingContained DEF Gapless
  <2>q. QED  BY <1>2, <1>3, <1>4, <2>1, <2>2
<1>10. CASE Unlock \/ WantEdit \/ \E d \in Nodes : Consume(d)
  <2>1. /\ UNCHANGED <<packetsTo, marked, doubled, pushCtxDone, object, cache, entry, task, rest, got>>
        /\ pushing' = pushing \/ (pushing = "spawned" /\ pushing' = "wait")
    BY <1>10 DEF Unlock, WantEdit, Consume, lists
  <2>2. Gapless'
    BY <2>1 DEF Gapless, Settled, Droppy, Undropped, OnItsWay, WithTask
  <2>q. QED  BY <1>2, <1>3, <1>4, <2>1, <2>2
<1>11. CASE EndPushing
  <2>1. pushCtxDone' /\ UNCHANGED <<packetsTo, doubled, object, entry, rest, got>>
    BY <1>11 DEF EndPushing, lists
  <2>2. Gapless'
    BY <2>1 DEF Gapless, Settled
  <2>q. QED  BY <1>2, <1>3, <1>4, <2>1, <2>2
<1>12. CASE LockAndEdit
  <2>1. /\ doubled' = doubled \cup Twice(packetsTo'[Pusher])
        /\ UNCHANGED <<pushCtxDone, pushing, object, cache, entry, task, rest, got>>
    BY <1>12 DEF LockAndEdit
  <2>2. TwiceDoubled'
    BY <2>1 DEF TwiceDoubled, Twice
  <2>3. Gapless'
    <3>1. CASE Pusher \notin CachingNodes
      <4>1. cache' = <<>>
        BY <1>1, <2>1, <3>1 DEF CacheShape
      <4>q. QED  BY <4>1, NothingContained DEF Gapless
    <3>2. CASE Pusher \in CachingNodes
      <4>1. \A d : Settled(d)' => Settled(d)
        BY <1>12, <3>2, EditSettles
      <4>q. QED  BY <2>1, <4>1 DEF Gapless, Undropped, OnItsWay, WithTask
    <3>q. QED  BY <3>1, <3>2
  <2>q. QED  BY <1>2, <1>4, <2>1, <2>2, <2>3
<1>q. QED  BY <1>6, <1>7, <1>8, <1>9, <1>10, <1>11, <1>12, TasksLeaveNoGap DEF PushNext, PushStep

\* A push starts with its invariant.
LEMMA PushInitially ==
  ASSUME PushInit, ListsInit
  PROVE  PushTypes /\ Accounted /\ GivenBelow /\ Gapless /\ TwiceDoubled
<1>1. PushTypes
  BY PushTypesInitially
<1>2. entry = <<>> /\ cache = <<>> /\ \A d \in Nodes : got[d] = <<>> /\ addressed[d] = 0 /\ received[d] = 0 /\ missed[d] = 0
  BY DEF PushInit
<1>3. Accounted
  <2>1. \A d, h : IsFiniteSet(Owed(d, h)) /\ Debt(d, h) = 0
    BY <1>2, NothingOwed
  <2>2. Len(<<>>) = 0
    BY EmptySeq
  <2>3. \A d \in Nodes : Debt(d, "addressed") = 0 /\ Debt(d, "received") = 0 /\ Debt(d, "missed") = 0 /\ Finite(d)
    BY <2>1 DEF Finite
  <2>q. QED  BY <1>2, <2>2, <2>3 DEF Accounted, Account
<1>4. GivenBelow /\ Gapless
  BY <1>2, NothingContained DEF GivenBelow, Gapless
<1>5. TwiceDoubled
  BY DEF PushInit, ListsInit, TwiceDoubled
<1>q. QED  BY <1>1, <1>3, <1>4, <1>5

----------------------------------------------------------------------------
(* Router.                                                                 *)

RouteRecords == [path : Paths, owner : Publishers, open : BOOLEAN, publishers : SUBSET Publishers]
SomeRoute == 0..Len(routes)
SourceStages == Opening \cup {"absent", "new", "open", "failed", "stop", "closed"}
ForwardStages == {"absent", "new", "idle", "get", "output", "add", "evict", "start", "stuck"}
ConsumerStages == {"absent", "get", "load_routes", "wait_route", "load", "list", "wait_publisher", "done"}

RegistryTypes ==
  /\ routes \in Seq(RouteRecords) /\ Len(routes) <= MaxRoutes
  /\ byPath \in [Paths -> SomeRoute] /\ waitGroup \in SomeRoute
  /\ closing \subseteq RouteIds /\ onClose \subseteq RouteIds /\ stuck \subseteq RouteIds
  /\ removals \subseteq RouteIds /\ removing \subseteq RouteIds
SourceTyped ==
  /\ source \in [Sources -> [at : SourceStages, route : SomeRoute, pushes : SomeRoute]]
  /\ \A s \in Sources : source[s].at \notin {"absent", "new"} => source[s].route # NoRoute
ForwardTyped ==
  /\ forward \in [at : ForwardStages, known : BOOLEAN, from : SomeRoute, to : SomeRoute, target : SomeRoute,
                  pushes : SomeRoute]
  /\ forward.at \in {"add", "evict", "start"} => forward.target # NoRoute
  /\ waiter \in [at : {"none", "wait", "stopped"}, from : SomeRoute]
  /\ waiter.at = "wait" => waiter.from # NoRoute
DealingsTyped ==
  ended \subseteq Publishers /\ wanted \subseteq Publishers /\ evicts \in [Publishers -> SUBSET Publishers]
ConsumerTyped ==
  /\ consumer \in [at : ConsumerStages, route : SomeRoute, told : BOOLEAN]
  /\ consumer.at \in {"load", "list", "wait_publisher", "done"} => consumer.route # NoRoute

\* A source that has been added to its route is on its list, or was taken over.
TakenOver(s) == \E p \in Publishers : s \in evicts[p]
SourceListed(s) ==
  /\ source[s].at \in {"evict", "start", "open"} => s \in routes[source[s].route].publishers \/ TakenOver(s)
  /\ source[s].pushes # NoRoute =>
       /\ source[s].at \in {"open", "stop", "closed"} /\ source[s].pushes = source[s].route
       /\ source[s].at = "closed" => TakenOver(s)

\* The forwarding is on the list of its output, of one that it is about to have,
\* or of one that is being closed.
ForwardListed ==
  \A r \in RouteIds : Forwarder \in routes[r].publishers =>
    r \in removing \/ forward.to = r \/ (forward.at \in {"evict", "start"} /\ forward.target = r)
ForwardStops ==
  /\ Forwarder \in ended => forward.at \in {"absent", "new", "idle", "get"} /\ forward.to = NoRoute /\ forward.pushes = NoRoute
  /\ forward.at \in {"absent", "new", "get", "output", "add", "evict", "stuck"} =>
       forward.to = NoRoute /\ forward.pushes = NoRoute
  /\ forward.at = "start" => forward.pushes = NoRoute /\ forward.to = forward.target
  /\ waiter.at = "stopped" => forward.at = "idle" /\ forward.to = NoRoute /\ forward.pushes = NoRoute
  /\ forward.at \in {"absent", "new", "get"} => waiter.at = "none"

RouterTypes == RegistryTypes /\ SourceTyped /\ ForwardTyped /\ DealingsTyped /\ ConsumerTyped
RouterInv ==
  /\ RouterTypes /\ ExclusiveIsAlone /\ WaitGroupCovers /\ (\A s \in Sources : SourceListed(s)) /\ ForwardListed /\ ForwardStops

\* What a step does to the routes: A may be added to one, D may leave one.
Moves(A, D) ==
  /\ routes' \in Seq(RouteRecords) /\ Len(routes) <= Len(routes') /\ Len(routes') <= MaxRoutes
  /\ \A q \in Publishers \ D : \A r \in RouteIds :
       q \in routes[r].publishers => q \in routes'[r].publishers \/ TakenOver(q)'
  /\ \A q \in Publishers \ A : \A r \in RouteIds' :
       q \in routes'[r].publishers => r \in RouteIds /\ q \in routes[r].publishers
  /\ \A q : TakenOver(q) => TakenOver(q)'
  /\ ExclusiveIsAlone'
Listed == {p \in Paths : byPath[p] # NoRoute}
Registered == byPath \in [Paths -> SomeRoute] /\ waitGroup \in SomeRoute /\ WaitGroupCovers

\* The numbers of the routes.
LEMMA RouteNumbers ==
  ASSUME RegistryTypes
  PROVE  /\ Len(routes) \in Nat /\ MaxRoutes \in Nat /\ RouteIds = DOMAIN routes /\ NoRoute \in SomeRoute
         /\ RouteIds \subseteq SomeRoute /\ NoRoute \notin RouteIds
         /\ \A r \in SomeRoute : r # NoRoute => r \in RouteIds
         /\ \A r \in RouteIds : routes[r] \in RouteRecords /\ routes[r].path \in Paths /\ routes[r].publishers \subseteq Publishers
<1>1. routes \in Seq(RouteRecords)
  BY DEF RegistryTypes
<1>2. Len(routes) \in Nat /\ DOMAIN routes = 1..Len(routes) /\ MaxRoutes \in Nat
  BY <1>1, RouterAssumption
<1>3. \A r \in RouteIds : routes[r] \in RouteRecords
  BY <1>1, <1>2 DEF RouteIds
<1>4. /\ NoRoute \in SomeRoute /\ RouteIds \subseteq SomeRoute /\ NoRoute \notin RouteIds
      /\ \A r \in SomeRoute : r # NoRoute => r \in RouteIds
  BY <1>2 DEF NoRoute, SomeRoute, RouteIds
<1>q. QED  BY <1>2, <1>3, <1>4 DEF RouteIds, RouteRecords

\* They are as many or more.
LEMMA NumbersGrow ==
  ASSUME RegistryTypes, routes' \in Seq(RouteRecords), Len(routes) <= Len(routes')
  PROVE  /\ RouteIds \subseteq RouteIds' /\ SomeRoute \subseteq SomeRoute' /\ Len(routes') \in Nat
         /\ \A r \in SomeRoute' : r # NoRoute => r \in RouteIds'
         /\ RouteIds' \subseteq SomeRoute' /\ NoRoute \in SomeRoute'
<1>1. Len(routes) \in Nat /\ Len(routes') \in Nat
  BY RouteNumbers
<1>q. QED  BY <1>1 DEF RouteIds, SomeRoute, NoRoute

\* Of the paths there are two.
LEMMA PathsCounted ==
  /\ IsFiniteSet(Paths)
  /\ \A S : S \subseteq Paths => IsFiniteSet(S) /\ Cardinality(S) \in Nat
  /\ \A S : S \subseteq Paths => \A p \in S : Cardinality(S \ {p}) = Cardinality(S) - 1
  /\ \A S : S \subseteq Paths => \A p \in Paths \ S : Cardinality(S \cup {p}) = Cardinality(S) + 1
<1>1. IsFiniteSet({From}) /\ IsFiniteSet({From} \cup {To})
  BY FS_EmptySet, FS_AddElement, FS_Singleton
<1>2. Paths = {From} \cup {To}
  BY DEF Paths
<1>3. IsFiniteSet(Paths)
  BY <1>1, <1>2
<1>4. \A S : S \subseteq Paths => IsFiniteSet(S) /\ Cardinality(S) \in Nat
  BY <1>3, FS_Subset, FS_CardinalityType
<1>q. QED  BY <1>3, <1>4, FS_RemoveElement, FS_AddElement

\* The routes are as they were.
LEMMA RoutesRest ==
  ASSUME RouterInv, UNCHANGED routes, \A q : TakenOver(q) => TakenOver(q)'
  PROVE  Moves({}, {})
<1>1. routes \in Seq(RouteRecords) /\ Len(routes) \in Nat /\ Len(routes) <= MaxRoutes
  BY RouteNumbers DEF RouterInv, RouterTypes, RegistryTypes
<1>2. ExclusiveIsAlone'
  BY DEF RouterInv, ExclusiveIsAlone, RouteIds
<1>q. QED  BY <1>1, <1>2 DEF Moves, RouteIds

\* The publishers of one route change; it may be closed.
LEMMA OneRouteMoves ==
  ASSUME RouterInv, NEW r \in RouteIds, NEW new \in RouteRecords, NEW A, NEW D,
         routes' = [routes EXCEPT ![r] = new],
         \A q : TakenOver(q) => TakenOver(q)',
         \A q \in Publishers \ D : q \in routes[r].publishers => q \in new.publishers \/ TakenOver(q)',
         \A q \in Publishers \ A : q \in new.publishers => q \in routes[r].publishers,
         \A q \in new.publishers : Exclusive(q) => new.publishers = {q}
  PROVE  Moves(A, D)
<1>1. routes \in Seq(RouteRecords) /\ Len(routes) \in Nat /\ Len(routes) <= MaxRoutes /\ RouteIds = DOMAIN routes
  BY RouteNumbers DEF RouterInv, RouterTypes, RegistryTypes
<1>2. routes' \in Seq(RouteRecords) /\ Len(routes') = Len(routes)
  BY <1>1
<1>3. /\ routes'[r] = new
      /\ \A l \in RouteIds : l # r => routes'[l] = routes[l]
  BY <1>1
<1>4. RouteIds' = RouteIds
  BY <1>2 DEF RouteIds
<1>5. ExclusiveIsAlone'
  <2>1. ExclusiveIsAlone
    BY DEF RouterInv
  <2>q. QED  BY <1>3, <1>4, <2>1 DEF ExclusiveIsAlone, Exclusive
<1>q. QED  BY <1>1, <1>2, <1>3, <1>4, <1>5 DEF Moves

\* createRoute
LEMMA CreateMoves ==
  ASSUME RouterInv, NEW here \in Paths, NEW p \in Publishers, GetOrCreate(here, p), UNCHANGED evicts
  PROVE  /\ Moves({}, {}) /\ Registered' /\ Found(here) \in RouteIds'
         /\ consumer' \in {consumer, [consumer EXCEPT !.told = TRUE]}
<1>1. /\ RegistryTypes /\ routes \in Seq(RouteRecords) /\ Len(routes) \in Nat /\ Len(routes) <= MaxRoutes
      /\ byPath \in [Paths -> SomeRoute] /\ waitGroup \in SomeRoute /\ WaitGroupCovers
  BY RouteNumbers DEF RouterInv, RouterTypes, RegistryTypes
<1>2. \A q : TakenOver(q) => TakenOver(q)'
  BY DEF TakenOver
<1>3. CASE byPath[here] # NoRoute
  <2>1. UNCHANGED <<routes, byPath, waitGroup, consumer>>
    BY <1>3 DEF GetOrCreate
  <2>2. Registered'
    BY <1>1, <2>1 DEF Registered, SomeRoute, WaitGroupCovers
  <2>3. Found(here) \in RouteIds'
    BY <1>1, <1>3, <2>1, RouteNumbers DEF Found, RouteIds
  <2>q. QED  BY <1>2, <2>1, <2>2, <2>3, RoutesRest
<1>4. CASE byPath[here] = NoRoute
  <2>1. /\ Len(routes) < MaxRoutes /\ routes' = Append(routes, NewRoute(here, p))
        /\ byPath' = [byPath EXCEPT ![here] = Len(routes) + 1] /\ waitGroup' = waitGroup + 1
        /\ TellRoutesChanged
    BY <1>4 DEF GetOrCreate
  <2>2. NewRoute(here, p) \in RouteRecords /\ NewRoute(here, p).publishers = {}
    BY DEF NewRoute, RouteRecords
  <2>3. /\ routes' \in Seq(RouteRecords) /\ Len(routes') = Len(routes) + 1 /\ MaxRoutes \in Nat
        /\ routes'[Len(routes) + 1] = NewRoute(here, p)
        /\ \A l \in RouteIds : routes'[l] = routes[l]
    BY <1>1, <2>1, <2>2, RouterAssumption DEF RouteIds
  <2>4. RouteIds' = RouteIds \cup {Len(routes) + 1}
    BY <1>1, <2>3 DEF RouteIds
  <2>5. ExclusiveIsAlone'
    <3>1. ExclusiveIsAlone
      BY DEF RouterInv
    <3>q. QED  BY <2>2, <2>3, <2>4, <3>1 DEF ExclusiveIsAlone, Exclusive
  <2>6. Len(routes) <= Len(routes') /\ Len(routes') <= MaxRoutes
    BY <1>1, <2>1, <2>3
  <2>7. Moves({}, {})
    BY <1>2, <2>2, <2>3, <2>4, <2>5, <2>6 DEF Moves
  <2>8. Found(here) \in RouteIds'
    BY <1>4, <2>4 DEF Found
  <2>9. byPath' \in [Paths -> SomeRoute'] /\ waitGroup' \in SomeRoute'
    BY <1>1, <2>1, <2>3 DEF SomeRoute
  <2>10. WaitGroupCovers'
    <3>1. Listed' = Listed \cup {here} /\ here \notin Listed /\ Listed \subseteq Paths
      BY <1>1, <1>4, <2>1 DEF Listed, NoRoute
    <3>2. Cardinality(Listed') = Cardinality(Listed) + 1 /\ Cardinality(Listed) \in Nat
      BY <3>1, PathsCounted
    <3>3. waitGroup >= Cardinality(Listed) /\ waitGroup \in Nat
      BY <1>1 DEF WaitGroupCovers, Listed, SomeRoute
    <3>4. waitGroup' >= Cardinality(Listed')
      BY <2>1, <3>2, <3>3
    <3>q. QED  BY <3>4 DEF WaitGroupCovers, Listed
  <2>11. consumer' \in {consumer, [consumer EXCEPT !.told = TRUE]}
    BY <2>1 DEF TellRoutesChanged, Tell
  <2>q. QED  BY <2>7, <2>8, <2>9, <2>10, <2>11 DEF Registered
<1>q. QED  BY <1>3, <1>4

\* removeRouteLocked, and with or without the WaitGroup.
LEMMA UnlistMoves ==
  ASSUME RouterInv, NEW r \in RouteIds, IsListed(r), Unlist(r), waitGroup' \in {waitGroup, waitGroup - 1}, UNCHANGED routes
  PROVE  Registered' /\ closing' = closing \cup {r} /\ consumer' \in {consumer, [consumer EXCEPT !.told = TRUE]}
<1>1. /\ byPath \in [Paths -> SomeRoute] /\ waitGroup \in SomeRoute /\ WaitGroupCovers /\ Len(routes) \in Nat
      /\ routes[r].path \in Paths /\ r # NoRoute
  BY RouteNumbers DEF RouterInv, RouterTypes, RegistryTypes
<1>2. /\ byPath' = [byPath EXCEPT ![routes[r].path] = NoRoute] /\ closing' = closing \cup {r}
      /\ consumer' \in {consumer, [consumer EXCEPT !.told = TRUE]}
  BY DEF Unlist, TellRoutesChanged, Tell
<1>3. byPath[routes[r].path] = r
  BY DEF IsListed
<1>4. Listed' = Listed \ {routes[r].path} /\ routes[r].path \in Listed /\ Listed \subseteq Paths
  BY <1>1, <1>2, <1>3 DEF Listed, NoRoute
<1>5. Cardinality(Listed') = Cardinality(Listed) - 1 /\ Cardinality(Listed) \in Nat /\ Cardinality(Listed') \in Nat
  <2>1. Listed' \subseteq Paths
    BY <1>4
  <2>q. QED  BY <1>4, <2>1, PathsCounted
<1>6. waitGroup >= Cardinality(Listed) /\ waitGroup \in 0..Len(routes)
  BY <1>1 DEF WaitGroupCovers, Listed, SomeRoute
<1>7. waitGroup' >= Cardinality(Listed') /\ waitGroup' \in 0..Len(routes)
  BY <1>1, <1>5, <1>6
<1>8. byPath' \in [Paths -> SomeRoute]
  BY <1>1, <1>2, RouteNumbers DEF RouterInv, RouterTypes
<1>9. SomeRoute' = SomeRoute
  BY DEF SomeRoute
<1>q. QED  BY <1>2, <1>7, <1>8, <1>9 DEF Registered, WaitGroupCovers, Listed, SomeRoute

\* RemoveRoute
LEMMA RemoveMoves ==
  ASSUME RouterInv, NEW r \in RouteIds, RemoveRoute(r), UNCHANGED routes
  PROVE  /\ Registered' /\ closing' \in {closing, closing \cup {r}}
         /\ consumer' \in {consumer, [consumer EXCEPT !.told = TRUE]}
<1>1. CASE IsListed(r)
  BY <1>1, UnlistMoves DEF RemoveRoute
<1>2. CASE ~ IsListed(r)
  <2>1. UNCHANGED <<byPath, closing, waitGroup, consumer>>
    BY <1>2 DEF RemoveRoute
  <2>q. QED  BY <2>1 DEF RouterInv, RouterTypes, RegistryTypes, Registered, SomeRoute, WaitGroupCovers
<1>q. QED  BY <1>1, <1>2

\* The paths stay as they are.
LEMMA PathsRest ==
  ASSUME RouterInv, UNCHANGED <<byPath, waitGroup>>, routes' \in Seq(RouteRecords), Len(routes) <= Len(routes')
  PROVE  Registered'
<1>1. SomeRoute \subseteq SomeRoute'
  BY NumbersGrow DEF RouterInv, RouterTypes
<1>q. QED  BY <1>1 DEF RouterInv, RouterTypes, RegistryTypes, Registered, WaitGroupCovers

\* closeNodeLocked
LEMMA CloseMoves ==
  ASSUME RouterInv, NEW r \in RouteIds, CloseNode(r), UNCHANGED evicts
  PROVE  /\ Moves({}, {}) /\ onClose' = onClose \cup {r} /\ consumer' \in {consumer, [consumer EXCEPT !.told = TRUE]}
<1> DEFINE new == [routes[r] EXCEPT !.open = FALSE]
<1>1. routes \in Seq(RouteRecords) /\ routes[r] \in RouteRecords /\ ExclusiveIsAlone
  BY RouteNumbers DEF RouterInv, RouterTypes, RegistryTypes
<1>2. routes' = [routes EXCEPT ![r] = new]
  BY DEF CloseNode
<1>3. new \in RouteRecords /\ new.publishers = routes[r].publishers
  BY <1>1 DEF RouteRecords
<1>4. \A q : TakenOver(q) => TakenOver(q)'
  BY DEF TakenOver
<1>5. \A q \in new.publishers : Exclusive(q) => new.publishers = {q}
  BY <1>1, <1>3 DEF ExclusiveIsAlone
<1>6. Moves({}, {})
  <2> HIDE DEF new
  <2>q. QED  BY <1>2, <1>3, <1>4, <1>5, OneRouteMoves
<1>q. QED  BY <1>6 DEF CloseNode, TellPublishersChanged, Tell

\* AddPublisher: whoever is added is on the list of this route and, if it was not before,
\* of no other; those who leave it are taken over.
LEMMA AddMoves ==
  ASSUME RouterInv, NEW p \in Publishers, NEW r \in RouteIds, AddPublisher(p, r)
  PROVE  /\ Moves(IF Outcome(p, r) = "added" THEN {p} ELSE {}, {})
         /\ Outcome(p, r) = "added" =>
              /\ p \in routes'[r].publishers
              /\ \A l \in RouteIds' : p \in routes'[l].publishers => l = r \/ p \in routes[l].publishers
         /\ wanted' \subseteq Publishers /\ evicts' \in [Publishers -> SUBSET Publishers]
         /\ stuck' \subseteq RouteIds /\ RouteIds' = RouteIds
         /\ consumer' \in {consumer, [consumer EXCEPT !.told = TRUE]}
<1>1. /\ routes \in Seq(RouteRecords) /\ routes[r] \in RouteRecords /\ ExclusiveIsAlone /\ RouteIds = DOMAIN routes
      /\ routes[r].publishers \subseteq Publishers /\ evicts \in [Publishers -> SUBSET Publishers]
      /\ wanted \subseteq Publishers /\ stuck \subseteq RouteIds
  BY RouteNumbers DEF RouterInv, RouterTypes, RegistryTypes, DealingsTyped
<1>2. Rivals(p, r) \subseteq routes[r].publishers
  BY DEF Rivals
<1>3. CASE Outcome(p, r) = "added"
  <2> DEFINE new == [routes[r] EXCEPT !.publishers = (@ \ Rivals(p, r)) \cup {p}]
  <2>1. /\ routes' = [routes EXCEPT ![r] = new]
        /\ wanted' = wanted \cup Rivals(p, r) /\ evicts' = [evicts EXCEPT ![p] = @ \cup Rivals(p, r)]
        /\ stuck' = stuck /\ TellPublishersChanged(r)
    BY <1>3 DEF AddPublisher, Added
  <2>2. new \in RouteRecords /\ new.publishers = (routes[r].publishers \ Rivals(p, r)) \cup {p}
    BY <1>1 DEF RouteRecords
  <2>3. \A q : TakenOver(q) => TakenOver(q)'
    BY <1>1, <2>1 DEF TakenOver
  <2>4. \A q \in Rivals(p, r) : TakenOver(q)'
    BY <1>1, <2>1 DEF TakenOver
  <2>5. \A q \in new.publishers : Exclusive(q) => new.publishers = {q}
    <3>1. Exclusive(p) => Rivals(p, r) = routes[r].publishers
      BY DEF Rivals
    <3>2. ~Exclusive(p) => \A q \in routes[r].publishers \ Rivals(p, r) : ~Exclusive(q)
      BY DEF Rivals
    <3>q. QED  BY <2>2, <3>1, <3>2
  <2>6. Moves({p}, {})
    <3> HIDE DEF new
    <3>q. QED  BY <2>1, <2>2, <2>3, <2>4, <2>5, OneRouteMoves
  <2>7. RouteIds' = RouteIds /\ routes'[r] = new /\ \A l \in RouteIds : l # r => routes'[l] = routes[l]
    <3> HIDE DEF new
    <3>q. QED  BY <1>1, <2>1, <2>2 DEF RouteIds
  <2>8. wanted' \subseteq Publishers /\ evicts' \in [Publishers -> SUBSET Publishers] /\ stuck' \subseteq RouteIds
    BY <1>1, <1>2, <2>1
  <2>9. consumer' \in {consumer, [consumer EXCEPT !.told = TRUE]}
    BY <2>1 DEF TellPublishersChanged, Tell
  <2>10. p \in routes'[r].publishers
    BY <2>2, <2>7
  <2>11. \A l \in RouteIds' : p \in routes'[l].publishers => l = r \/ p \in routes[l].publishers
    <3> HIDE DEF new
    <3>q. QED  BY <2>7
  <2>q. QED  BY <1>3, <2>6, <2>7, <2>8, <2>9, <2>10, <2>11
<1>4. CASE Outcome(p, r) # "added"
  <2>1. /\ UNCHANGED <<routes, evicts, consumer>> /\ wanted' \in {wanted, wanted \cup Rivals(p, r)}
        /\ stuck' \in {stuck, stuck \cup {r}}
    BY <1>4 DEF AddPublisher
  <2>2. \A q : TakenOver(q) => TakenOver(q)'
    BY <2>1 DEF TakenOver
  <2>3. Moves({}, {})
    BY <2>1, <2>2, RoutesRest
  <2>q. QED  BY <1>1, <1>2, <1>4, <2>1, <2>3 DEF RouteIds
<1>q. QED  BY <1>3, <1>4

\* RemovePublisherLocked
LEMMA RemovePublisherMoves ==
  ASSUME RouterInv, NEW p \in Publishers, NEW r \in RouteIds, RemovePublisher(p, r), UNCHANGED evicts
  PROVE  /\ Moves({}, {p}) /\ consumer' \in {consumer, [consumer EXCEPT !.told = TRUE]}
         /\ p \notin routes'[r].publishers /\ RouteIds' = RouteIds
<1>1. /\ routes \in Seq(RouteRecords) /\ routes[r] \in RouteRecords /\ ExclusiveIsAlone /\ RouteIds = DOMAIN routes
      /\ routes[r].publishers \subseteq Publishers
  BY RouteNumbers DEF RouterInv, RouterTypes, RegistryTypes
<1>2. \A q : TakenOver(q) => TakenOver(q)'
  BY DEF TakenOver
<1>3. CASE p \in routes[r].publishers
  <2> DEFINE new == [routes[r] EXCEPT !.publishers = @ \ {p}]
  <2>1. /\ routes' = [routes EXCEPT ![r] = new]
        /\ consumer' \in {consumer, [consumer EXCEPT !.told = TRUE]}
    BY <1>3 DEF RemovePublisher, TellPublishersChanged, Tell
  <2>2. new \in RouteRecords /\ new.publishers = routes[r].publishers \ {p}
    BY <1>1 DEF RouteRecords
  <2>3. \A q \in new.publishers : Exclusive(q) => new.publishers = {q}
    BY <1>1, <2>2 DEF ExclusiveIsAlone
  <2>4. Moves({}, {p})
    <3> HIDE DEF new
    <3>q. QED  BY <1>2, <2>1, <2>2, <2>3, OneRouteMoves
  <2>5. RouteIds' = RouteIds /\ routes'[r] = new
    <3> HIDE DEF new
    <3>q. QED  BY <1>1, <2>1, <2>2 DEF RouteIds
  <2>q. QED  BY <2>1, <2>2, <2>4, <2>5
<1>4. CASE p \notin routes[r].publishers
  <2>1. UNCHANGED <<routes, consumer>>
    BY <1>4 DEF RemovePublisher
  <2>2. Moves({}, {})
    BY <1>2, <2>1, RoutesRest
  <2>q. QED  BY <1>4, <2>1, <2>2 DEF Moves, RouteIds
<1>q. QED  BY <1>3, <1>4

\* The sets of routes are still ones.
LEMMA SetsRest ==
  ASSUME RouterInv, NEW A, NEW D, Moves(A, D)
  PROVE  /\ closing \subseteq RouteIds' /\ onClose \subseteq RouteIds' /\ stuck \subseteq RouteIds'
         /\ removals \subseteq RouteIds' /\ removing \subseteq RouteIds' /\ RouteIds \subseteq RouteIds'
         /\ SomeRoute \subseteq SomeRoute' /\ RouteIds' \subseteq SomeRoute' /\ NoRoute \notin RouteIds'
         /\ \A l \in SomeRoute' : l # NoRoute => l \in RouteIds'
<1>1. RegistryTypes /\ routes' \in Seq(RouteRecords) /\ Len(routes) <= Len(routes')
  BY DEF RouterInv, RouterTypes, Moves
<1>2. NoRoute \notin RouteIds'
  BY DEF RouteIds, NoRoute
<1>q. QED  BY <1>1, <1>2, NumbersGrow DEF RegistryTypes

\* The consumer, if it is told.
LEMMA ConsumerTold ==
  ASSUME RouterInv, NEW A, NEW D, Moves(A, D), consumer' \in {consumer, [consumer EXCEPT !.told = TRUE]}
  PROVE  ConsumerTyped'
<1>1. SomeRoute \subseteq SomeRoute'
  BY SetsRest
<1>2. ConsumerTyped
  BY DEF RouterInv, RouterTypes
<1>3. consumer' \in [at : ConsumerStages, route : SomeRoute', told : BOOLEAN]
  BY <1>1, <1>2 DEF ConsumerTyped
<1>4. consumer'.at = consumer.at /\ consumer'.route = consumer.route
  BY <1>2 DEF ConsumerTyped
<1>q. QED  BY <1>2, <1>3, <1>4 DEF ConsumerTyped

\* A step that does not touch the sources ...
LEMMA SourcesRest ==
  ASSUME RouterInv, NEW A, NEW D, Moves(A, D), NEW s \in Sources, s \notin D, source'[s] = source[s]
  PROVE  /\ SourceListed(s)' /\ source'[s] \in [at : SourceStages, route : SomeRoute', pushes : SomeRoute']
         /\ source'[s].at \notin {"absent", "new"} => source'[s].route # NoRoute
<1>1. /\ SourceListed(s) /\ source[s] \in [at : SourceStages, route : SomeRoute, pushes : SomeRoute]
      /\ source[s].at \notin {"absent", "new"} => source[s].route # NoRoute
  BY DEF RouterInv, RouterTypes, SourceTyped
<1>2. source'[s] \in [at : SourceStages, route : SomeRoute', pushes : SomeRoute']
  BY <1>1, SetsRest
<1>3. source[s].at \in {"evict", "start", "open"} => source[s].route \in RouteIds
  BY <1>1, RouteNumbers DEF RouterInv, RouterTypes
<1>4. s \in Publishers \ D
  BY DEF Publishers
<1>5. \A l \in RouteIds : s \in routes[l].publishers => s \in routes'[l].publishers \/ TakenOver(s)'
  BY <1>4 DEF Moves
<1>6. TakenOver(s) => TakenOver(s)'
  BY DEF Moves
<1>7. SourceListed(s)'
  BY <1>1, <1>3, <1>5, <1>6 DEF SourceListed
<1>q. QED  BY <1>1, <1>2, <1>7

\* ... or the forwarding.
LEMMA ForwardRests ==
  ASSUME RouterInv, NEW A, NEW D, Moves(A, D), Forwarder \notin A, UNCHANGED <<forward, waiter>>,
         removing \subseteq removing', Forwarder \in ended' => Forwarder \in ended
  PROVE  ForwardTyped' /\ ForwardListed' /\ ForwardStops'
<1>1. ForwardTyped /\ ForwardListed /\ ForwardStops
  BY DEF RouterInv, RouterTypes
<1>2. ForwardTyped'
  BY <1>1, SetsRest DEF ForwardTyped
<1>3. ForwardListed'
  <2>1. Forwarder \in Publishers \ A
    BY DEF Publishers
  <2>2. \A l \in RouteIds' : Forwarder \in routes'[l].publishers => l \in RouteIds /\ Forwarder \in routes[l].publishers
    BY <2>1 DEF Moves
  <2>q. QED  BY <1>1, <2>2 DEF ForwardListed
<1>4. ForwardStops'
  BY <1>1 DEF ForwardStops
<1>q. QED  BY <1>2, <1>3, <1>4

\* The registry.
RegistryMoves(A, D) ==
  /\ Moves(A, D) /\ Registered'
  /\ closing' \subseteq RouteIds' /\ onClose' \subseteq RouteIds' /\ stuck' \subseteq RouteIds'
  /\ removals' \subseteq RouteIds' /\ removing' \subseteq RouteIds'
LEMMA Together ==
  ASSUME NEW A, NEW D, RegistryMoves(A, D), SourceTyped', ForwardTyped', DealingsTyped', ConsumerTyped',
         \A s \in Sources : SourceListed(s)', ForwardListed', ForwardStops'
  PROVE  RouterInv'
<1>1. RegistryTypes' /\ WaitGroupCovers' /\ ExclusiveIsAlone'
  BY DEF RegistryMoves, Moves, Registered, RegistryTypes
<1>q. QED  BY <1>1 DEF RouterInv, RouterTypes

\* A step of the registry alone.
LEMMA RegistryStep ==
  ASSUME RouterInv, RegistryMoves({}, {}), ConsumerTyped', UNCHANGED publishing
  PROVE  RouterInv'
<1>1. UNCHANGED <<source, forward, waiter, removing, ended, wanted, evicts>> /\ Moves({}, {})
  BY DEF publishing, RegistryMoves
<1>2. ForwardTyped' /\ ForwardListed' /\ ForwardStops'
  BY <1>1, ForwardRests
<1>3. \A s \in Sources : /\ SourceListed(s)' /\ source[s] \in [at : SourceStages, route : SomeRoute', pushes : SomeRoute']
                         /\ source[s].at \notin {"absent", "new"} => source[s].route # NoRoute
  BY <1>1, SourcesRest
<1>4. SourceTyped'
  BY <1>1, <1>3 DEF SourceTyped, RouterInv, RouterTypes
<1>5. DealingsTyped'
  BY <1>1 DEF DealingsTyped, RouterInv, RouterTypes
<1>q. QED  BY <1>2, <1>3, <1>4, <1>5, Together

\* A step of one source.
LEMMA SourceMoves ==
  ASSUME RouterInv, NEW s \in Sources, NEW A, NEW D, RegistryMoves(A, D), Forwarder \notin A, D \subseteq {s},
         ConsumerTyped', DealingsTyped', SourceListed(s)', UNCHANGED <<forward, waiter, removing>>,
         Forwarder \in ended' => Forwarder \in ended,
         DOMAIN source' = Sources, source' = [t \in Sources |-> source'[t]], \A t \in Sources \ {s} : source'[t] = source[t],
         source'[s] \in [at : SourceStages, route : SomeRoute', pushes : SomeRoute'],
         source'[s].at \notin {"absent", "new"} => source'[s].route # NoRoute
  PROVE  RouterInv'
<1>1. Moves(A, D)
  BY DEF RegistryMoves
<1>2. ForwardTyped' /\ ForwardListed' /\ ForwardStops'
  BY <1>1, ForwardRests
<1>3. \A t \in Sources \ {s} :
        /\ SourceListed(t)' /\ source'[t] \in [at : SourceStages, route : SomeRoute', pushes : SomeRoute']
        /\ source'[t].at \notin {"absent", "new"} => source'[t].route # NoRoute
  BY <1>1, SourcesRest
<1>4. SourceTyped'
  <2>1. \A t \in Sources :
        /\ source'[t] \in [at : SourceStages, route : SomeRoute', pushes : SomeRoute']
        /\ source'[t].at \notin {"absent", "new"} => source'[t].route # NoRoute
    BY <1>3
  <2>q. QED  BY <2>1 DEF SourceTyped
<1>q. QED  BY <1>2, <1>3, <1>4, Together

\* A step of the forwarding.
LEMMA ForwardMoves ==
  ASSUME RouterInv, NEW A, NEW D, RegistryMoves(A, D), D \subseteq {Forwarder}, UNCHANGED source,
         ConsumerTyped', DealingsTyped', ForwardTyped', ForwardListed', ForwardStops'
  PROVE  RouterInv'
<1>1. Moves(A, D) /\ \A s \in Sources : s \notin D
  BY RouterAssumption DEF RegistryMoves
<1>3. \A s \in Sources : /\ SourceListed(s)' /\ source[s] \in [at : SourceStages, route : SomeRoute', pushes : SomeRoute']
                         /\ source[s].at \notin {"absent", "new"} => source[s].route # NoRoute
  BY <1>1, SourcesRest
<1>4. SourceTyped'
  BY <1>1, <1>3 DEF SourceTyped, RouterInv, RouterTypes
<1>q. QED  BY <1>3, <1>4, Together

\* Nothing of the registry changes.
LEMMA RegistryRests ==
  ASSUME RouterInv, UNCHANGED <<routes, byPath, waitGroup, closing, onClose, stuck, removals>>, removing' \subseteq RouteIds,
         \A q : TakenOver(q) => TakenOver(q)'
  PROVE  RegistryMoves({}, {})
<1>1. Moves({}, {})
  BY RoutesRest
<1>2. Registered'
  BY <1>1, PathsRest DEF Moves
<1>q. QED  BY <1>1, <1>2, SetsRest DEF RegistryMoves

\* The steps of a route.
LEMMA RouteSteps ==
  ASSUME RouterInv, NEW r \in RouteIds,
         OwnerEnds(r) \/ CloseRoute(r) \/ RouteClosed(r) \/ UserRemoves(r) \/ UserRemovesByPath(r) \/ ServeEnds(r)
  PROVE  RouterInv'
<1>1. /\ \A q : UNCHANGED evicts => (TakenOver(q) => TakenOver(q)')
      /\ removing \subseteq RouteIds /\ closing \subseteq RouteIds /\ onClose \subseteq RouteIds /\ removals \subseteq RouteIds
      /\ stuck \subseteq RouteIds
  BY DEF TakenOver, RouterInv, RouterTypes, RegistryTypes
<1>2. ASSUME UNCHANGED <<routes, publishing>>  PROVE Moves({}, {}) /\ RouteIds' = RouteIds /\ UNCHANGED <<evicts, removing>>
  BY <1>1, <1>2, RoutesRest DEF publishing, RouteIds
<1>3. CASE OwnerEnds(r) \/ ServeEnds(r)
  <2>1. /\ UNCHANGED <<routes, byPath, waitGroup, onClose, stuck, publishing, consumer>> /\ closing' = closing \cup {r}
        /\ removals' \in {removals, removals \cup {r}}
    BY <1>3 DEF OwnerEnds, ServeEnds
  <2>2. Moves({}, {}) /\ RouteIds' = RouteIds /\ UNCHANGED removing
    BY <1>2, <2>1
  <2>3. Registered'
    BY <2>1, <2>2, PathsRest DEF Moves
  <2>4. RegistryMoves({}, {})
    BY <1>1, <2>1, <2>2, <2>3 DEF RegistryMoves
  <2>q. QED  BY <2>1, <2>2, <2>4, ConsumerTold, RegistryStep
<1>4. CASE UserRemoves(r) \/ RouteClosed(r)
  <2>1. /\ UNCHANGED <<routes, stuck, publishing>> /\ RemoveRoute(r)
        /\ removals' \in {removals, removals \cup {r}} /\ onClose' \in {onClose, onClose \ {r}}
    BY <1>4 DEF UserRemoves, RouteClosed
  <2>2. Moves({}, {}) /\ RouteIds' = RouteIds /\ UNCHANGED removing
    BY <1>2, <2>1
  <2>3. Registered' /\ closing' \in {closing, closing \cup {r}} /\ consumer' \in {consumer, [consumer EXCEPT !.told = TRUE]}
    BY <2>1, RemoveMoves
  <2>4. RegistryMoves({}, {})
    BY <1>1, <2>1, <2>2, <2>3 DEF RegistryMoves
  <2>q. QED  BY <2>1, <2>2, <2>3, <2>4, ConsumerTold, RegistryStep
<1>5. CASE UserRemovesByPath(r)
  <2>1. /\ UNCHANGED <<routes, waitGroup, onClose, stuck, publishing>> /\ IsListed(r) /\ Unlist(r)
        /\ removals' = removals \cup {r}
    BY <1>5 DEF UserRemovesByPath
  <2>2. Moves({}, {}) /\ RouteIds' = RouteIds /\ UNCHANGED removing
    BY <1>2, <2>1
  <2>3. Registered' /\ closing' = closing \cup {r} /\ consumer' \in {consumer, [consumer EXCEPT !.told = TRUE]}
    BY <2>1, UnlistMoves
  <2>4. RegistryMoves({}, {})
    BY <1>1, <2>1, <2>2, <2>3 DEF RegistryMoves
  <2>q. QED  BY <2>1, <2>2, <2>3, <2>4, ConsumerTold, RegistryStep
<1>6. CASE CloseRoute(r)
  <2>1. /\ UNCHANGED <<byPath, waitGroup, stuck, removals, publishing>> /\ closing' = closing \ {r}
        /\ CloseNode(r) \/ UNCHANGED <<routes, onClose, consumer>>
    BY <1>6 DEF CloseRoute
  <2>2. UNCHANGED <<evicts, removing>>
    BY <2>1 DEF publishing
  <2>3. Moves({}, {}) /\ onClose' \subseteq RouteIds /\ consumer' \in {consumer, [consumer EXCEPT !.told = TRUE]}
    <3>1. CASE CloseNode(r)
      BY <1>1, <2>2, <3>1, CloseMoves
    <3>2. CASE UNCHANGED <<routes, onClose, consumer>>
      BY <1>1, <2>1, <1>2, <3>2
    <3>q. QED  BY <2>1, <3>1, <3>2
  <2>4. Registered'
    BY <2>1, <2>3, PathsRest DEF Moves
  <2>5. RouteIds \subseteq RouteIds'
    BY <2>3, SetsRest
  <2>6. RegistryMoves({}, {})
    BY <1>1, <2>1, <2>2, <2>3, <2>4, <2>5 DEF RegistryMoves
  <2>q. QED  BY <2>1, <2>3, <2>6, ConsumerTold, RegistryStep
<1>q. QED  BY <1>3, <1>4, <1>5, <1>6

\* The consumer's.
LEMMA ConsumerSteps == RouterInv /\ ConsumerStep => RouterInv'
<1> SUFFICES ASSUME RouterInv, ConsumerStep  PROVE RouterInv'
  OBVIOUS
<1>1. UNCHANGED <<registry, publishing>>
  BY DEF ConsumerStep, ConsumerGets, LoadRoutesChan, RoutesChanged, LoadPublishersChan, LookForPublisher, PublishersChanged
<1>2. UNCHANGED <<routes, byPath, waitGroup, closing, onClose, stuck, removals, removing, evicts>>
  BY <1>1 DEF registry, publishing
<1>3. RegistryMoves({}, {}) /\ SomeRoute' = SomeRoute
  <2>1. \A q : TakenOver(q) => TakenOver(q)'
    BY <1>2 DEF TakenOver
  <2>q. QED  BY <1>2, <2>1, RegistryRests DEF RouterInv, RouterTypes, RegistryTypes, SomeRoute
<1>4. /\ ConsumerTyped /\ byPath[WaitedPath] \in SomeRoute
  BY RouterAssumption DEF RouterInv, RouterTypes, RegistryTypes
<1>5. ConsumerTyped'
  <2>1. CASE ConsumerGets
    BY <1>3, <1>4, <2>1 DEF ConsumerGets, ConsumerTyped, ConsumerStages
  <2>2. CASE LoadRoutesChan \/ LoadPublishersChan \/ PublishersChanged
    BY <1>3, <1>4, <2>2 DEF LoadRoutesChan, LoadPublishersChan, PublishersChanged, At, ConsumerTyped, ConsumerStages
  <2>3. CASE RoutesChanged
    BY <1>3, <1>4, <2>3 DEF RoutesChanged, ConsumerTyped, ConsumerStages
  <2>4. CASE LookForPublisher
    BY <1>3, <1>4, <2>4 DEF LookForPublisher, ConsumerTyped, ConsumerStages
  <2>q. QED  BY <2>1, <2>2, <2>3, <2>4 DEF ConsumerStep
<1>q. QED  BY <1>1, <1>3, <1>5, RegistryStep

\* A source as it was, as a record.
LEMMA SourceOf ==
  ASSUME RouterInv, NEW s \in Sources
  PROVE  /\ source[s] \in [at : SourceStages, route : SomeRoute, pushes : SomeRoute] /\ SourceListed(s) /\ s \in Publishers
         /\ DOMAIN source = Sources /\ source = [t \in Sources |-> source[t]] /\ s # Forwarder
         /\ source[s].at \notin {"absent", "new"} => source[s].route \in RouteIds
         /\ DealingsTyped /\ ConsumerTyped /\ removing \subseteq RouteIds
<1>1. SourceTyped /\ RegistryTypes
  BY DEF RouterInv, RouterTypes
<1>q. QED  BY <1>1, RouterAssumption, RouteNumbers DEF SourceTyped, RouterInv, RouterTypes, Publishers, RegistryTypes

\* The stage of a source, and what it pushes to, are set.
LEMMA SourceSet ==
  ASSUME RouterInv, NEW s \in Sources, NEW at, NEW to
  PROVE  /\ [source EXCEPT ![s].at = at] = [source EXCEPT ![s] = [at |-> at, route |-> source[s].route, pushes |-> source[s].pushes]]
         /\ [source EXCEPT ![s].pushes = to] = [source EXCEPT ![s] = [at |-> source[s].at, route |-> source[s].route, pushes |-> to]]
         /\ [source[s] EXCEPT !.at = at] = [at |-> at, route |-> source[s].route, pushes |-> source[s].pushes]
         /\ source = [source EXCEPT ![s] = [at |-> source[s].at, route |-> source[s].route, pushes |-> source[s].pushes]]
<1>1. source[s] \in [at : SourceStages, route : SomeRoute, pushes : SomeRoute] /\ DOMAIN source = Sources /\ source = [t \in Sources |-> source[t]]
  BY SourceOf
<1>2. [source EXCEPT ![s].at = at] = [source EXCEPT ![s] = [source[s] EXCEPT !.at = at]]
  BY <1>1
<1>3. [source EXCEPT ![s].pushes = to] = [source EXCEPT ![s] = [source[s] EXCEPT !.pushes = to]]
  BY <1>1
<1>5. source = [source EXCEPT ![s] = source[s]]
  BY <1>1
<1>6. /\ [source[s] EXCEPT !.at = at] = [at |-> at, route |-> source[s].route, pushes |-> source[s].pushes]
      /\ [source[s] EXCEPT !.pushes = to] = [at |-> source[s].at, route |-> source[s].route, pushes |-> to]
      /\ [[source[s] EXCEPT !.at = at] EXCEPT !.pushes = to] = [at |-> at, route |-> source[s].route, pushes |-> to]
      /\ source[s] = [at |-> source[s].at, route |-> source[s].route, pushes |-> source[s].pushes]
  <2> DEFINE rec == source[s]
  <2>0. rec \in [at : SourceStages, route : SomeRoute, pushes : SomeRoute]
    BY <1>1
  <2> HIDE DEF rec
  <2>1. [rec EXCEPT !.at = at] = [at |-> at, route |-> rec.route, pushes |-> rec.pushes]
    BY <2>0
  <2>2. [rec EXCEPT !.pushes = to] = [at |-> rec.at, route |-> rec.route, pushes |-> to]
    BY <2>0
  <2>3. rec = [at |-> rec.at, route |-> rec.route, pushes |-> rec.pushes]
    BY <2>0
  <2>4. [[at |-> at, route |-> rec.route, pushes |-> rec.pushes] EXCEPT !.pushes = to] = [at |-> at, route |-> rec.route, pushes |-> to]
    OBVIOUS
  <2>5. [[rec EXCEPT !.at = at] EXCEPT !.pushes = to] = [at |-> at, route |-> rec.route, pushes |-> to]
    BY <2>1, <2>4
  <2>q. QED  BY <2>1, <2>2, <2>3, <2>5 DEF rec
<1>7. [source EXCEPT ![s].at = at] = [source EXCEPT ![s] = [at |-> at, route |-> source[s].route, pushes |-> source[s].pushes]]
  BY <1>2, <1>6
<1>8. [source EXCEPT ![s].pushes = to] = [source EXCEPT ![s] = [at |-> source[s].at, route |-> source[s].route, pushes |-> to]]
  BY <1>3, <1>6
<1>10. source = [source EXCEPT ![s] = [at |-> source[s].at, route |-> source[s].route, pushes |-> source[s].pushes]]
  BY <1>5, <1>6
<1>q. QED  BY <1>6, <1>7, <1>8, <1>10

\* openLocked and startLocked of a source.
LEMMA OpenSourceKeeps ==
  ASSUME RouterInv, NEW s \in Sources, OpenSource(s)
  PROVE  RouterInv'
<1>1. /\ source[s].at = "new" /\ GetOrCreate(PathOf[s], s)
      /\ source' = [source EXCEPT ![s].at = "add", ![s].route = Found(PathOf[s])]
      /\ UNCHANGED <<closing, onClose, stuck, removals, forward, waiter, removing, ended, wanted, evicts>>
  BY DEF OpenSource
<1>2. PathOf[s] \in Paths
  BY RouterAssumption
<1>3. Moves({}, {}) /\ Registered' /\ Found(PathOf[s]) \in RouteIds' /\ consumer' \in {consumer, [consumer EXCEPT !.told = TRUE]}
  BY <1>1, <1>2, SourceOf, CreateMoves
<1>4. RegistryMoves({}, {}) /\ ConsumerTyped' /\ SomeRoute \subseteq SomeRoute' /\ Found(PathOf[s]) \in SomeRoute' /\ Found(PathOf[s]) # NoRoute
  BY <1>1, <1>3, SetsRest, ConsumerTold DEF RegistryMoves
<1>5. DealingsTyped'
  BY <1>1, SourceOf DEF DealingsTyped
<1>6. /\ source'[s].at = "add" /\ source'[s].route = Found(PathOf[s]) /\ source'[s].pushes = source[s].pushes
      /\ source'[s] \in [at : SourceStages, route : SomeRoute', pushes : SomeRoute']
      /\ \A t \in Sources \ {s} : source'[t] = source[t]
      /\ DOMAIN source' = Sources /\ source' = [t \in Sources |-> source'[t]]
  BY <1>1, <1>4, SourceOf DEF SourceStages, Opening
<1>7. SourceListed(s)'
  BY <1>1, <1>6, SourceOf DEF SourceListed
<1>q. QED  BY <1>1, <1>4, <1>5, <1>6, <1>7, SourceMoves

LEMMA SourceAddsKeeps ==
  ASSUME RouterInv, NEW s \in Sources, SourceAdds(s)
  PROVE  RouterInv'
<1> DEFINE r == source[s].route
           A == IF Outcome(s, r) = "added" THEN {s} ELSE {}
<1>1. /\ source[s].at = "add" /\ r \in RouteIds /\ AddPublisher(s, r)
      /\ UNCHANGED <<byPath, waitGroup, closing, onClose, removals, forward, waiter, removing, ended>>
      /\ source' = [source EXCEPT ![s].at = CASE Outcome(s, r) = "added" -> "evict"
                                              [] Outcome(s, r) = "stuck" -> "stuck"
                                              [] OTHER -> "undo"]
  BY SourceOf DEF SourceAdds
<1> HIDE DEF r
<1>2. /\ Moves(A, {}) /\ wanted' \subseteq Publishers /\ evicts' \in [Publishers -> SUBSET Publishers]
      /\ Outcome(s, r) = "added" => s \in routes'[r].publishers
      /\ stuck' \subseteq RouteIds /\ RouteIds' = RouteIds /\ consumer' \in {consumer, [consumer EXCEPT !.told = TRUE]}
  BY <1>1, SourceOf, AddMoves
<1> HIDE DEF A
<1>3. Registered'
  BY <1>1, <1>2, PathsRest DEF Moves
<1>4. RegistryMoves(A, {}) /\ ConsumerTyped' /\ SomeRoute \subseteq SomeRoute'
  BY <1>1, <1>2, <1>3, SetsRest, ConsumerTold DEF RegistryMoves
<1>5. DealingsTyped'
  BY <1>1, <1>2, SourceOf DEF DealingsTyped
<1>6. /\ source'[s].at \in {"evict", "stuck", "undo"} /\ source'[s].route = r /\ source'[s].pushes = source[s].pushes
      /\ source'[s].at = "evict" => Outcome(s, r) = "added"
      /\ source'[s] \in [at : SourceStages, route : SomeRoute', pushes : SomeRoute']
      /\ \A t \in Sources \ {s} : source'[t] = source[t]
      /\ DOMAIN source' = Sources /\ source' = [t \in Sources |-> source'[t]]
  <2>1. source[s] \in [at : SourceStages, route : SomeRoute', pushes : SomeRoute'] /\ DOMAIN source = Sources
    BY <1>4, SourceOf
  <2>2. \E at \in {"evict", "stuck", "undo"} :
          (at = "evict" => Outcome(s, r) = "added") /\ source' = [source EXCEPT ![s].at = at]
    BY <1>1
  <2>3. {"evict", "stuck", "undo"} \subseteq SourceStages
    BY DEF SourceStages, Opening
  <2>4. PICK at \in {"evict", "stuck", "undo"} :
          (at = "evict" => Outcome(s, r) = "added") /\ source' = [source EXCEPT ![s].at = at]
    BY <2>2
  <2>5. source' = [source EXCEPT ![s] = [at |-> at, route |-> source[s].route, pushes |-> source[s].pushes]]
    BY <2>4, SourceSet
  <2>6. source'[s] = [at |-> at, route |-> source[s].route, pushes |-> source[s].pushes] /\ at \in SourceStages
    BY <2>1, <2>3, <2>4, <2>5
  <2>7. \A t \in Sources \ {s} : source'[t] = source[t]
    BY <2>1, <2>5
  <2>8. DOMAIN source' = Sources /\ source' = [t \in Sources |-> source'[t]]
    BY <2>1, <2>5, SourceOf
  <2>q. QED  BY <2>1, <2>4, <2>6, <2>7, <2>8 DEF r
<1>7. SourceListed(s)'
  BY <1>1, <1>2, <1>6, SourceOf DEF SourceListed
<1>8. source'[s].route # NoRoute /\ Forwarder \notin A
  BY <1>1, <1>2, <1>6, SourceOf, RouteNumbers DEF A, RouterInv, RouterTypes
<1>q. QED  BY <1>1, <1>4, <1>5, <1>6, <1>7, <1>8, SourceMoves

\* Steps of a source at which no list changes.
LEMMA SourceAloneKeeps ==
  ASSUME RouterInv, NEW s \in Sources,
         Evicted(s) \/ SourceStarts(s) \/ StartFails(s) \/ CloseFailed(s) \/ SourceStops(s) \/ FixerStops(s)
  PROVE  RouterInv'
<1>1. /\ UNCHANGED <<registry, forward, waiter, removing, wanted, evicts, consumer>>
      /\ ended' \in {ended, ended \cup {s}}
      /\ \E at \in SourceStages : \E pushes \in {source[s].pushes, source[s].route, NoRoute} :
           /\ source' = [source EXCEPT ![s] = [at |-> at, route |-> source[s].route, pushes |-> pushes]]
           /\ source[s].at \notin {"absent", "new"} \/ (source[s].at = at /\ pushes = NoRoute)
           /\ at \in {"evict", "start", "open"} => source[s].at \in {"evict", "start", "open"}
           /\ pushes = NoRoute \/ (pushes = source[s].pushes /\ at = source[s].at /\ at \in {"open", "stop", "closed"})
                \/ (pushes = source[s].route /\ at = "open")
  <2> DEFINE New(at, pushes) == [source EXCEPT ![s] = [at |-> at, route |-> source[s].route, pushes |-> pushes]]
  <2>1. /\ source[s] = [at |-> source[s].at, route |-> source[s].route, pushes |-> source[s].pushes]
        /\ source[s].at \in SourceStages /\ source = [t \in Sources |-> source[t]]
        /\ source[s].pushes # NoRoute => source[s].at \in {"open", "stop", "closed"}
    BY SourceOf DEF SourceListed
  <2>2. {"start", "open", "undo", "closed"} \subseteq SourceStages
    BY DEF SourceStages, Opening
  <2>3. CASE Evicted(s)
    <3>1. source[s].at = "evict" /\ source' = [source EXCEPT ![s].at = "start"]
      BY <2>1, <2>3 DEF Evicted
    <3>2. [source EXCEPT ![s].at = "start"] = New("start", source[s].pushes)
      BY SourceSet
    <3>3. source' = New("start", source[s].pushes)
      BY <2>1, <3>1, <3>2
    <3>q. QED  BY <2>1, <2>2, <2>3, <3>1, <3>3 DEF Evicted
  <2>4. CASE SourceStarts(s)
    <3>1. source[s].at = "start" /\ source' = [source EXCEPT ![s].at = "open", ![s].pushes = source[s].route]
      BY <2>1, <2>4 DEF SourceStarts
    <3> DEFINE to == source[s].route
    <3> HIDE DEF to, New
    <3>2. [source EXCEPT ![s].at = "open", ![s].pushes = to] = [source EXCEPT ![s] = [at |-> "open", route |-> source[s].route, pushes |-> to]]
      <4>1. [[source[s] EXCEPT !.at = "open"] EXCEPT !.pushes = to] = [at |-> "open", route |-> source[s].route, pushes |-> to]
        <5>1. [source[s] EXCEPT !.at = "open"] = [at |-> "open", route |-> source[s].route, pushes |-> source[s].pushes]
          BY SourceSet
        <5>2. [[at |-> "open", route |-> source[s].route, pushes |-> source[s].pushes] EXCEPT !.pushes = to] = [at |-> "open", route |-> source[s].route, pushes |-> to]
          OBVIOUS
        <5>q. QED  BY <5>1, <5>2
      <4>2. [source EXCEPT ![s].at = "open", ![s].pushes = to] = [source EXCEPT ![s] = [[source[s] EXCEPT !.at = "open"] EXCEPT !.pushes = to]]
        BY SourceOf
      <4>q. QED  BY <4>1, <4>2
    <3> USE DEF to, New
    <3>3. source' = New("open", source[s].route)
      BY <2>1, <3>1, <3>2
    <3>q. QED  BY <2>1, <2>2, <2>4, <3>1, <3>3 DEF SourceStarts
  <2>5. CASE StartFails(s)
    <3>1. source[s].at = "start" /\ source' = [source EXCEPT ![s].at = "undo"]
      BY <2>1, <2>5 DEF StartFails
    <3>2. [source EXCEPT ![s].at = "undo"] = New("undo", source[s].pushes)
      BY SourceSet
    <3>3. source' = New("undo", source[s].pushes)
      BY <2>1, <3>1, <3>2
    <3>q. QED  BY <2>1, <2>2, <2>5, <3>1, <3>3 DEF StartFails
  <2>6. CASE CloseFailed(s)
    <3>1. source' = New("failed", NoRoute) /\ source[s].at = "failed"
      BY <2>1, <2>6 DEF CloseFailed
    <3>q. QED  BY <2>1, <2>6, <3>1 DEF CloseFailed
  <2>7. CASE SourceStops(s)
    <3>1. source[s].at = "stop" /\ source' = [source EXCEPT ![s].at = "closed", ![s].pushes = NoRoute]
      BY <2>1, <2>7 DEF SourceStops
    <3> DEFINE to == NoRoute
    <3> HIDE DEF to, New
    <3>2. [source EXCEPT ![s].at = "closed", ![s].pushes = to] = [source EXCEPT ![s] = [at |-> "closed", route |-> source[s].route, pushes |-> to]]
      <4>1. [[source[s] EXCEPT !.at = "closed"] EXCEPT !.pushes = to] = [at |-> "closed", route |-> source[s].route, pushes |-> to]
        <5>1. [source[s] EXCEPT !.at = "closed"] = [at |-> "closed", route |-> source[s].route, pushes |-> source[s].pushes]
          BY SourceSet
        <5>2. [[at |-> "closed", route |-> source[s].route, pushes |-> source[s].pushes] EXCEPT !.pushes = to] = [at |-> "closed", route |-> source[s].route, pushes |-> to]
          OBVIOUS
        <5>q. QED  BY <5>1, <5>2
      <4>2. [source EXCEPT ![s].at = "closed", ![s].pushes = to] = [source EXCEPT ![s] = [[source[s] EXCEPT !.at = "closed"] EXCEPT !.pushes = to]]
        BY SourceOf
      <4>q. QED  BY <4>1, <4>2
    <3> USE DEF to, New
    <3>3. source' = New("closed", NoRoute)
      BY <2>1, <3>1, <3>2
    <3>q. QED  BY <2>1, <2>2, <2>7, <3>1, <3>3 DEF SourceStops
  <2>8. CASE FixerStops(s)
    <3>1. source[s].at \in {"open", "closed"} /\ source' = [source EXCEPT ![s].pushes = NoRoute]
      BY <2>1, <2>8 DEF FixerStops
    <3>2. [source EXCEPT ![s].pushes = NoRoute] = New(source[s].at, NoRoute)
      BY SourceSet
    <3>3. source' = New(source[s].at, NoRoute)
      BY <2>1, <3>1, <3>2
    <3>q. QED  BY <2>1, <2>2, <2>8, <3>1, <3>3 DEF FixerStops
  <2>q. QED  BY <2>3, <2>4, <2>5, <2>6, <2>7, <2>8
<1>2. UNCHANGED <<routes, byPath, waitGroup, closing, onClose, stuck, removals, removing, evicts, consumer>>
  BY <1>1 DEF registry
<1>3. \A q : TakenOver(q)' <=> TakenOver(q)
  BY <1>2 DEF TakenOver
<1>4. RegistryMoves({}, {}) /\ SomeRoute' = SomeRoute /\ RouteIds' = RouteIds
  BY <1>2, <1>3, SourceOf, RegistryRests DEF RouteIds, SomeRoute
<1>5. ConsumerTyped' /\ DealingsTyped'
  BY <1>1, <1>2, <1>4, SourceOf, ConsumerTold DEF RegistryMoves, DealingsTyped
<1>6. PICK at \in SourceStages, pushes \in {source[s].pushes, source[s].route, NoRoute} :
        /\ source' = [source EXCEPT ![s] = [at |-> at, route |-> source[s].route, pushes |-> pushes]]
        /\ source[s].at \notin {"absent", "new"} \/ (source[s].at = at /\ pushes = NoRoute)
        /\ at \in {"evict", "start", "open"} => source[s].at \in {"evict", "start", "open"}
        /\ pushes = NoRoute \/ (pushes = source[s].pushes /\ at = source[s].at /\ at \in {"open", "stop", "closed"})
             \/ (pushes = source[s].route /\ at = "open")
  BY <1>1
<1>7. source[s].route \in SomeRoute' /\ pushes \in SomeRoute'
  BY <1>4, <1>6, SourceOf, RouteNumbers DEF RouterInv, RouterTypes
<1>8. /\ source'[s] = [at |-> at, route |-> source[s].route, pushes |-> pushes]
      /\ \A t \in Sources \ {s} : source'[t] = source[t]
      /\ DOMAIN source' = Sources /\ source' = [t \in Sources |-> source'[t]]
  BY <1>6, SourceOf
<1>9. /\ source'[s].at = at /\ source'[s].route = source[s].route /\ source'[s].pushes = pushes
      /\ source'[s] \in [at : SourceStages, route : SomeRoute', pushes : SomeRoute']
  BY <1>7, <1>8
<1>10. SourceListed(s)'
  <2>1. SourceListed(s) /\ UNCHANGED routes
    BY <1>2, SourceOf
  <2>2. at \in {"evict", "start", "open"} => s \in routes[source[s].route].publishers \/ TakenOver(s)
    BY <1>6, <2>1 DEF SourceListed
  <2>3. pushes # NoRoute => /\ at \in {"open", "stop", "closed"} /\ pushes = source[s].route
                            /\ at = "closed" => TakenOver(s)
    BY <1>6, <2>1 DEF SourceListed
  <2>q. QED  BY <1>3, <1>9, <2>1, <2>2, <2>3 DEF SourceListed
<1>11. source'[s].at \notin {"absent", "new"} => source'[s].route # NoRoute
  BY <1>6, <1>9, SourceOf, RouteNumbers DEF RouterInv, RouterTypes
<1>12. Forwarder \in ended' => Forwarder \in ended
  BY <1>1, SourceOf
<1>q. QED  BY <1>1, <1>4, <1>5, <1>8, <1>9, <1>10, <1>11, <1>12, SourceMoves

\* doStopLocked and closeLocked.
LEMMA SourceLeavesKeeps ==
  ASSUME RouterInv, NEW s \in Sources, SourceUndoes(s) \/ CloseSource(s)
  PROVE  RouterInv'
<1> DEFINE r == source[s].route
<1>1. /\ RemovePublisher(s, r) /\ ended' \in {ended, ended \cup {s}} /\ source[s].at \in {"undo", "open"}
      /\ UNCHANGED <<byPath, waitGroup, closing, onClose, stuck, removals, forward, waiter, removing, wanted, evicts>>
      /\ \E at \in {"failed", "stop", "closed"} :
           /\ source' = [source EXCEPT ![s].at = at]
           /\ at = "failed" => source[s].at = "undo"
           /\ at \in {"stop", "closed"} => source[s].at = "open"
           /\ at = "closed" => s \notin routes[r].publishers
  BY DEF SourceUndoes, CloseSource
<1>2. r \in RouteIds /\ s \in Publishers /\ s # Forwarder
  BY <1>1, SourceOf
<1> HIDE DEF r
<1>3. Moves({}, {s}) /\ consumer' \in {consumer, [consumer EXCEPT !.told = TRUE]}
  BY <1>1, <1>2, RemovePublisherMoves
<1>4. Registered'
  BY <1>1, <1>3, PathsRest DEF Moves
<1>5. RegistryMoves({}, {s}) /\ ConsumerTyped' /\ SomeRoute \subseteq SomeRoute'
  BY <1>1, <1>3, <1>4, SetsRest, ConsumerTold DEF RegistryMoves
<1>6. DealingsTyped'
  BY <1>1, <1>2, SourceOf DEF DealingsTyped
<1>7. PICK at \in {"failed", "stop", "closed"} :
        /\ source' = [source EXCEPT ![s].at = at]
        /\ at = "failed" => source[s].at = "undo"
        /\ at \in {"stop", "closed"} => source[s].at = "open"
        /\ at = "closed" => s \notin routes[r].publishers
  BY <1>1
<1>8. /\ source'[s].at = at /\ source'[s].route = source[s].route /\ source'[s].pushes = source[s].pushes
      /\ source'[s] \in [at : SourceStages, route : SomeRoute', pushes : SomeRoute']
      /\ \A t \in Sources \ {s} : source'[t] = source[t]
      /\ DOMAIN source' = Sources /\ source' = [t \in Sources |-> source'[t]]
  BY <1>5, <1>7, SourceOf DEF SourceStages
<1>9. SourceListed(s)'
  <2>1. TakenOver(s)' <=> TakenOver(s)
    BY <1>1 DEF TakenOver
  <2>q. QED  BY <1>1, <1>7, <1>8, <2>1, SourceOf DEF SourceListed, r
<1>10. source'[s].route # NoRoute
  BY <1>2, <1>8, RouteNumbers DEF RouterInv, RouterTypes, r
<1>q. QED  BY <1>1, <1>2, <1>5, <1>6, <1>8, <1>9, <1>10, SourceMoves

\* The forwarding as it was.
LEMMA ForwardOf ==
  ASSUME RouterInv
  PROVE  /\ forward \in [at : ForwardStages, known : BOOLEAN, from : SomeRoute, to : SomeRoute, target : SomeRoute, pushes : SomeRoute]
         /\ ForwardTyped /\ ForwardListed /\ ForwardStops /\ DealingsTyped /\ ConsumerTyped /\ removing \subseteq RouteIds
         /\ Forwarder \in Publishers /\ NoRoute \in SomeRoute /\ NoRoute \notin RouteIds
         /\ \A l \in SomeRoute : l # NoRoute => l \in RouteIds
BY RouteNumbers DEF RouterInv, RouterTypes, RegistryTypes, ForwardTyped, Publishers

\* A step of the forwarding at which no list changes, or of whoever closes a publisher.
LEMMA ForwardAlone ==
  ASSUME RouterInv, UNCHANGED <<registry, source, evicts, consumer>>, removing' \subseteq RouteIds,
         ended' \subseteq Publishers, wanted' \subseteq Publishers,
         SomeRoute' = SomeRoute => ForwardTyped', RouteIds' = RouteIds => ForwardListed', ForwardStops'
  PROVE  RouterInv'
<1>1. UNCHANGED <<routes, byPath, waitGroup, closing, onClose, stuck, removals>>
  BY DEF registry
<1>2. \A q : TakenOver(q) => TakenOver(q)'
  BY DEF TakenOver
<1>3. RegistryMoves({}, {}) /\ SomeRoute' = SomeRoute /\ RouteIds' = RouteIds
  BY <1>1, <1>2, RegistryRests DEF RouteIds, SomeRoute
<1>4. ConsumerTyped'
  BY <1>3, ConsumerTold DEF RegistryMoves
<1>5. DealingsTyped'
  BY ForwardOf DEF DealingsTyped
<1>q. QED  BY <1>3, <1>4, <1>5, ForwardMoves

\* A user closes a publisher.
LEMMA UserClosesKeeps ==
  ASSUME RouterInv, NEW p \in Publishers, UserCloses(p)
  PROVE  RouterInv'
<1>1. /\ UNCHANGED <<registry, source, forward, waiter, removing, ended, evicts, consumer>>
      /\ wanted' = wanted \cup {p}
  BY DEF UserCloses
<1>2. UNCHANGED routes
  BY <1>1 DEF registry
<1>3. SomeRoute' = SomeRoute => ForwardTyped'
  BY <1>1, ForwardOf DEF ForwardTyped
<1>4. RouteIds' = RouteIds => ForwardListed'
  BY <1>1, <1>2, ForwardOf DEF ForwardListed
<1>5. ForwardStops'
  BY <1>1, ForwardOf DEF ForwardStops
<1>6. removing' \subseteq RouteIds /\ ended' \subseteq Publishers /\ wanted' \subseteq Publishers
  BY <1>1, ForwardOf DEF DealingsTyped
<1>q. QED  BY <1>1, <1>3, <1>4, <1>5, <1>6, ForwardAlone

\* startLocked and stopLocked, where they change no list.
LEMMA ForwardAloneKeeps ==
  ASSUME RouterInv,
         \/ OpenForward \/ (StartForward /\ Forwarder \in ended) \/ ForwardEvicted \/ ForwardStarts \/ ForwardStartFails
         \/ WaiterStops \/ WaiterRestarts \/ CloseForward
  PROVE  RouterInv'
<1>1. /\ UNCHANGED <<registry, source, evicts, consumer, wanted>> /\ ended' \in {ended, ended \cup {Forwarder}}
      /\ removing' \in {removing, removing \cup OutputOf}
  BY DEF OpenForward, StartForward, ForwardEvicted, ForwardStarts, ForwardStartFails, WaiterStops, WaiterRestarts, CloseForward
<1>2. UNCHANGED routes
  BY <1>1 DEF registry
<1>3. OutputOf \subseteq RouteIds
  BY ForwardOf DEF OutputOf
<1>4. removing' \subseteq RouteIds /\ ended' \subseteq Publishers /\ wanted' \subseteq Publishers /\ removing \subseteq removing'
  BY <1>1, <1>3, ForwardOf DEF DealingsTyped
<1>5. CASE OpenForward
  <2>1. forward.at = "new" /\ forward' = [forward EXCEPT !.at = "get"] /\ UNCHANGED waiter /\ UNCHANGED removing /\ UNCHANGED ended
    BY <1>5, ForwardOf DEF OpenForward
  <2>2. forward'.at = "get" /\ forward'.pushes = forward.pushes /\ forward'.to = forward.to /\ forward'.target = forward.target
    BY <2>1, ForwardOf DEF ForwardTyped
  <2>3. forward' \in [at : ForwardStages, known : BOOLEAN, from : SomeRoute, to : SomeRoute, target : SomeRoute, pushes : SomeRoute]
    BY <2>1, ForwardOf DEF ForwardStages
  <2>4. SomeRoute' = SomeRoute => ForwardTyped'
    BY <2>1, <2>2, <2>3, ForwardOf DEF ForwardTyped
  <2>5. RouteIds' = RouteIds => ForwardListed'
    BY <1>2, <1>4, <2>1, <2>2, ForwardOf DEF ForwardListed, ForwardStops, OutputOf
  <2>6. ForwardStops'
    BY <1>1, <2>1, <2>2, ForwardOf DEF ForwardStops
  <2>q. QED  BY <1>1, <1>4, <2>4, <2>5, <2>6, ForwardAlone
<1>6. CASE StartForward /\ Forwarder \in ended
  <2>1. forward.at = "get" /\ forward' = [forward EXCEPT !.at = "idle"] /\ UNCHANGED waiter /\ UNCHANGED removing /\ UNCHANGED ended
    BY <1>6, ForwardOf DEF StartForward
  <2>2. forward'.at = "idle" /\ forward'.pushes = forward.pushes /\ forward'.to = forward.to /\ forward'.target = forward.target
    BY <2>1, ForwardOf DEF ForwardTyped
  <2>3. forward' \in [at : ForwardStages, known : BOOLEAN, from : SomeRoute, to : SomeRoute, target : SomeRoute, pushes : SomeRoute]
    BY <2>1, ForwardOf DEF ForwardStages
  <2>4. SomeRoute' = SomeRoute => ForwardTyped'
    BY <2>1, <2>2, <2>3, ForwardOf DEF ForwardTyped
  <2>5. RouteIds' = RouteIds => ForwardListed'
    BY <1>2, <1>4, <2>1, <2>2, ForwardOf DEF ForwardListed, ForwardStops, OutputOf
  <2>6. ForwardStops'
    BY <1>1, <2>1, <2>2, ForwardOf DEF ForwardStops
  <2>q. QED  BY <1>1, <1>4, <2>4, <2>5, <2>6, ForwardAlone
<1>7. CASE ForwardEvicted
  <2>1. forward.at = "evict" /\ forward' = [forward EXCEPT !.at = "start", !.to = forward.target] /\ UNCHANGED waiter /\ UNCHANGED removing /\ UNCHANGED ended
    BY <1>7, ForwardOf DEF ForwardEvicted
  <2>2. forward'.at = "start" /\ forward'.pushes = forward.pushes /\ forward'.to = forward.target /\ forward'.target = forward.target
    BY <2>1, ForwardOf DEF ForwardTyped
  <2>3. forward' \in [at : ForwardStages, known : BOOLEAN, from : SomeRoute, to : SomeRoute, target : SomeRoute, pushes : SomeRoute]
    BY <2>1, ForwardOf DEF ForwardStages
  <2>4. SomeRoute' = SomeRoute => ForwardTyped'
    BY <2>1, <2>2, <2>3, ForwardOf DEF ForwardTyped
  <2>5. RouteIds' = RouteIds => ForwardListed'
    BY <1>2, <1>4, <2>1, <2>2, ForwardOf DEF ForwardListed, ForwardStops, OutputOf
  <2>6. ForwardStops'
    BY <1>1, <2>1, <2>2, ForwardOf DEF ForwardStops
  <2>q. QED  BY <1>1, <1>4, <2>4, <2>5, <2>6, ForwardAlone
<1>8. CASE ForwardStarts
  <2>1. forward.at = "start" /\ forward' = [forward EXCEPT !.at = "idle", !.pushes = forward.from, !.known = TRUE] /\ UNCHANGED waiter /\ UNCHANGED removing /\ UNCHANGED ended
    BY <1>8, ForwardOf DEF ForwardStarts
  <2>2. forward'.at = "idle" /\ forward'.pushes = forward.from /\ forward'.to = forward.to /\ forward'.target = forward.target
    BY <2>1, ForwardOf DEF ForwardTyped
  <2>3. forward' \in [at : ForwardStages, known : BOOLEAN, from : SomeRoute, to : SomeRoute, target : SomeRoute, pushes : SomeRoute]
    BY <2>1, ForwardOf DEF ForwardStages
  <2>4. SomeRoute' = SomeRoute => ForwardTyped'
    BY <2>1, <2>2, <2>3, ForwardOf DEF ForwardTyped
  <2>5. RouteIds' = RouteIds => ForwardListed'
    BY <1>2, <1>4, <2>1, <2>2, ForwardOf DEF ForwardListed, ForwardStops, OutputOf
  <2>6. ForwardStops'
    BY <1>1, <2>1, <2>2, ForwardOf DEF ForwardStops
  <2>q. QED  BY <1>1, <1>4, <2>4, <2>5, <2>6, ForwardAlone
<1>9. CASE ForwardStartFails
  <2>1. forward.at = "start" /\ forward' = [forward EXCEPT !.at = "idle", !.pushes = NoRoute, !.to = NoRoute] /\ removing' = removing \cup OutputOf /\ UNCHANGED waiter /\ UNCHANGED ended
    BY <1>9, ForwardOf DEF ForwardStartFails, StoppedAs
  <2>2. forward'.at = "idle" /\ forward'.pushes = NoRoute /\ forward'.to = NoRoute /\ forward'.target = forward.target
    BY <2>1, ForwardOf DEF ForwardTyped
  <2>3. forward' \in [at : ForwardStages, known : BOOLEAN, from : SomeRoute, to : SomeRoute, target : SomeRoute, pushes : SomeRoute]
    BY <2>1, ForwardOf DEF ForwardStages
  <2>4. SomeRoute' = SomeRoute => ForwardTyped'
    BY <2>1, <2>2, <2>3, ForwardOf DEF ForwardTyped
  <2>5. RouteIds' = RouteIds => ForwardListed'
    BY <1>2, <1>4, <2>1, <2>2, ForwardOf DEF ForwardListed, ForwardStops, OutputOf
  <2>6. ForwardStops'
    BY <1>1, <2>1, <2>2, ForwardOf DEF ForwardStops
  <2>q. QED  BY <1>1, <1>4, <2>4, <2>5, <2>6, ForwardAlone
<1>10. CASE WaiterStops
  <2>1. waiter.at = "wait" /\ forward.at \in {"idle", "get"} /\ forward' = [forward EXCEPT !.at = forward.at, !.pushes = NoRoute, !.to = NoRoute] /\ removing' = removing \cup OutputOf /\ waiter' = [waiter EXCEPT !.at = "stopped"] /\ UNCHANGED ended
    BY <1>10, ForwardOf DEF WaiterStops, StoppedAs, Unlocked
  <2>2. forward'.at = forward.at /\ forward'.pushes = NoRoute /\ forward'.to = NoRoute /\ forward'.target = forward.target /\ waiter'.at = "stopped" /\ waiter' \in [at : {"none", "wait", "stopped"}, from : SomeRoute]
    BY <2>1, ForwardOf DEF ForwardTyped
  <2>3. forward' \in [at : ForwardStages, known : BOOLEAN, from : SomeRoute, to : SomeRoute, target : SomeRoute, pushes : SomeRoute]
    BY <2>1, ForwardOf DEF ForwardStages
  <2>4. SomeRoute' = SomeRoute => ForwardTyped'
    BY <2>1, <2>2, <2>3, ForwardOf DEF ForwardTyped
  <2>5. RouteIds' = RouteIds => ForwardListed'
    BY <1>2, <1>4, <2>1, <2>2, ForwardOf DEF ForwardListed, ForwardStops, OutputOf
  <2>6. ForwardStops'
    BY <1>1, <2>1, <2>2, ForwardOf DEF ForwardStops
  <2>q. QED  BY <1>1, <1>4, <2>4, <2>5, <2>6, ForwardAlone
<1>11. CASE WaiterRestarts
  <2>1. waiter.at = "stopped" /\ forward' = [forward EXCEPT !.at = "get"] /\ UNCHANGED removing /\ waiter' = [waiter EXCEPT !.at = "none"] /\ UNCHANGED ended
    BY <1>11, ForwardOf DEF WaiterRestarts
  <2>2. forward'.at = "get" /\ forward'.pushes = forward.pushes /\ forward'.to = forward.to /\ forward'.target = forward.target /\ waiter'.at = "none" /\ waiter' \in [at : {"none", "wait", "stopped"}, from : SomeRoute]
    BY <2>1, ForwardOf DEF ForwardTyped
  <2>3. forward' \in [at : ForwardStages, known : BOOLEAN, from : SomeRoute, to : SomeRoute, target : SomeRoute, pushes : SomeRoute]
    BY <2>1, ForwardOf DEF ForwardStages
  <2>4. SomeRoute' = SomeRoute => ForwardTyped'
    BY <2>1, <2>2, <2>3, ForwardOf DEF ForwardTyped
  <2>5. RouteIds' = RouteIds => ForwardListed'
    BY <1>2, <1>4, <2>1, <2>2, ForwardOf DEF ForwardListed, ForwardStops, OutputOf
  <2>6. ForwardStops'
    BY <1>1, <2>1, <2>2, ForwardOf DEF ForwardStops
  <2>q. QED  BY <1>1, <1>4, <2>4, <2>5, <2>6, ForwardAlone
<1>12. CASE CloseForward
  <2>1. forward.at \in {"idle", "get"} /\ forward' = [forward EXCEPT !.at = forward.at, !.pushes = NoRoute, !.to = NoRoute] /\ removing' = removing \cup OutputOf /\ UNCHANGED waiter
    BY <1>12, ForwardOf DEF CloseForward, StoppedAs, Unlocked
  <2>2. forward'.at = forward.at /\ forward'.pushes = NoRoute /\ forward'.to = NoRoute /\ forward'.target = forward.target
    BY <2>1, ForwardOf DEF ForwardTyped
  <2>3. forward' \in [at : ForwardStages, known : BOOLEAN, from : SomeRoute, to : SomeRoute, target : SomeRoute, pushes : SomeRoute]
    BY <2>1, ForwardOf DEF ForwardStages
  <2>4. SomeRoute' = SomeRoute => ForwardTyped'
    BY <2>1, <2>2, <2>3, ForwardOf DEF ForwardTyped
  <2>5. RouteIds' = RouteIds => ForwardListed'
    BY <1>2, <1>4, <2>1, <2>2, ForwardOf DEF ForwardListed, ForwardStops, OutputOf
  <2>6. ForwardStops'
    BY <1>1, <2>1, <2>2, ForwardOf DEF ForwardStops
  <2>q. QED  BY <1>1, <1>4, <2>4, <2>5, <2>6, ForwardAlone
<1>q. QED  BY <1>5, <1>6, <1>7, <1>8, <1>9, <1>10, <1>11, <1>12

\* startLocked and NewOutput get their routes.
LEMMA ForwardCreatesKeeps ==
  ASSUME RouterInv, (StartForward /\ Forwarder \notin ended) \/ ForwardGetsOutput
  PROVE  RouterInv'
<1> DEFINE here == IF forward.at = "get" THEN From ELSE To
           f == Found(here)
<1>1. /\ GetOrCreate(here, Forwarder) /\ forward.at \in {"get", "output"} /\ Forwarder \notin ended
      /\ UNCHANGED <<closing, onClose, stuck, removals, source, removing, ended, wanted, evicts>>
      /\ forward.at = "get" => /\ forward' = [forward EXCEPT !.at = "output", !.from = f]
                               /\ waiter' = [at |-> "wait", from |-> f]
      /\ forward.at = "output" => forward' = [forward EXCEPT !.at = "add", !.target = f] /\ waiter' = waiter
  BY ForwardOf DEF StartForward, ForwardGetsOutput, ForwardStops
<1>2. here \in Paths
  BY DEF Paths
<1> HIDE DEF here
<1>3. Moves({}, {}) /\ Registered' /\ f \in RouteIds' /\ consumer' \in {consumer, [consumer EXCEPT !.told = TRUE]}
  BY <1>1, <1>2, ForwardOf, CreateMoves
<1> HIDE DEF f
<1>4. RegistryMoves({}, {}) /\ ConsumerTyped' /\ SomeRoute \subseteq SomeRoute' /\ f \in SomeRoute' /\ f # NoRoute
  BY <1>1, <1>3, SetsRest, ConsumerTold DEF RegistryMoves
<1>5. DealingsTyped'
  BY <1>1, ForwardOf DEF DealingsTyped
<1>6. /\ forward'.at \in {"output", "add"} /\ forward'.to = NoRoute /\ forward'.pushes = NoRoute /\ waiter'.at # "stopped"
      /\ forward'.at = "add" => forward'.target # NoRoute
  <2>1. forward.to = NoRoute /\ forward.pushes = NoRoute /\ (forward.at = "output" => waiter.at # "stopped")
    BY <1>1, ForwardOf DEF ForwardStops
  <2>2. CASE forward.at = "get"
    <3>1. forward \in [at : ForwardStages, known : BOOLEAN, from : SomeRoute, to : SomeRoute, target : SomeRoute, pushes : SomeRoute]
      BY ForwardOf
    <3>2. forward' = [forward EXCEPT !.at = "output", !.from = f] /\ waiter' = [at |-> "wait", from |-> f]
      BY <1>1, <2>2
    <3>3. forward'.at = "output" /\ forward'.to = forward.to /\ forward'.pushes = forward.pushes /\ waiter'.at = "wait"
      BY <3>1, <3>2
    <3>q. QED  BY <2>1, <3>3
  <2>3. CASE forward.at = "output"
    BY <1>1, <1>4, <2>1, <2>3, ForwardOf
  <2>q. QED  BY <1>1, <2>2, <2>3
<1>7. ForwardTyped'
  <2>1. /\ forward \in [at : ForwardStages, known : BOOLEAN, from : SomeRoute', to : SomeRoute', target : SomeRoute', pushes : SomeRoute']
        /\ waiter \in [at : {"none", "wait", "stopped"}, from : SomeRoute']
    BY <1>4, ForwardOf DEF ForwardTyped
  <2>2. forward' \in [at : ForwardStages, known : BOOLEAN, from : SomeRoute', to : SomeRoute', target : SomeRoute', pushes : SomeRoute']
    BY <1>1, <1>4, <2>1 DEF ForwardStages
  <2>3. waiter' \in [at : {"none", "wait", "stopped"}, from : SomeRoute'] /\ (waiter'.at = "wait" => waiter'.from # NoRoute)
    BY <1>1, <1>4, <2>1, ForwardOf DEF ForwardTyped
  <2>q. QED  BY <1>6, <2>2, <2>3 DEF ForwardTyped
<1>8. ForwardListed'
  <2>1. \A l \in RouteIds' : Forwarder \in routes'[l].publishers => l \in RouteIds /\ Forwarder \in routes[l].publishers
    BY <1>3, ForwardOf DEF Moves
  <2>2. \A l \in RouteIds : Forwarder \in routes[l].publishers => l \in removing
    BY <1>1, ForwardOf DEF ForwardListed, ForwardStops
  <2>q. QED  BY <1>1, <2>1, <2>2 DEF ForwardListed
<1>9. ForwardStops'
  BY <1>1, <1>6 DEF ForwardStops
<1>q. QED  BY <1>1, <1>4, <1>5, <1>7, <1>8, <1>9, ForwardMoves

\* The forwarding joins the publishers of its output ...
LEMMA ForwardAddsKeeps ==
  ASSUME RouterInv, ForwardAdds
  PROVE  RouterInv'
<1> DEFINE r == forward.target
           A == IF Outcome(Forwarder, r) = "added" THEN {Forwarder} ELSE {}
<1>1. /\ forward.at = "add" /\ AddPublisher(Forwarder, r)
      /\ forward' = [forward EXCEPT !.at = CASE Outcome(Forwarder, r) = "added" -> "evict"
                                             [] Outcome(Forwarder, r) = "stuck" -> "stuck"
                                             [] OTHER -> "idle"]
      /\ UNCHANGED <<byPath, waitGroup, closing, onClose, removals, source, waiter, removing, ended>>
  BY DEF ForwardAdds
<1>2. r \in RouteIds
  BY <1>1, ForwardOf DEF ForwardTyped
<1>3. r = forward.target
  OBVIOUS
<1> HIDE DEF r
<1>4. /\ Moves(A, {}) /\ wanted' \subseteq Publishers /\ evicts' \in [Publishers -> SUBSET Publishers]
      /\ Outcome(Forwarder, r) = "added" => \A l \in RouteIds' : Forwarder \in routes'[l].publishers => l = r \/ Forwarder \in routes[l].publishers
      /\ stuck' \subseteq RouteIds /\ RouteIds' = RouteIds /\ consumer' \in {consumer, [consumer EXCEPT !.told = TRUE]}
  BY <1>1, <1>2, ForwardOf, AddMoves
<1>5. Registered'
  BY <1>1, <1>4, PathsRest DEF Moves
<1>6. RegistryMoves(A, {}) /\ ConsumerTyped' /\ SomeRoute \subseteq SomeRoute'
  BY <1>1, <1>4, <1>5, SetsRest, ConsumerTold DEF RegistryMoves
<1>7. DealingsTyped'
  BY <1>1, <1>4, ForwardOf DEF DealingsTyped
<1>8. PICK at \in {"evict", "stuck", "idle"} :
        (at = "evict" <=> Outcome(Forwarder, r) = "added") /\ forward' = [forward EXCEPT !.at = at]
  BY <1>1
<1>9. /\ forward'.at = at /\ forward'.to = forward.to /\ forward'.target = r /\ forward'.pushes = forward.pushes
      /\ forward' \in [at : ForwardStages, known : BOOLEAN, from : SomeRoute', to : SomeRoute', target : SomeRoute', pushes : SomeRoute']
  <2>1. forward \in [at : ForwardStages, known : BOOLEAN, from : SomeRoute', to : SomeRoute', target : SomeRoute', pushes : SomeRoute']
    BY <1>6, ForwardOf
  <2>2. at \in ForwardStages
    BY <1>8 DEF ForwardStages
  <2>q. QED  BY <1>3, <1>8, <2>1, <2>2
<1>10. forward.to = NoRoute /\ forward.pushes = NoRoute /\ Forwarder \notin ended /\ waiter.at # "stopped"
  BY <1>1, ForwardOf DEF ForwardStops
<1>11. ForwardTyped'
  <2>1. waiter' \in [at : {"none", "wait", "stopped"}, from : SomeRoute'] /\ (waiter'.at = "wait" => waiter'.from # NoRoute)
    BY <1>1, <1>6, ForwardOf DEF ForwardTyped
  <2>2. r # NoRoute
    BY <1>2, ForwardOf
  <2>q. QED  BY <1>9, <2>1, <2>2 DEF ForwardTyped
<1>12. ForwardListed'
  <2>1. \A l \in RouteIds : Forwarder \in routes[l].publishers => l \in removing
    BY <1>1, <1>10, ForwardOf DEF ForwardListed
  <2>2. CASE at = "evict"
    BY <1>1, <1>4, <1>8, <1>9, <2>1, <2>2 DEF ForwardListed
  <2>3. CASE at # "evict"
    <3>1. Outcome(Forwarder, r) # "added"
      BY <1>8, <2>3
    <3>2. \A l \in RouteIds' : Forwarder \in routes'[l].publishers => l \in RouteIds /\ Forwarder \in routes[l].publishers
      BY <1>4, <3>1, ForwardOf DEF Moves
    <3>q. QED  BY <1>1, <2>1, <3>2 DEF ForwardListed
  <2>q. QED  BY <2>2, <2>3
<1>13. ForwardStops'
  <2>1. forward'.at \notin {"absent", "new", "get", "start"}
    BY <1>8, <1>9
  <2>q. QED  BY <1>1, <1>8, <1>9, <1>10, <2>1 DEF ForwardStops
<1>q. QED  BY <1>1, <1>6, <1>7, <1>11, <1>12, <1>13, ForwardMoves

\* ... and leaves them.
LEMMA OutputClosedKeeps ==
  ASSUME RouterInv, NEW r \in removing, OutputClosed(r)
  PROVE  RouterInv'
<1>1. /\ removing' = removing \ {r} /\ RemovePublisher(Forwarder, r)
      /\ UNCHANGED <<byPath, waitGroup, closing, onClose, stuck, removals, source, forward, waiter, ended, wanted, evicts>>
  BY DEF OutputClosed
<1>2. r \in RouteIds
  BY ForwardOf
<1>3. /\ Moves({}, {Forwarder}) /\ consumer' \in {consumer, [consumer EXCEPT !.told = TRUE]}
      /\ Forwarder \notin routes'[r].publishers /\ RouteIds' = RouteIds
  BY <1>1, <1>2, ForwardOf, RemovePublisherMoves
<1>4. Registered'
  BY <1>1, <1>3, PathsRest DEF Moves
<1>5. RegistryMoves({}, {Forwarder}) /\ ConsumerTyped' /\ SomeRoute \subseteq SomeRoute'
  BY <1>1, <1>3, <1>4, SetsRest, ConsumerTold DEF RegistryMoves
<1>6. DealingsTyped' /\ ForwardStops'
  BY <1>1, ForwardOf DEF DealingsTyped, ForwardStops
<1>7. ForwardTyped'
  BY <1>1, <1>5, ForwardOf DEF ForwardTyped
<1>8. ForwardListed'
  <2>1. \A l \in RouteIds' : Forwarder \in routes'[l].publishers => l # r /\ l \in RouteIds /\ Forwarder \in routes[l].publishers
    BY <1>3, ForwardOf DEF Moves
  <2>q. QED  BY <1>1, <2>1, ForwardOf DEF ForwardListed
<1>q. QED  BY <1>1, <1>5, <1>6, <1>7, <1>8, ForwardMoves

\* No step of the router breaks it.
LEMMA RouterKeepsInv == RouterInv /\ (RouterNext \/ UNCHANGED router) => RouterInv'
<1>1. ASSUME RouterInv, UNCHANGED router  PROVE RouterInv'
  <2>1. UNCHANGED <<registry, source, forward, waiter, removing, ended, wanted, evicts, consumer>>
    BY <1>1 DEF router, publishing
  <2>2. UNCHANGED routes
    BY <2>1 DEF registry
  <2>3. SomeRoute' = SomeRoute => ForwardTyped'
    BY <1>1, <2>1, ForwardOf DEF ForwardTyped
  <2>4. RouteIds' = RouteIds => ForwardListed'
    BY <1>1, <2>1, <2>2, ForwardOf DEF ForwardListed
  <2>5. ForwardStops'
    BY <1>1, <2>1, ForwardOf DEF ForwardStops
  <2>6. removing' \subseteq RouteIds /\ ended' \subseteq Publishers /\ wanted' \subseteq Publishers
    BY <1>1, <2>1, ForwardOf DEF DealingsTyped
  <2>q. QED  BY <1>1, <2>1, <2>3, <2>4, <2>5, <2>6, ForwardAlone
<1>2. ASSUME RouterInv, RouterNext  PROVE RouterInv'
  <2>1. CASE RouteStep \/ \E r \in RouteIds : UserRemoves(r) \/ UserRemovesByPath(r) \/ ServeEnds(r)
    BY <1>2, <2>1, RouteSteps DEF RouteStep
  <2>2. CASE SourcesStep \/ \E s \in Sources : OpenSource(s) \/ StartFails(s) \/ FixerStops(s)
    BY <1>2, <2>2, OpenSourceKeeps, SourceAddsKeeps, SourceAloneKeeps, SourceLeavesKeeps DEF SourcesStep, SourceStep
  <2>3. CASE ConsumerStep
    BY <1>2, <2>3, ConsumerSteps
  <2>4. CASE ForwardStep \/ OpenForward \/ ForwardStartFails
    BY <1>2, <2>4, ForwardAloneKeeps, ForwardCreatesKeeps, ForwardAddsKeeps, OutputClosedKeeps DEF ForwardStep
  <2>5. CASE \E p \in Publishers : UserCloses(p)
    BY <1>2, <2>5, UserClosesKeeps
  <2>q. QED  BY <1>2, <2>1, <2>2, <2>3, <2>4, <2>5 DEF RouterNext
<1>q. QED  BY <1>1, <1>2

LEMMA RouterInitially == RouterInit => RouterInv
<1> SUFFICES ASSUME RouterInit  PROVE RouterInv
  OBVIOUS
<1>1. PICK cast \in Casts :
    /\ routes = <<>> /\ byPath = [p \in Paths |-> NoRoute] /\ waitGroup = 0
    /\ closing = {} /\ onClose = {} /\ stuck = {} /\ removals = {}
    /\ source = [s \in Sources |-> [at |-> IF s \in cast THEN "new" ELSE "absent",
                                    route |-> NoRoute, pushes |-> NoRoute]]
    /\ forward = [at |-> IF Forwarder \in cast THEN "new" ELSE "absent", known |-> FALSE,
                  from |-> NoRoute, to |-> NoRoute, target |-> NoRoute, pushes |-> NoRoute]
    /\ waiter = [at |-> "none", from |-> NoRoute]
    /\ removing = {} /\ ended = {} /\ wanted = {}
    /\ evicts = [p \in Publishers |-> {}]
    /\ consumer = [at |-> IF Consumer \in cast THEN "get" ELSE "absent", route |-> NoRoute, told |-> FALSE]
  BY DEF RouterInit
<1>2. Len(routes) = 0 /\ RouteIds = {} /\ SomeRoute = {0} /\ routes \in Seq(RouteRecords) /\ MaxRoutes \in Nat
  BY <1>1, RouterAssumption DEF RouteIds, SomeRoute
<1>3. RegistryTypes /\ DealingsTyped
  BY <1>1, <1>2 DEF RegistryTypes, DealingsTyped, NoRoute
<1>4. SourceTyped /\ (\A s \in Sources : SourceListed(s))
  BY <1>1, <1>2 DEF SourceTyped, SourceListed, SourceStages, NoRoute
<1>5. ForwardTyped /\ ForwardListed /\ ForwardStops
  <2>1. forward.at \in {"absent", "new"}
    BY <1>1
  <2>2. ForwardTyped
    BY <1>1, <1>2, <2>1 DEF ForwardTyped, ForwardStages, NoRoute
  <2>q. QED  BY <1>1, <1>2, <2>1, <2>2 DEF ForwardListed, ForwardStops
<1>6. ConsumerTyped
  BY <1>1, <1>2 DEF ConsumerTyped, ConsumerStages, NoRoute
<1>7. ExclusiveIsAlone
  BY <1>2 DEF ExclusiveIsAlone
<1>8. WaitGroupCovers
  <2>1. {p \in Paths : byPath[p] # NoRoute} = {}
    BY <1>1
  <2>2. Cardinality({p \in Paths : byPath[p] # NoRoute}) = 0
    <3>1. Cardinality({}) = 0
      BY FS_EmptySet
    <3>q. QED  BY <2>1, <3>1, Zenon
  <2>3. waitGroup = 0 /\ 0 >= 0
    BY <1>1
  <2>q. QED  BY <2>2, <2>3, Zenon DEF WaitGroupCovers
<1>q. QED  BY <1>3, <1>4, <1>5, <1>6, <1>7, <1>8 DEF RouterInv, RouterTypes

\* What it says of the router.
LEMMA RouterInvSays == RouterInv => RouterSafe /\ RouterTypeOK
<1> SUFFICES ASSUME RouterInv  PROVE RouterSafe /\ RouterTypeOK
  OBVIOUS
<1>1. PushersAreListed
  <2> SUFFICES ASSUME NEW s \in Sources, source[s].pushes # NoRoute
               PROVE  s \in routes[source[s].pushes].publishers \/ source[s].at = "stop" \/ TakenOver(s)
    BY DEF PushersAreListed, TakenOver
  <2>1. SourceListed(s)
    BY SourceOf
  <2>q. QED  BY <2>1 DEF SourceListed
<1>2. ClosedForwardsNothing
  BY ForwardOf DEF ClosedForwardsNothing, IsClosed, ForwardListed, ForwardStops, NoRoute
<1>3. Len(routes) \in Nat /\ MaxRoutes \in Nat /\ Len(routes) <= MaxRoutes
  BY RouteNumbers DEF RouterInv, RouterTypes, RegistryTypes
<1>4. SomeRoute \subseteq MaybeRoute
  BY <1>3 DEF SomeRoute, MaybeRoute
<1>5. RouterTypeOK
  <2>1. \A r \in RouteIds : routes[r] \in RouteRecords
    BY RouteNumbers DEF RouterInv, RouterTypes
  <2>2. byPath \in [Paths -> MaybeRoute] /\ waitGroup \in 0..MaxRoutes
    BY <1>3, <1>4 DEF RouterInv, RouterTypes, RegistryTypes, SomeRoute
  <2>3. closing \cup onClose \cup stuck \cup removals \cup removing \subseteq RouteIds
    BY DEF RouterInv, RouterTypes, RegistryTypes
  <2>4. source \in [Sources -> [at : SourceStages, route : MaybeRoute, pushes : MaybeRoute]]
    BY <1>4 DEF RouterInv, RouterTypes, SourceTyped
  <2>5. /\ forward \in [at : ForwardStages, known : BOOLEAN, from : MaybeRoute, to : MaybeRoute, target : MaybeRoute, pushes : MaybeRoute]
        /\ waiter \in [at : {"none", "wait", "stopped"}, from : MaybeRoute]
    BY <1>4, ForwardOf DEF ForwardTyped
  <2>6. ended \cup wanted \subseteq Publishers /\ evicts \in [Publishers -> SUBSET Publishers]
    BY ForwardOf DEF DealingsTyped
  <2>7. consumer \in [at : ConsumerStages, route : MaybeRoute, told : BOOLEAN]
    BY <1>4, ForwardOf DEF ConsumerTyped
  <2>q. QED  BY <2>1, <2>2, <2>3, <2>4, <2>5, <2>6, <2>7 DEF RouterTypeOK, RouteRecords, SourceStages, ForwardStages, ConsumerStages
<1>q. QED  BY <1>1, <1>2, <1>5 DEF RouterInv, RouterSafe

----------------------------------------------------------------------------
(* ForwardPath.                                                            *)

Of(s) == ToSet(Feed[s])
Entries == [from : Feeds, packet : Packets, index : Indices, pts : Int, dts : Int]
ForwarderStages == {"new", "notify", "linkIn", "linkOut", "serve", "on", "broken", "unlinkOut", "cancel", "off"}
FixerStages == {"ready", "served", "failed", "closed"}

PathTypes ==
  /\ shouldFixPTS \in BOOLEAN /\ toFLV \in BOOLEAN
  /\ fwd \in [Feeds -> ForwarderStages] /\ fixer \in [Feeds -> FixerStages]
  /\ linkedIn \subseteq Feeds /\ linkedOut \subseteq Feeds /\ pathCtxDone \subseteq Feeds
  /\ next \in [Feeds -> Nat] /\ \A s \in Feeds : next[s] <= Len(Feed[s])
  /\ unlinked \subseteq Packets /\ skippedPackets \subseteq Packets
  /\ headers \in [Feeds -> Packets \cup {NoPacket}] /\ mapper \in [Feeds -> Packets \cup {NoPacket}]
  /\ leaving \in [Feeds -> Packets \cup {NoPacket}]
  /\ \A s \in Feeds : {headers[s], mapper[s], leaving[s]} \subseteq Of(s) \cup {NoPacket}
  /\ arrivals \in Seq(Feeds \X Packets) /\ passed \in Seq(Entries)
  /\ \A k \in DOMAIN arrivals : arrivals[k][2] \in Of(arrivals[k][1])
  /\ \A k \in DOMAIN passed : passed[k].packet \in Of(passed[k].from)
  /\ previousSource \in [Indices -> Feeds \cup {"none"}] /\ latestPTS \in Int
  /\ timeShift \in [Feeds -> [exact : Nat, applied : Nat]]

\* The place in its feed of the packet that a node of the AutoFixer has, or gets next.
AtHeaders(s) == IF headers[s] # NoPacket THEN PlaceOf(s, headers[s]) ELSE next[s] + 1
AtMapper(s) == IF mapper[s] # NoPacket THEN PlaceOf(s, mapper[s]) ELSE AtHeaders(s)
AtLeaving(s) == IF leaving[s] # NoPacket THEN PlaceOf(s, leaving[s]) ELSE AtMapper(s)
OnTheirWay(s) ==
  /\ headers[s] # NoPacket => AtHeaders(s) <= next[s]
  /\ mapper[s] # NoPacket => AtMapper(s) < AtHeaders(s)
  /\ leaving[s] # NoPacket => AtLeaving(s) < AtMapper(s)
HaveArrived ==
  /\ \A s \in Feeds : \A k \in DOMAIN arrivals : arrivals[k][1] = s => PlaceOf(s, arrivals[k][2]) < AtLeaving(s)
  /\ \A k, l \in DOMAIN arrivals :
       k < l /\ arrivals[k][1] = arrivals[l][1] =>
         PlaceOf(arrivals[k][1], arrivals[k][2]) < PlaceOf(arrivals[l][1], arrivals[l][2])
HavePassed ==
  /\ \A s \in Feeds : \A k \in DOMAIN passed : passed[k].from = s => PlaceOf(s, passed[k].packet) < AtLeaving(s)
  /\ \A k \in DOMAIN passed : \A l \in DOMAIN arrivals :
       passed[k].from = arrivals[l][1] =>
         PlaceOf(passed[k].from, passed[k].packet) < PlaceOf(arrivals[l][1], arrivals[l][2])
InTheirOrder == (\A s \in Feeds : OnTheirWay(s)) /\ HaveArrived /\ HavePassed /\ ArrivesInOrder

\* What is linked, and which nodes serve, at each stage of a forwarder.
StagesFit(s) ==
  /\ fixer[s] \in {"served", "failed"} => fwd[s] \in {"on", "unlinkOut", "cancel", "off"}
  /\ fixer[s] = "closed" => fwd[s] = "off"
  /\ s \in pathCtxDone <=> fwd[s] = "off"
  /\ fwd[s] \in {"linkOut", "serve", "on"} => s \in linkedIn
  /\ fwd[s] \in {"serve", "on"} => s \in linkedOut
  /\ fwd[s] \in {"new", "notify", "linkIn"} => SentOf(s) \subseteq unlinked /\ s \notin linkedIn
  /\ fwd[s] \in {"unlinkOut", "cancel", "off"} => s \notin linkedIn
  /\ fwd[s] \in {"cancel", "off"} => s \notin linkedOut

PathInv == PathTypes /\ InTheirOrder /\ (\A s \in Feeds : StagesFit(s)) /\ LosesNothing

----------------------------------------------------------------------------

\* Each packet has its place in its feed.
LEMMA Places ==
  ASSUME NEW s \in Feeds
  PROVE  /\ Len(Feed[s]) \in Nat /\ DOMAIN Feed[s] = 1..Len(Feed[s])
         /\ \A n \in 1..Len(Feed[s]) : Feed[s][n] \in Of(s) /\ Feed[s][n] \in Packets /\ PlaceOf(s, Feed[s][n]) = n
         /\ \A o \in Of(s) : PlaceOf(s, o) \in 1..Len(Feed[s]) /\ Feed[s][PlaceOf(s, o)] = o /\ o \in Packets
         /\ NoPacket \notin Of(s) /\ NoPacket \notin Packets
<1>1. /\ Feed[s] \in Seq(Packets) /\ \A m, n \in DOMAIN Feed[s] : Feed[s][m] = Feed[s][n] => m = n
      /\ NoPacket \notin Packets
  BY PathAssumption
<1>2. Len(Feed[s]) \in Nat /\ DOMAIN Feed[s] = 1..Len(Feed[s]) /\ \A n \in 1..Len(Feed[s]) : Feed[s][n] \in Packets
  BY <1>1
<1>3. Of(s) = {Feed[s][n] : n \in 1..Len(Feed[s])}
  BY <1>2 DEF Of, ToSet
<1>4. \A n \in 1..Len(Feed[s]) : PlaceOf(s, Feed[s][n]) = n
  BY <1>1, <1>2 DEF PlaceOf
<1>5. \A o \in Of(s) : \E n \in 1..Len(Feed[s]) : o = Feed[s][n]
  BY <1>3
<1>6. \A o \in Of(s) : PlaceOf(s, o) \in 1..Len(Feed[s]) /\ Feed[s][PlaceOf(s, o)] = o /\ o \in Packets
  BY <1>2, <1>4, <1>5
<1>7. \A n \in 1..Len(Feed[s]) : Feed[s][n] \in Of(s)
  BY <1>3
<1>q. QED  BY <1>1, <1>2, <1>4, <1>6, <1>7

\* Where the packets of a source are, as numbers.
LEMMA PlacesOf ==
  ASSUME PathTypes, NEW s \in Feeds
  PROVE  /\ next[s] \in Nat /\ Len(Feed[s]) \in Nat /\ next[s] <= Len(Feed[s])
         /\ AtHeaders(s) \in Nat /\ AtMapper(s) \in Nat /\ AtLeaving(s) \in Nat
         /\ headers[s] # NoPacket => headers[s] \in Of(s) /\ PlaceOf(s, headers[s]) \in Nat
         /\ mapper[s] # NoPacket => mapper[s] \in Of(s) /\ PlaceOf(s, mapper[s]) \in Nat
         /\ leaving[s] # NoPacket => leaving[s] \in Of(s) /\ PlaceOf(s, leaving[s]) \in Nat
<1>1. next[s] \in Nat /\ next[s] <= Len(Feed[s]) /\ {headers[s], mapper[s], leaving[s]} \subseteq Of(s) \cup {NoPacket}
  BY DEF PathTypes
<1>2. Len(Feed[s]) \in Nat /\ \A o \in Of(s) : PlaceOf(s, o) \in Nat
  BY Places
<1>q. QED  BY <1>1, <1>2 DEF AtHeaders, AtMapper, AtLeaving

\* Those that have arrived, and passed.
LEMMA PlacesBehind ==
  ASSUME PathTypes
  PROVE  /\ \A k \in DOMAIN arrivals : /\ arrivals[k][1] \in Feeds /\ arrivals[k][2] \in Packets
                                       /\ PlaceOf(arrivals[k][1], arrivals[k][2]) \in Nat
         /\ \A k \in DOMAIN passed : passed[k].from \in Feeds /\ PlaceOf(passed[k].from, passed[k].packet) \in Nat
<1>1. /\ \A k \in DOMAIN arrivals : arrivals[k] \in Feeds \X Packets /\ arrivals[k][2] \in Of(arrivals[k][1])
      /\ \A k \in DOMAIN passed : passed[k] \in Entries /\ passed[k].packet \in Of(passed[k].from)
  BY DEF PathTypes
<1>2. \A s \in Feeds : \A o \in Of(s) : PlaceOf(s, o) \in Nat
  BY Places
<1>q. QED  BY <1>1, <1>2 DEF Entries

\* The same after a step.
LEMMA PlacesAfter ==
  ASSUME PathTypes', NEW s \in Feeds
  PROVE  /\ AtHeaders(s)' \in Nat /\ AtMapper(s)' \in Nat /\ AtLeaving(s)' \in Nat
         /\ next'[s] \in Nat /\ next'[s] <= Len(Feed[s])
<1>1. next'[s] \in Nat /\ next'[s] <= Len(Feed[s]) /\ {headers'[s], mapper'[s], leaving'[s]} \subseteq Of(s) \cup {NoPacket}
  BY DEF PathTypes, Of
<1>2. \A o \in Of(s) : PlaceOf(s, o) \in Nat
  BY Places
<1>q. QED  BY <1>1, <1>2 DEF AtHeaders, AtMapper, AtLeaving

\* Packets of one source move on, and none arrives.
LEMMA OrderRests ==
  ASSUME PathTypes, PathTypes', InTheirOrder, NEW s \in Feeds, UNCHANGED <<arrivals, passed>>,
         \A t \in Feeds \ {s} : AtLeaving(t)' = AtLeaving(t) /\ OnTheirWay(t)',
         OnTheirWay(s)', AtLeaving(s) <= AtLeaving(s)'
  PROVE  InTheirOrder'
<1>1. \A t \in Feeds : AtLeaving(t) <= AtLeaving(t)' /\ AtLeaving(t) \in Nat /\ AtLeaving(t)' \in Nat
  <2>1. \A t \in Feeds : AtLeaving(t) \in Nat
    BY PlacesOf
  <2>2. \A t \in Feeds : AtLeaving(t)' \in Nat
    BY PlacesAfter
  <2>q. QED  BY <2>1, <2>2
<1>q. QED  BY <1>1, PlacesBehind DEF InTheirOrder, HaveArrived, HavePassed, ArrivesInOrder

\* The places of the packets of s, and what it has sent, are set.
PlacesSet(s, h, m, l, n) ==
  /\ headers' = [headers EXCEPT ![s] = h] /\ mapper' = [mapper EXCEPT ![s] = m] /\ leaving' = [leaving EXCEPT ![s] = l]
  /\ next' = [next EXCEPT ![s] = n]
HeadersAt(s, h, n) == IF h # NoPacket THEN PlaceOf(s, h) ELSE n + 1
MapperAt(s, h, m, n) == IF m # NoPacket THEN PlaceOf(s, m) ELSE HeadersAt(s, h, n)
LeavingAt(s, h, m, l, n) == IF l # NoPacket THEN PlaceOf(s, l) ELSE MapperAt(s, h, m, n)
NodesTyped ==
  /\ fwd \in [Feeds -> ForwarderStages] /\ fixer \in [Feeds -> FixerStages]
  /\ linkedIn \subseteq Feeds /\ linkedOut \subseteq Feeds /\ pathCtxDone \subseteq Feeds
  /\ unlinked \subseteq Packets

LEMMA PlacesTyped ==
  ASSUME PathTypes, NEW s \in Feeds, NEW h \in Of(s) \cup {NoPacket}, NEW m \in Of(s) \cup {NoPacket},
         NEW l \in Of(s) \cup {NoPacket}, NEW n \in Nat, n <= Len(Feed[s]), PlacesSet(s, h, m, l, n),
         UNCHANGED <<shouldFixPTS, toFLV, arrivals, routeNode>>, NodesTyped'
  PROVE  PathTypes'
<1>1. \A o \in Of(s) : o \in Packets
  BY Places
<1>2. UNCHANGED <<previousSource, timeShift, latestPTS, skippedPackets, passed>>
  BY DEF routeNode
<1>3. /\ headers' \in [Feeds -> Packets \cup {NoPacket}] /\ mapper' \in [Feeds -> Packets \cup {NoPacket}]
      /\ leaving' \in [Feeds -> Packets \cup {NoPacket}] /\ next' \in [Feeds -> Nat]
  BY <1>1 DEF PathTypes, PlacesSet
<1>4. \A t \in Feeds : {headers'[t], mapper'[t], leaving'[t]} \subseteq Of(t) \cup {NoPacket} /\ next'[t] <= Len(Feed[t])
  BY DEF PathTypes, PlacesSet
<1>q. QED  BY <1>2, <1>3, <1>4 DEF PathTypes, NodesTyped, Of

LEMMA PlacesNow ==
  ASSUME PathTypes, NEW s \in Feeds, NEW h, NEW m, NEW l, NEW n, PlacesSet(s, h, m, l, n)
  PROVE  /\ AtHeaders(s)' = HeadersAt(s, h, n) /\ AtMapper(s)' = MapperAt(s, h, m, n) /\ AtLeaving(s)' = LeavingAt(s, h, m, l, n)
         /\ OnTheirWay(s)' <=> /\ (h # NoPacket => HeadersAt(s, h, n) <= n)
                               /\ m # NoPacket => MapperAt(s, h, m, n) < HeadersAt(s, h, n)
                               /\ l # NoPacket => LeavingAt(s, h, m, l, n) < MapperAt(s, h, m, n)
         /\ \A t \in Feeds \ {s} : AtLeaving(t)' = AtLeaving(t) /\ (OnTheirWay(t)' <=> OnTheirWay(t))
<1>1. /\ headers'[s] = h /\ mapper'[s] = m /\ leaving'[s] = l /\ next'[s] = n
      /\ \A t \in Feeds \ {s} : headers'[t] = headers[t] /\ mapper'[t] = mapper[t] /\ leaving'[t] = leaving[t] /\ next'[t] = next[t]
  BY DEF PlacesSet, PathTypes
<1>2. AtHeaders(s)' = HeadersAt(s, h, n) /\ AtMapper(s)' = MapperAt(s, h, m, n) /\ AtLeaving(s)' = LeavingAt(s, h, m, l, n)
  BY <1>1 DEF AtHeaders, AtMapper, AtLeaving, HeadersAt, MapperAt, LeavingAt, PlaceOf
<1>3. OnTheirWay(s)' <=> /\ (h # NoPacket => HeadersAt(s, h, n) <= n)
                         /\ m # NoPacket => MapperAt(s, h, m, n) < HeadersAt(s, h, n)
                         /\ l # NoPacket => LeavingAt(s, h, m, l, n) < MapperAt(s, h, m, n)
  BY <1>1, <1>2 DEF OnTheirWay
<1>4. \A t \in Feeds \ {s} : AtHeaders(t)' = AtHeaders(t) /\ AtMapper(t)' = AtMapper(t) /\ AtLeaving(t)' = AtLeaving(t)
  <2> SUFFICES ASSUME NEW t \in Feeds \ {s}
               PROVE  AtHeaders(t)' = AtHeaders(t) /\ AtMapper(t)' = AtMapper(t) /\ AtLeaving(t)' = AtLeaving(t)
    OBVIOUS
  <2>1. headers'[t] = headers[t] /\ mapper'[t] = mapper[t] /\ leaving'[t] = leaving[t] /\ next'[t] = next[t]
    BY <1>1
  <2>q. QED  BY <2>1 DEF AtHeaders, AtMapper, AtLeaving, PlaceOf
<1>5. \A t \in Feeds \ {s} : OnTheirWay(t)' <=> OnTheirWay(t)
  BY <1>1, <1>4 DEF OnTheirWay
<1>q. QED  BY <1>2, <1>3, <1>4, <1>5

\* Packets of one source move on, and none arrives.
LEMMA WayMoves ==
  ASSUME PathTypes, PathTypes', InTheirOrder, NEW s \in Feeds, NEW h, NEW m, NEW l, NEW n, PlacesSet(s, h, m, l, n),
         UNCHANGED <<arrivals, passed>>, (h # NoPacket => HeadersAt(s, h, n) <= n),
         m # NoPacket => MapperAt(s, h, m, n) < HeadersAt(s, h, n),
         l # NoPacket => LeavingAt(s, h, m, l, n) < MapperAt(s, h, m, n),
         AtLeaving(s) <= LeavingAt(s, h, m, l, n)
  PROVE  InTheirOrder'
<1>1. \A t \in Feeds \ {s} : OnTheirWay(t)
  BY DEF InTheirOrder
<1>q. QED  BY <1>1, PlacesNow, OrderRests

\* While its forwarder works, a packet of a source is accounted for.
Works(s) == fwd[s] \in {"linkOut", "serve", "on"} /\ fixer[s] # "failed"
Covered(s, o) ==
  \/ o \in unlinked \cup skippedPackets \/ o \in OnTheWay(s) \/ OutputIndices(o) = {}
  \/ \E i \in DOMAIN passed : passed[i].packet = o
OtherwiseCovered == \A s \in Feeds : Works(s) => \A o \in SentOf(s) : Covered(s, o)

LEMMA LosesSays == LosesNothing <=> OtherwiseCovered
BY DEF LosesNothing, OtherwiseCovered, Works, Covered

LEMMA LosesMoves ==
  ASSUME OtherwiseCovered, NEW s \in Feeds, unlinked \subseteq unlinked', skippedPackets \subseteq skippedPackets', UNCHANGED toFLV,
         \A i \in DOMAIN passed : \E j \in DOMAIN passed' : passed'[j].packet = passed[i].packet,
         \A t \in Feeds \ {s} : (Works(t)' => Works(t)) /\ SentOf(t)' \subseteq SentOf(t) /\ OnTheWay(t) \subseteq OnTheWay(t)',
         Works(s)' => \A o \in SentOf(s)' : Covered(s, o)'
  PROVE  OtherwiseCovered'
<1>1. \A o : OutputIndices(o)' = OutputIndices(o)
  BY DEF OutputIndices
<1>2. ASSUME NEW t \in Feeds \ {s}, NEW o \in SentOf(t)', Works(t)'  PROVE Covered(t, o)'
  <2>1. Covered(t, o) /\ OnTheWay(t) \subseteq OnTheWay(t)'
    BY <1>2 DEF OtherwiseCovered
  <2>q. QED  BY <1>1, <2>1 DEF Covered
<1>q. QED  BY <1>2 DEF OtherwiseCovered

\* What a source has sent.
LEMMA SentMoves ==
  ASSUME PathTypes, NEW s \in Feeds, NEW h, NEW m, NEW l, NEW n \in Nat, PlacesSet(s, h, m, l, n)
  PROVE  /\ SentOf(s)' = {Feed[s][k] : k \in 1..n}
         /\ \A t \in Feeds \ {s} : SentOf(t)' = SentOf(t)
<1>1. next'[s] = n /\ \A t \in Feeds \ {s} : next'[t] = next[t]
  BY DEF PlacesSet, PathTypes
<1>q. QED  BY <1>1 DEF SentOf

\* A step of a packet of s before the route.
LEMMA PacketMoves ==
  ASSUME PathInv, NEW s \in Feeds, NEW h \in Of(s) \cup {NoPacket}, NEW m \in Of(s) \cup {NoPacket},
         NEW l \in Of(s) \cup {NoPacket}, NEW n \in Nat, n <= Len(Feed[s]), PlacesSet(s, h, m, l, n),
         UNCHANGED <<shouldFixPTS, toFLV, arrivals, routeNode, forwarding>>, NEW f \in FixerStages, fixer' = [fixer EXCEPT ![s] = f],
         unlinked \subseteq unlinked', unlinked' \subseteq Packets,
         (h # NoPacket => HeadersAt(s, h, n) <= n),
         m # NoPacket => MapperAt(s, h, m, n) < HeadersAt(s, h, n),
         l # NoPacket => LeavingAt(s, h, m, l, n) < MapperAt(s, h, m, n),
         AtLeaving(s) <= LeavingAt(s, h, m, l, n),
         f \in {"served", "failed"} => fixer[s] \in {"served", "failed"}, f = "closed" => fwd[s] = "off",
         fixer[s] = "failed" => f \in {"failed", "closed"},
         fwd[s] \in {"new", "notify", "linkIn"} => {Feed[s][k] : k \in 1..n} \subseteq unlinked',
         Works(s) /\ f # "failed" =>
           \A o \in {Feed[s][k] : k \in 1..n} :
             Covered(s, o) \/ o \in {h, m, l} \/ o \in unlinked',
         Works(s) /\ f # "failed" =>
           \A o \in {headers[s], mapper[s], leaving[s]} : o \in {NoPacket, h, m, l} \/ OutputIndices(o) = {}
  PROVE  PathInv'
<1>1. /\ UNCHANGED <<fwd, userStop, linkedIn, linkedOut, pathCtxDone>> /\ fixer'[s] = f /\ fixer' \in [Feeds -> FixerStages]
      /\ \A t \in Feeds \ {s} : fixer'[t] = fixer[t]
  BY DEF forwarding, PathInv, PathTypes
<1>2. UNCHANGED <<previousSource, timeShift, latestPTS, skippedPackets, passed>>
  BY DEF routeNode
<1>3. PathTypes /\ InTheirOrder /\ OtherwiseCovered /\ \A t \in Feeds : StagesFit(t)
  BY LosesSays DEF PathInv
<1>4. NodesTyped'
  BY <1>1, <1>3 DEF NodesTyped, PathTypes
<1>5. PathTypes'
  BY <1>3, <1>4, PlacesTyped
<1>6. InTheirOrder'
  BY <1>2, <1>3, <1>5, WayMoves
<1>7. SentOf(s)' = {Feed[s][k] : k \in 1..n} /\ \A t \in Feeds \ {s} : SentOf(t)' = SentOf(t)
  BY <1>3, SentMoves
<1>8. \A t \in Feeds : StagesFit(t)'
  <2>1. \A t \in Feeds \ {s} : StagesFit(t)'
    BY <1>1, <1>3, <1>7 DEF StagesFit
  <2>2. StagesFit(s)'
    BY <1>1, <1>3, <1>7 DEF StagesFit
  <2>q. QED  BY <2>1, <2>2
<1>9. \A t \in Feeds \ {s} : OnTheWay(t)' = OnTheWay(t)
  <2>1. \A t \in Feeds \ {s} : headers'[t] = headers[t] /\ mapper'[t] = mapper[t] /\ leaving'[t] = leaving[t]
    BY <1>3 DEF PlacesSet, PathTypes
  <2>q. QED  BY <2>1 DEF OnTheWay
<1>10. Works(s)' => \A o \in SentOf(s)' : Covered(s, o)'
  <2> SUFFICES ASSUME Works(s)', NEW o \in SentOf(s)'  PROVE Covered(s, o)'
    OBVIOUS
  <2>1. Works(s) /\ f # "failed"
    <3>1. fixer[s] # "failed"
      BY <1>1, <1>3 DEF Works, StagesFit
    <3>q. QED  BY <1>1, <3>1 DEF Works
  <2>2. {h, m, l} \subseteq OnTheWay(s)'
    <3>1. headers'[s] = h /\ mapper'[s] = m /\ leaving'[s] = l
      BY <1>3 DEF PlacesSet, PathTypes
    <3>q. QED  BY <3>1 DEF OnTheWay
  <2>3. o # NoPacket /\ OutputIndices(o)' = OutputIndices(o)
    <3>1. o \in Of(s)
      BY <1>7, Places
    <3>q. QED  BY <3>1, Places DEF OutputIndices
  <2>4. Covered(s, o) => Covered(s, o)'
    <3>1. o \in OnTheWay(s) => o \in {headers[s], mapper[s], leaving[s]} \/ o \in OnTheWay(s)'
      BY DEF OnTheWay
    <3>q. QED  BY <1>2, <2>1, <2>2, <2>3, <3>1 DEF Covered
  <2>q. QED  BY <1>2, <1>7, <2>1, <2>2, <2>4 DEF Covered
<1>11. OtherwiseCovered'
  <2>1. \A t \in Feeds \ {s} : Works(t)' => Works(t)
    BY <1>1 DEF Works
  <2>q. QED  BY <1>2, <1>3, <1>7, <1>9, <1>10, <2>1, LosesMoves
<1>12. LosesNothing'
  BY <1>11 DEF LosesNothing, OtherwiseCovered, Works, Covered
<1>q. QED  BY <1>5, <1>6, <1>8, <1>12 DEF PathInv

\* Those of the steps that no packet leaves for the route.
LEMMA SendKeeps ==
  ASSUME PathInv, NEW s \in Feeds, Send(s)
  PROVE  PathInv'
<1> DEFINE n == next[s] + 1
           o == Feed[s][n]
<1>1. /\ PathTypes /\ InTheirOrder /\ OtherwiseCovered /\ StagesFit(s)
      /\ headers[s] \in Of(s) \cup {NoPacket} /\ mapper[s] \in Of(s) \cup {NoPacket} /\ leaving[s] \in Of(s) \cup {NoPacket}
      /\ next[s] \in Nat /\ fixer[s] \in FixerStages /\ unlinked \subseteq Packets
      /\ headers = [headers EXCEPT ![s] = headers[s]] /\ mapper = [mapper EXCEPT ![s] = mapper[s]]
      /\ leaving = [leaving EXCEPT ![s] = leaving[s]] /\ fixer = [fixer EXCEPT ![s] = fixer[s]]
  BY LosesSays DEF PathInv, PathTypes
<1>2. /\ headers[s] = NoPacket /\ n \in 1..Len(Feed[s]) /\ next' = [next EXCEPT ![s] = n] /\ next'[s] = n
      /\ UNCHANGED <<fixer, detected, mapper, leaving, arrivals>> /\ PathOnly
  <2>1. headers[s] = NoPacket /\ next[s] < Len(Feed[s]) /\ next' = [next EXCEPT ![s] = n]
    BY DEF Send
  <2>2. Len(Feed[s]) \in Nat
    BY Places
  <2>3. next'[s] = n
    <3>1. next \in [Feeds -> Nat]
      BY <1>1 DEF PathTypes
    <3>q. QED  BY <2>1, <3>1
  <2>4. UNCHANGED <<fixer, detected, mapper, leaving, arrivals>> /\ PathOnly
    BY DEF Send
  <2>q. QED  BY <1>1, <2>1, <2>2, <2>3, <2>4
<1>3. /\ s \in linkedIn => headers' = [headers EXCEPT ![s] = o] /\ UNCHANGED unlinked
      /\ s \notin linkedIn => unlinked' = unlinked \cup {o} /\ UNCHANGED headers
  BY <1>2 DEF Send
<1>4. o \in Of(s) /\ o \in Packets /\ o # NoPacket /\ PlaceOf(s, o) = n
  BY <1>2, Places
<1>5. UNCHANGED <<shouldFixPTS, toFLV, arrivals, routeNode, forwarding>>
  BY <1>2 DEF PathOnly
<1>6. AtHeaders(s) = n
  BY <1>2 DEF AtHeaders
<1>7. OnTheirWay(s) /\ AtMapper(s) \in Nat /\ AtLeaving(s) \in Nat /\ n \in Nat /\ n <= Len(Feed[s])
  BY <1>1, <1>2, PlacesOf DEF InTheirOrder
<1>8. {Feed[s][k] : k \in 1..n} = SentOf(s) \cup {o}
  BY <1>1 DEF SentOf
<1>9. fwd[s] \in {"new", "notify", "linkIn"} => s \notin linkedIn /\ SentOf(s) \subseteq unlinked
  BY <1>1 DEF StagesFit
<1>10. Works(s) => s \in linkedIn /\ \A p \in SentOf(s) : Covered(s, p)
  BY <1>1 DEF Works, StagesFit, OtherwiseCovered
<1>11. fixer[s] = "closed" => fwd[s] = "off"
  BY <1>1 DEF StagesFit
<1> HIDE DEF n, o
<1>12. CASE s \in linkedIn
  <2>1. PlacesSet(s, o, mapper[s], leaving[s], n)
    BY <1>1, <1>2, <1>3, <1>12 DEF PlacesSet
  <2>2. /\ HeadersAt(s, o, n) = n /\ MapperAt(s, o, mapper[s], n) = AtMapper(s)
        /\ LeavingAt(s, o, mapper[s], leaving[s], n) = AtLeaving(s)
    BY <1>4, <1>6 DEF HeadersAt, MapperAt, LeavingAt, AtMapper, AtLeaving
  <2>3. /\ (o # NoPacket => HeadersAt(s, o, n) <= n) /\ (mapper[s] # NoPacket => MapperAt(s, o, mapper[s], n) < HeadersAt(s, o, n))
        /\ leaving[s] # NoPacket => LeavingAt(s, o, mapper[s], leaving[s], n) < MapperAt(s, o, mapper[s], n)
        /\ AtLeaving(s) <= LeavingAt(s, o, mapper[s], leaving[s], n)
    BY <1>6, <1>7, <2>2 DEF OnTheirWay
  <2>4. unlinked' = unlinked
    BY <1>3, <1>12
  <2>q. QED  BY <1>1, <1>2, <1>4, <1>5, <1>7, <1>8, <1>9, <1>10, <1>11, <1>12, <2>1, <2>3, <2>4, PacketMoves
<1>13. CASE s \notin linkedIn
  <2>1. PlacesSet(s, NoPacket, mapper[s], leaving[s], n)
    BY <1>1, <1>2, <1>3, <1>13 DEF PlacesSet
  <2>2. /\ HeadersAt(s, NoPacket, n) = n + 1
        /\ MapperAt(s, NoPacket, mapper[s], n) = IF mapper[s] # NoPacket THEN AtMapper(s) ELSE n + 1
        /\ LeavingAt(s, NoPacket, mapper[s], leaving[s], n) = IF leaving[s] # NoPacket THEN AtLeaving(s) ELSE MapperAt(s, NoPacket, mapper[s], n)
    BY DEF HeadersAt, MapperAt, LeavingAt, AtMapper, AtLeaving
  <2>3. /\ (NoPacket # NoPacket => HeadersAt(s, NoPacket, n) <= n) /\ (mapper[s] # NoPacket => MapperAt(s, NoPacket, mapper[s], n) < HeadersAt(s, NoPacket, n))
        /\ leaving[s] # NoPacket => LeavingAt(s, NoPacket, mapper[s], leaving[s], n) < MapperAt(s, NoPacket, mapper[s], n)
        /\ AtLeaving(s) <= LeavingAt(s, NoPacket, mapper[s], leaving[s], n)
    <3>1. AtMapper(s) = (IF mapper[s] # NoPacket THEN AtMapper(s) ELSE n) /\ AtLeaving(s) = (IF leaving[s] # NoPacket THEN AtLeaving(s) ELSE AtMapper(s))
      BY <1>6 DEF AtMapper, AtLeaving
    <3>q. QED  BY <1>6, <1>7, <2>2, <3>1 DEF OnTheirWay
  <2>4. unlinked' = unlinked \cup {o}
    BY <1>3, <1>13
  <2>5. fwd[s] \in {"new", "notify", "linkIn"} => {Feed[s][k] : k \in 1..n} \subseteq unlinked'
    BY <1>8, <1>9, <2>4
  <2>6. ~Works(s)
    BY <1>10, <1>13
  <2>7. unlinked \subseteq unlinked' /\ unlinked' \subseteq Packets /\ NoPacket \in Of(s) \cup {NoPacket}
    BY <1>1, <1>4, <2>4
  <2>8. fixer' = [fixer EXCEPT ![s] = fixer[s]]
    BY <1>1, <1>2
  <2>q. QED  BY <1>1, <1>5, <1>7, <1>11, <2>1, <2>3, <2>5, <2>6, <2>7, <2>8, PacketMoves
<1>q. QED  BY <1>12, <1>13

LEMMA PlacesChange ==
  ASSUME PathInv, NEW s \in Feeds, NEW h \in Of(s) \cup {NoPacket}, NEW m \in Of(s) \cup {NoPacket},
         NEW l \in Of(s) \cup {NoPacket}, NEW f \in FixerStages,
         headers' = [headers EXCEPT ![s] = h], mapper' = [mapper EXCEPT ![s] = m], leaving' = [leaving EXCEPT ![s] = l],
         fixer' = [fixer EXCEPT ![s] = f],
         UNCHANGED <<next, unlinked, shouldFixPTS, toFLV, arrivals, routeNode, forwarding>>,
         (h # NoPacket => HeadersAt(s, h, next[s]) <= next[s]),
         m # NoPacket => MapperAt(s, h, m, next[s]) < HeadersAt(s, h, next[s]),
         l # NoPacket => LeavingAt(s, h, m, l, next[s]) < MapperAt(s, h, m, next[s]),
         AtLeaving(s) <= LeavingAt(s, h, m, l, next[s]),
         f \in {"served", "failed"} => fixer[s] \in {"served", "failed"}, f = "closed" => fwd[s] = "off",
         fixer[s] = "failed" => f \in {"failed", "closed"},
         Works(s) /\ f # "failed" =>
           \A o \in {headers[s], mapper[s], leaving[s]} : o \in {NoPacket, h, m, l} \/ OutputIndices(o) = {}
  PROVE  PathInv'
<1>1. /\ PathTypes /\ OtherwiseCovered /\ StagesFit(s) /\ unlinked \subseteq Packets
      /\ next[s] \in Nat /\ next[s] <= Len(Feed[s]) /\ next = [next EXCEPT ![s] = next[s]]
  BY LosesSays DEF PathInv, PathTypes
<1>2. PlacesSet(s, h, m, l, next[s])
  BY <1>1 DEF PlacesSet
<1>3. fwd[s] \in {"new", "notify", "linkIn"} => {Feed[s][k] : k \in 1..next[s]} \subseteq unlinked'
  BY <1>1 DEF StagesFit, SentOf
<1>4. Works(s) /\ f # "failed" => \A o \in {Feed[s][k] : k \in 1..next[s]} : Covered(s, o)
  BY <1>1 DEF OtherwiseCovered, SentOf
<1>q. QED  BY <1>1, <1>2, <1>3, <1>4, PacketMoves

\* The places of the packets of s as they are.
LEMMA PathStands ==
  ASSUME PathInv, NEW s \in Feeds
  PROVE  /\ PathTypes /\ InTheirOrder /\ OtherwiseCovered /\ StagesFit(s) /\ OnTheirWay(s)
         /\ headers[s] \in Of(s) \cup {NoPacket} /\ mapper[s] \in Of(s) \cup {NoPacket} /\ leaving[s] \in Of(s) \cup {NoPacket}
         /\ next[s] \in Nat /\ next[s] <= Len(Feed[s]) /\ fixer[s] \in FixerStages /\ fwd[s] \in ForwarderStages
         /\ headers = [headers EXCEPT ![s] = headers[s]] /\ mapper = [mapper EXCEPT ![s] = mapper[s]]
         /\ leaving = [leaving EXCEPT ![s] = leaving[s]] /\ fixer = [fixer EXCEPT ![s] = fixer[s]]
         /\ AtHeaders(s) \in Nat /\ AtMapper(s) \in Nat /\ AtLeaving(s) \in Nat
         /\ AtHeaders(s) = HeadersAt(s, headers[s], next[s]) /\ AtMapper(s) = MapperAt(s, headers[s], mapper[s], next[s])
         /\ AtLeaving(s) = LeavingAt(s, headers[s], mapper[s], leaving[s], next[s])
<1>1. PathTypes /\ InTheirOrder /\ OtherwiseCovered /\ StagesFit(s) /\ OnTheirWay(s)
  BY LosesSays DEF PathInv, InTheirOrder
<1>2. AtHeaders(s) \in Nat /\ AtMapper(s) \in Nat /\ AtLeaving(s) \in Nat
  BY <1>1, PlacesOf
<1>3. /\ AtHeaders(s) = HeadersAt(s, headers[s], next[s]) /\ AtMapper(s) = MapperAt(s, headers[s], mapper[s], next[s])
      /\ AtLeaving(s) = LeavingAt(s, headers[s], mapper[s], leaving[s], next[s])
  BY DEF AtHeaders, AtMapper, AtLeaving, HeadersAt, MapperAt, LeavingAt
<1>q. QED  BY <1>1, <1>2, <1>3 DEF PathTypes

LEMMA FixHeadersKeeps ==
  ASSUME PathInv, NEW s \in Feeds, FixHeaders(s)
  PROVE  PathInv'
<1>1. /\ headers[s] # NoPacket /\ mapper[s] = NoPacket /\ fixer' = fixer
      /\ mapper' = [mapper EXCEPT ![s] = headers[s]] /\ headers' = [headers EXCEPT ![s] = NoPacket]
      /\ UNCHANGED <<leaving, next, unlinked, shouldFixPTS, toFLV, arrivals, routeNode, forwarding>>
  BY DEF FixHeaders, PathOnly
<1>2. leaving' = [leaving EXCEPT ![s] = leaving[s]] /\ fixer' = [fixer EXCEPT ![s] = fixer[s]]
  BY <1>1, PathStands
<1>3. /\ HeadersAt(s, NoPacket, next[s]) = next[s] + 1 /\ MapperAt(s, NoPacket, headers[s], next[s]) = AtHeaders(s)
      /\ AtMapper(s) = AtHeaders(s) /\ AtHeaders(s) <= next[s]
      /\ LeavingAt(s, NoPacket, headers[s], leaving[s], next[s]) = AtLeaving(s)
  BY <1>1, PathStands DEF HeadersAt, MapperAt, LeavingAt, OnTheirWay
<1>4. /\ MapperAt(s, NoPacket, headers[s], next[s]) < HeadersAt(s, NoPacket, next[s])
      /\ leaving[s] # NoPacket => LeavingAt(s, NoPacket, headers[s], leaving[s], next[s]) < MapperAt(s, NoPacket, headers[s], next[s])
      /\ AtLeaving(s) <= LeavingAt(s, NoPacket, headers[s], leaving[s], next[s])
  BY <1>1, <1>3, PathStands DEF OnTheirWay
<1>5. fixer[s] = "closed" => fwd[s] = "off"
  BY PathStands DEF StagesFit
<1>9. /\ headers[s] \in Of(s) \cup {NoPacket} /\ mapper[s] \in Of(s) \cup {NoPacket} /\ leaving[s] \in Of(s) \cup {NoPacket}
      /\ NoPacket \in Of(s) \cup {NoPacket} /\ fixer[s] \in FixerStages
  BY PathStands
<1>10. fixer[s] = "served" /\ (NoPacket # NoPacket => HeadersAt(s, NoPacket, next[s]) <= next[s]) /\ \A o \in {headers[s], mapper[s], leaving[s]} : o \in {NoPacket, NoPacket, headers[s], leaving[s]}
  BY <1>1 DEF FixHeaders
<1>11. /\ fixer[s] \in {"served", "failed"} => fixer[s] \in {"served", "failed"}
       /\ fixer[s] = "failed" => fixer[s] \in {"failed", "closed"}
  OBVIOUS
<1>12. headers[s] # NoPacket => MapperAt(s, NoPacket, headers[s], next[s]) < HeadersAt(s, NoPacket, next[s])
  BY <1>4
<1>13. Works(s) /\ fixer[s] # "failed" =>
         \A o \in {headers[s], mapper[s], leaving[s]} : o \in {NoPacket, NoPacket, headers[s], leaving[s]} \/ OutputIndices(o) = {}
  BY <1>10
<1>14. UNCHANGED <<next, unlinked, shouldFixPTS, toFLV, arrivals, routeNode, forwarding>>
  BY <1>1
<1>15. mapper' = [mapper EXCEPT ![s] = headers[s]] /\ headers' = [headers EXCEPT ![s] = NoPacket]
  BY <1>1
<1>q. QED  BY <1>2, <1>4, <1>5, <1>9, <1>10, <1>11, <1>12, <1>13, <1>14, <1>15, PlacesChange

LEMMA FixFailsKeeps ==
  ASSUME PathInv, NEW s \in Feeds, FixFails(s)
  PROVE  PathInv'
<1>1. /\ fixer[s] = "served" /\ fixer' = [fixer EXCEPT ![s] = "failed"] /\ headers' = [headers EXCEPT ![s] = NoPacket]
      /\ UNCHANGED <<mapper, leaving, next, unlinked, shouldFixPTS, toFLV, arrivals, routeNode, forwarding>>
  BY DEF FixFails, PathOnly
<1>2. leaving' = [leaving EXCEPT ![s] = leaving[s]] /\ mapper' = [mapper EXCEPT ![s] = mapper[s]] /\ "failed" \in FixerStages
  BY <1>1, PathStands DEF FixerStages
<1>3. /\ HeadersAt(s, NoPacket, next[s]) = next[s] + 1 /\ AtHeaders(s) <= next[s] + 1
      /\ MapperAt(s, NoPacket, mapper[s], next[s]) = IF mapper[s] # NoPacket THEN AtMapper(s) ELSE next[s] + 1
      /\ LeavingAt(s, NoPacket, mapper[s], leaving[s], next[s]) =
           IF leaving[s] # NoPacket THEN AtLeaving(s) ELSE MapperAt(s, NoPacket, mapper[s], next[s])
      /\ AtMapper(s) = (IF mapper[s] # NoPacket THEN AtMapper(s) ELSE AtHeaders(s))
      /\ AtLeaving(s) = (IF leaving[s] # NoPacket THEN AtLeaving(s) ELSE AtMapper(s))
  BY PathStands DEF HeadersAt, MapperAt, LeavingAt, AtHeaders, AtMapper, AtLeaving, OnTheirWay
<1>4. /\ mapper[s] # NoPacket => MapperAt(s, NoPacket, mapper[s], next[s]) < HeadersAt(s, NoPacket, next[s])
      /\ leaving[s] # NoPacket => LeavingAt(s, NoPacket, mapper[s], leaving[s], next[s]) < MapperAt(s, NoPacket, mapper[s], next[s])
      /\ AtLeaving(s) <= LeavingAt(s, NoPacket, mapper[s], leaving[s], next[s])
  BY <1>3, PathStands DEF OnTheirWay
<1>9. /\ headers[s] \in Of(s) \cup {NoPacket} /\ mapper[s] \in Of(s) \cup {NoPacket} /\ leaving[s] \in Of(s) \cup {NoPacket}
      /\ NoPacket \in Of(s) \cup {NoPacket} /\ fixer[s] \in FixerStages
  BY PathStands
<1>10. NoPacket # NoPacket => HeadersAt(s, NoPacket, next[s]) <= next[s]
  OBVIOUS
<1>q. QED  BY <1>1, <1>2, <1>4, <1>9, <1>10, PlacesChange

LEMMA MapIndicesKeeps ==
  ASSUME PathInv, NEW s \in Feeds, MapIndices(s)
  PROVE  PathInv'
<1> DEFINE l == IF OutputIndices(mapper[s]) # {} /\ s \in linkedOut THEN mapper[s] ELSE NoPacket
<1>1. /\ mapper[s] # NoPacket /\ leaving[s] = NoPacket /\ mapper' = [mapper EXCEPT ![s] = NoPacket]
      /\ fixer[s] \in {"served", "failed"} /\ fixer' = fixer
      /\ UNCHANGED <<headers, next, unlinked, shouldFixPTS, toFLV, arrivals, routeNode, forwarding>>
  BY DEF MapIndices, PathOnly
<1>2. headers' = [headers EXCEPT ![s] = headers[s]] /\ fixer' = [fixer EXCEPT ![s] = fixer[s]]
  BY <1>1, PathStands
<1>3. leaving' = [leaving EXCEPT ![s] = l]
  <2>1. leaving = [leaving EXCEPT ![s] = NoPacket]
    BY <1>1, PathStands
  <2>q. QED  BY <2>1 DEF MapIndices
<1>4. l \in Of(s) \cup {NoPacket} /\ (l # NoPacket => l = mapper[s])
  BY PathStands
<1>5. Works(s) => l = mapper[s] \/ OutputIndices(mapper[s]) = {}
  BY <1>1, PathStands DEF Works, StagesFit
<1> HIDE DEF l
<1>6. /\ HeadersAt(s, headers[s], next[s]) = AtHeaders(s) /\ MapperAt(s, headers[s], NoPacket, next[s]) = AtHeaders(s)
      /\ LeavingAt(s, headers[s], NoPacket, l, next[s]) = IF l # NoPacket THEN AtMapper(s) ELSE AtHeaders(s)
      /\ AtLeaving(s) = AtMapper(s) /\ AtMapper(s) < AtHeaders(s)
  BY <1>1, <1>4, PathStands DEF HeadersAt, MapperAt, LeavingAt, AtHeaders, AtMapper, AtLeaving, OnTheirWay
<1>7. /\ headers[s] # NoPacket => HeadersAt(s, headers[s], next[s]) <= next[s]
      /\ l # NoPacket => LeavingAt(s, headers[s], NoPacket, l, next[s]) < MapperAt(s, headers[s], NoPacket, next[s])
      /\ AtLeaving(s) <= LeavingAt(s, headers[s], NoPacket, l, next[s])
  BY <1>6, PathStands DEF OnTheirWay
<1>8. Works(s) => \A o \in {headers[s], mapper[s], leaving[s]} : o \in {NoPacket, headers[s], NoPacket, l} \/ OutputIndices(o) = {}
  BY <1>1, <1>5
<1>9. /\ headers[s] \in Of(s) \cup {NoPacket} /\ mapper[s] \in Of(s) \cup {NoPacket} /\ leaving[s] \in Of(s) \cup {NoPacket}
      /\ NoPacket \in Of(s) \cup {NoPacket} /\ fixer[s] \in FixerStages
  BY PathStands
<1>10. (NoPacket # NoPacket => MapperAt(s, headers[s], NoPacket, next[s]) < HeadersAt(s, headers[s], next[s]))
  OBVIOUS
<1>11. /\ fixer[s] \in {"served", "failed"} /\ (fixer[s] = "closed" => fwd[s] = "off") /\ (fixer[s] = "failed" => fixer[s] \in {"failed", "closed"})
       /\ Works(s) /\ fixer[s] # "failed" =>
            \A o \in {headers[s], mapper[s], leaving[s]} : o \in {NoPacket, headers[s], NoPacket, l} \/ OutputIndices(o) = {}
  BY <1>1, <1>8
<1>12. l \in Of(s) \cup {NoPacket}
  BY <1>4
<1>13. UNCHANGED <<next, unlinked, shouldFixPTS, toFLV, arrivals, routeNode, forwarding>> /\ mapper' = [mapper EXCEPT ![s] = NoPacket]
  BY <1>1
<1>q. QED  BY <1>2, <1>3, <1>7, <1>9, <1>10, <1>11, <1>12, <1>13, PlacesChange

LEMMA CutOffKeeps ==
  ASSUME PathInv, NEW s \in Feeds, CutOff(s)
  PROVE  PathInv'
<1>1. /\ leaving[s] # NoPacket /\ s \in pathCtxDone /\ leaving' = [leaving EXCEPT ![s] = NoPacket] /\ fixer' = fixer
      /\ UNCHANGED <<headers, mapper, next, unlinked, shouldFixPTS, toFLV, arrivals, routeNode, forwarding>>
  BY DEF CutOff, PathOnly
<1>2. headers' = [headers EXCEPT ![s] = headers[s]] /\ mapper' = [mapper EXCEPT ![s] = mapper[s]] /\ fixer' = [fixer EXCEPT ![s] = fixer[s]]
  BY <1>1, PathStands
<1>3. fwd[s] = "off" /\ ~Works(s)
  BY <1>1, PathStands DEF StagesFit, Works
<1>4. LeavingAt(s, headers[s], mapper[s], NoPacket, next[s]) = AtMapper(s)
  BY PathStands DEF LeavingAt
<1>5. /\ headers[s] # NoPacket => HeadersAt(s, headers[s], next[s]) <= next[s]
      /\ mapper[s] # NoPacket => MapperAt(s, headers[s], mapper[s], next[s]) < HeadersAt(s, headers[s], next[s])
      /\ AtLeaving(s) <= LeavingAt(s, headers[s], mapper[s], NoPacket, next[s])
  BY <1>1, <1>4, PathStands DEF OnTheirWay
<1>9. /\ headers[s] \in Of(s) \cup {NoPacket} /\ mapper[s] \in Of(s) \cup {NoPacket}
      /\ NoPacket \in Of(s) \cup {NoPacket} /\ fixer[s] \in FixerStages
  BY PathStands
<1>10. NoPacket # NoPacket => LeavingAt(s, headers[s], mapper[s], NoPacket, next[s]) < MapperAt(s, headers[s], mapper[s], next[s])
  OBVIOUS
<1>11. UNCHANGED <<next, unlinked, shouldFixPTS, toFLV, arrivals, routeNode, forwarding>> /\ leaving' = [leaving EXCEPT ![s] = NoPacket]
  BY <1>1
<1>12. /\ fixer[s] \in {"served", "failed"} => fixer[s] \in {"served", "failed"}
       /\ fixer[s] = "closed" => fwd[s] = "off"
       /\ fixer[s] = "failed" => fixer[s] \in {"failed", "closed"}
       /\ Works(s) /\ fixer[s] # "failed" =>
            \A o \in {headers[s], mapper[s], leaving[s]} : o \in {NoPacket, headers[s], mapper[s], NoPacket} \/ OutputIndices(o) = {}
  BY <1>3
<1>q. QED  BY <1>2, <1>5, <1>9, <1>10, <1>11, <1>12, PlacesChange

LEMMA CloseFixerKeeps ==
  ASSUME PathInv, NEW s \in Feeds, CloseFixer(s)
  PROVE  PathInv'
<1>1. /\ s \in pathCtxDone /\ fixer' = [fixer EXCEPT ![s] = "closed"]
      /\ headers' = [headers EXCEPT ![s] = NoPacket] /\ mapper' = [mapper EXCEPT ![s] = NoPacket]
      /\ UNCHANGED <<leaving, next, unlinked, shouldFixPTS, toFLV, arrivals, routeNode, forwarding>>
  BY DEF CloseFixer
<1>2. leaving' = [leaving EXCEPT ![s] = leaving[s]] /\ "closed" \in FixerStages
  BY <1>1, PathStands DEF FixerStages
<1>3. fwd[s] = "off" /\ ~Works(s)
  BY <1>1, PathStands DEF StagesFit, Works
<1>4. /\ HeadersAt(s, NoPacket, next[s]) = next[s] + 1 /\ MapperAt(s, NoPacket, NoPacket, next[s]) = next[s] + 1
      /\ LeavingAt(s, NoPacket, NoPacket, leaving[s], next[s]) = IF leaving[s] # NoPacket THEN AtLeaving(s) ELSE next[s] + 1
      /\ AtHeaders(s) <= next[s] + 1 /\ AtMapper(s) <= next[s] + 1
      /\ AtLeaving(s) = (IF leaving[s] # NoPacket THEN AtLeaving(s) ELSE AtMapper(s))
  BY PathStands DEF HeadersAt, MapperAt, LeavingAt, AtHeaders, AtMapper, AtLeaving, OnTheirWay
<1>5. /\ leaving[s] # NoPacket => LeavingAt(s, NoPacket, NoPacket, leaving[s], next[s]) < MapperAt(s, NoPacket, NoPacket, next[s])
      /\ AtLeaving(s) <= LeavingAt(s, NoPacket, NoPacket, leaving[s], next[s])
  BY <1>4, PathStands DEF OnTheirWay
<1>9. /\ headers[s] \in Of(s) \cup {NoPacket} /\ mapper[s] \in Of(s) \cup {NoPacket} /\ leaving[s] \in Of(s) \cup {NoPacket}
      /\ NoPacket \in Of(s) \cup {NoPacket} /\ fixer[s] \in FixerStages
  BY PathStands
<1>10. (NoPacket # NoPacket => MapperAt(s, NoPacket, NoPacket, next[s]) < HeadersAt(s, NoPacket, next[s])) /\ (NoPacket # NoPacket => HeadersAt(s, NoPacket, next[s]) <= next[s])
  OBVIOUS
<1>q. QED  BY <1>1, <1>2, <1>3, <1>5, <1>9, <1>10, PlacesChange

\* A packet arrives at the route ...
LEMMA ArriveKeeps ==
  ASSUME PathInv, NEW s \in Feeds, Arrive(s)
  PROVE  PathInv'
<1> DEFINE o == leaving[s]
           last == Len(arrivals) + 1
<1>1. /\ o # NoPacket /\ arrivals' = Append(arrivals, <<s, o>>) /\ leaving' = [leaving EXCEPT ![s] = NoPacket]
      /\ UNCHANGED <<fixer, next, unlinked, headers, mapper, shouldFixPTS, toFLV, forwarding, routeNode>>
  BY DEF Arrive, PathOnly
<1>2. /\ PathTypes /\ InTheirOrder /\ OtherwiseCovered /\ OnTheirWay(s) /\ \A t \in Feeds : StagesFit(t)
      /\ o \in Of(s) /\ o \in Packets /\ PlaceOf(s, o) = AtLeaving(s)
      /\ AtLeaving(s) \in Nat /\ AtMapper(s) \in Nat /\ AtLeaving(s) < AtMapper(s)
  BY <1>1, PathStands, Places DEF PathInv, AtLeaving, OnTheirWay
<1>3. UNCHANGED <<fwd, userStop, linkedIn, linkedOut, pathCtxDone, previousSource, timeShift, latestPTS, skippedPackets, passed>>
  BY <1>1 DEF forwarding, routeNode
<1>4. /\ arrivals \in Seq(Feeds \X Packets) /\ arrivals' \in Seq(Feeds \X Packets) /\ Len(arrivals) \in Nat
      /\ DOMAIN arrivals = 1..Len(arrivals) /\ DOMAIN arrivals' = 1..last
      /\ arrivals'[last] = <<s, o>> /\ \A k \in DOMAIN arrivals : arrivals'[k] = arrivals[k]
  <2>1. arrivals \in Seq(Feeds \X Packets) /\ <<s, o>> \in Feeds \X Packets
    BY <1>2 DEF PathTypes
  <2> DEFINE e == <<s, o>>
  <2> HIDE DEF o, e
  <2>2. arrivals' = Append(arrivals, e) /\ e \in Feeds \X Packets
    BY <1>1, <2>1 DEF e
  <2>q. QED  BY <2>1, <2>2 DEF e
<1> HIDE DEF o, last
<1>5. \A k \in DOMAIN arrivals' : k \in DOMAIN arrivals \/ (k = last /\ arrivals'[k][1] = s /\ arrivals'[k][2] = o)
  BY <1>4 DEF last
<1>6. PathTypes'
  <2>1. leaving' \in [Feeds -> Packets \cup {NoPacket}] /\ \A t \in Feeds : leaving'[t] \in {leaving[t], NoPacket}
    BY <1>1, <1>2 DEF PathTypes
  <2>2. \A k \in DOMAIN arrivals' : arrivals'[k][2] \in Of(arrivals'[k][1])
    BY <1>2, <1>4, <1>5 DEF PathTypes
  <2>3. \A t \in Feeds : {headers'[t], mapper'[t], leaving'[t]} \subseteq Of(t) \cup {NoPacket}
    BY <1>1, <1>2, <2>1 DEF PathTypes
  <2>4. /\ shouldFixPTS' \in BOOLEAN /\ toFLV' \in BOOLEAN
        /\ fwd' \in [Feeds -> ForwarderStages] /\ fixer' \in [Feeds -> FixerStages]
        /\ linkedIn' \subseteq Feeds /\ linkedOut' \subseteq Feeds /\ pathCtxDone' \subseteq Feeds
        /\ next' \in [Feeds -> Nat] /\ \A t \in Feeds : next'[t] <= Len(Feed[t])
        /\ unlinked' \subseteq Packets /\ skippedPackets' \subseteq Packets
        /\ headers' \in [Feeds -> Packets \cup {NoPacket}] /\ mapper' \in [Feeds -> Packets \cup {NoPacket}]
    BY <1>1, <1>2, <1>3 DEF PathTypes
  <2>5. /\ passed' \in Seq(Entries) /\ \A k \in DOMAIN passed' : passed'[k].packet \in Of(passed'[k].from)
        /\ previousSource' \in [Indices -> Feeds \cup {"none"}] /\ latestPTS' \in Int
        /\ timeShift' \in [Feeds -> [exact : Nat, applied : Nat]]
    BY <1>2, <1>3 DEF PathTypes
  <2>q. QED  BY <1>4, <2>1, <2>2, <2>3, <2>4, <2>5 DEF PathTypes, Of
<1>7. PlacesSet(s, headers[s], mapper[s], NoPacket, next[s])
  BY <1>1, <1>2 DEF PlacesSet, PathTypes
<1>8. /\ AtLeaving(s)' = AtMapper(s) /\ OnTheirWay(s)'
      /\ \A t \in Feeds \ {s} : AtLeaving(t)' = AtLeaving(t) /\ OnTheirWay(t)'
  <2>1. /\ HeadersAt(s, headers[s], next[s]) = AtHeaders(s) /\ MapperAt(s, headers[s], mapper[s], next[s]) = AtMapper(s)
        /\ LeavingAt(s, headers[s], mapper[s], NoPacket, next[s]) = AtMapper(s)
    BY DEF HeadersAt, MapperAt, LeavingAt, AtHeaders, AtMapper
  <2>2. \A t \in Feeds : OnTheirWay(t)
    BY <1>2 DEF InTheirOrder
  <2>q. QED  BY <1>2, <1>7, <2>1, <2>2, PlacesNow DEF OnTheirWay
<1>9. \A t \in Feeds : AtLeaving(t) <= AtLeaving(t)' /\ AtLeaving(t) \in Nat /\ AtLeaving(t)' \in Nat
  BY <1>2, <1>6, <1>8, PlacesOf, PlacesAfter
<1>10. HaveArrived'
  <2>1. HaveArrived
    BY <1>2 DEF InTheirOrder
  <2>2. \A k \in DOMAIN arrivals : arrivals[k][1] \in Feeds /\ PlaceOf(arrivals[k][1], arrivals[k][2]) \in Nat
    BY <1>2, PlacesBehind
  <2>3. ASSUME NEW t \in Feeds, NEW k \in DOMAIN arrivals', arrivals'[k][1] = t
        PROVE  PlaceOf(t, arrivals'[k][2]) < AtLeaving(t)'
    <3>1. CASE k \in DOMAIN arrivals
      <4>1. arrivals[k][1] = t /\ arrivals'[k][2] = arrivals[k][2]
        BY <1>4, <2>3, <3>1
      <4>2. PlaceOf(t, arrivals[k][2]) < AtLeaving(t) /\ PlaceOf(t, arrivals[k][2]) \in Nat
        BY <2>1, <2>2, <3>1, <4>1 DEF HaveArrived
      <4>q. QED  BY <1>9, <4>1, <4>2
    <3>2. CASE k \notin DOMAIN arrivals
      BY <1>2, <1>5, <1>8, <2>3, <3>2
    <3>q. QED  BY <3>1, <3>2
  <2>4. ASSUME NEW k \in DOMAIN arrivals', NEW l \in DOMAIN arrivals', k < l, arrivals'[k][1] = arrivals'[l][1]
        PROVE  PlaceOf(arrivals'[k][1], arrivals'[k][2]) < PlaceOf(arrivals'[l][1], arrivals'[l][2])
    <3>1. k \in DOMAIN arrivals
      BY <1>4, <2>4 DEF last
    <3>2. CASE l \in DOMAIN arrivals
      BY <1>4, <2>1, <2>4, <3>1, <3>2 DEF HaveArrived
    <3>3. CASE l \notin DOMAIN arrivals
      BY <1>2, <1>4, <1>5, <2>1, <2>4, <3>1, <3>3 DEF HaveArrived
    <3>q. QED  BY <3>2, <3>3
  <2>q. QED  BY <2>3, <2>4 DEF HaveArrived, PlaceOf
<1>11. HavePassed'
  <2>1. HavePassed /\ \A k \in DOMAIN passed : passed[k].from \in Feeds /\ PlaceOf(passed[k].from, passed[k].packet) \in Nat
    BY <1>2, PlacesBehind DEF InTheirOrder
  <2>2. ASSUME NEW t \in Feeds, NEW k \in DOMAIN passed', passed'[k].from = t
        PROVE  PlaceOf(t, passed'[k].packet) < AtLeaving(t)'
    <3>1. passed[k].from = t /\ k \in DOMAIN passed /\ passed'[k].packet = passed[k].packet
      BY <1>3, <2>2
    <3>2. PlaceOf(t, passed[k].packet) < AtLeaving(t) /\ PlaceOf(t, passed[k].packet) \in Nat
      BY <2>1, <3>1 DEF HavePassed
    <3>q. QED  BY <1>9, <3>1, <3>2
  <2>3. ASSUME NEW k \in DOMAIN passed', NEW l \in DOMAIN arrivals', passed'[k].from = arrivals'[l][1]
        PROVE  PlaceOf(passed'[k].from, passed'[k].packet) < PlaceOf(arrivals'[l][1], arrivals'[l][2])
    <3>1. CASE l \in DOMAIN arrivals
      BY <1>3, <1>4, <2>1, <2>3, <3>1 DEF HavePassed
    <3>2. CASE l \notin DOMAIN arrivals
      BY <1>2, <1>3, <1>5, <2>1, <2>3, <3>2 DEF HavePassed
    <3>q. QED  BY <3>1, <3>2
  <2>q. QED  BY <2>2, <2>3 DEF HavePassed, PlaceOf
<1>12. InTheirOrder'
  BY <1>2, <1>3, <1>8, <1>10, <1>11 DEF InTheirOrder, ArrivesInOrder, PlaceOf
<1>13. \A t \in Feeds : StagesFit(t)' /\ SentOf(t)' = SentOf(t) /\ (Works(t)' <=> Works(t))
  BY <1>1, <1>2, <1>3 DEF StagesFit, SentOf, Works
<1>14. \A t \in Feeds : OnTheWay(t) \subseteq OnTheWay(t)'
  <2>1. ToSet(arrivals) \subseteq ToSet(arrivals') /\ <<s, o>> \in ToSet(arrivals')
    <3>1. DOMAIN arrivals \subseteq DOMAIN arrivals' /\ last \in DOMAIN arrivals'
      BY <1>4 DEF last
    <3>q. QED  BY <1>4, <3>1 DEF ToSet
  <2>2. \A t \in Feeds : {headers[t], mapper[t]} \subseteq {headers'[t], mapper'[t]} /\ (t # s => leaving'[t] = leaving[t])
    BY <1>1, <1>2 DEF PathTypes
  <2>3. o \in OnTheWay(s)'
    BY <2>1 DEF OnTheWay
  <2>q. QED  BY <2>1, <2>2, <2>3 DEF OnTheWay, o
<1>15. OtherwiseCovered'
  <2>1. Works(s)' => \A p \in SentOf(s)' : Covered(s, p)'
    <3>1. \A p : OutputIndices(p)' = OutputIndices(p)
      BY <1>1 DEF OutputIndices
    <3>q. QED  BY <1>1, <1>2, <1>3, <1>13, <1>14, <3>1 DEF OtherwiseCovered, Covered
  <2>q. QED  BY <1>1, <1>2, <1>3, <1>13, <1>14, <2>1, LosesMoves
<1>16. LosesNothing'
  BY <1>15 DEF LosesNothing, OtherwiseCovered, Works, Covered
<1>q. QED  BY <1>6, <1>12, <1>13, <1>16 DEF PathInv

\* ... and the route's kernel takes it.
LEMMA OutputTyped ==
  ASSUME PathTypes, NEW s \in Feeds, NEW o \in Packets, NEW i \in Indices, NEW offset \in Int
  PROVE  /\ Output(s, o, i, offset) =>
              \E e \in Entries : /\ passed' = Append(passed, e) /\ e.from = s /\ e.packet = o /\ e.index = i
                                 /\ e.pts = PTSOf[o] + offset /\ e.dts <= e.pts
         /\ PassUnchanged(s, o, i) =>
              \E e \in Entries : passed' = Append(passed, e) /\ e.from = s /\ e.packet = o /\ e.index = i
<1>1. PTSOf[o] \in Int /\ DTSOf[o] \in Int
  BY PathAssumption
<1>2. Min({DTSOf[o], PTSOf[o]}) \in Int /\ Min({DTSOf[o], PTSOf[o]}) <= PTSOf[o]
  <2> DEFINE S == {DTSOf[o], PTSOf[o]}
  <2>1. \E x \in S : \A y \in S : x <= y
    BY <1>1
  <2>2. Min(S) \in S /\ \A y \in S : Min(S) <= y
    BY <2>1 DEF Min
  <2>q. QED  BY <1>1, <2>2
<1>3. ASSUME Output(s, o, i, offset)
      PROVE  \E e \in Entries : /\ passed' = Append(passed, e) /\ e.from = s /\ e.packet = o /\ e.index = i
                                /\ e.pts = PTSOf[o] + offset /\ e.dts <= e.pts
  <2> DEFINE m == Min({DTSOf[o], PTSOf[o]})
             e == [from |-> s, packet |-> o, index |-> i, pts |-> PTSOf[o] + offset, dts |-> m + offset]
  <2>1. passed' = Append(passed, e)
    BY <1>3 DEF Output
  <2>2. m \in Int /\ m <= PTSOf[o]
    BY <1>2
  <2> HIDE DEF m
  <2>3. e \in Entries /\ e.from = s /\ e.packet = o /\ e.index = i /\ e.pts = PTSOf[o] + offset /\ e.dts <= e.pts
    BY <1>1, <2>2 DEF Entries
  <2>q. QED  BY <2>1, <2>3
<1>4. ASSUME PassUnchanged(s, o, i)
      PROVE  \E e \in Entries : passed' = Append(passed, e) /\ e.from = s /\ e.packet = o /\ e.index = i
  <2> DEFINE e == [from |-> s, packet |-> o, index |-> i, pts |-> PTSOf[o], dts |-> DTSOf[o]]
  <2>1. passed' = Append(passed, e) /\ e \in Entries /\ e.from = s /\ e.packet = o /\ e.index = i
    BY <1>1, <1>4 DEF PassUnchanged, Entries
  <2>q. QED  BY <2>1
<1>q. QED  BY <1>3, <1>4

LEMMA IndicesOf == \A o \in Packets : OutputIndices(o) \subseteq Indices
BY DEF OutputIndices, Indices

\* A duration from a float is at most one off, towards zero.
LEMMA RoundedBy ==
  ASSUME NEW t \in Int, NEW r \in Rounded(t)
  PROVE  r \in Int /\ t - 1 <= r /\ r <= t + 1 /\ (t >= 0 => r >= 0 /\ r <= t)
BY DEF Rounded

\* What the kernel does with a packet: it lets it pass, or skips it.
Passes(s, o, i) ==
  \E e \in Entries : /\ passed' = Append(passed, e) /\ e.from = s /\ e.packet = o /\ e.index = i
                     /\ MediaOf[o] = "video" => e.dts <= e.pts
                     /\ skippedPackets' = skippedPackets
                     /\ \/ MediaOf[o] # "video" /\ UNCHANGED <<timeShift, latestPTS>>
                        \/ /\ MediaOf[o] = "video" /\ latestPTS' = e.pts
                           /\ \/ previousSource[i] = s /\ e.pts = PTSOf[o] + timeShift[s].applied /\ UNCHANGED timeShift
                              \/ /\ previousSource[i] # s /\ e.pts = PTSOf[o] /\ UNCHANGED timeShift
                                 /\ timeShift[s].exact = 0 => e.pts > latestPTS
                              \/ \E exact \in Nat, applied \in Nat :
                                   /\ previousSource[i] # s /\ shouldFixPTS /\ e.pts = PTSOf[o] + exact /\ e.pts > latestPTS
                                   /\ applied <= exact /\ exact <= applied + 1
                                   /\ timeShift' = [timeShift EXCEPT ![s] = [exact |-> exact, applied |-> applied]]
Skips(o) == ~shouldFixPTS /\ skippedPackets' = skippedPackets \cup {o} /\ UNCHANGED <<timeShift, latestPTS, passed>>

LEMMA KernelTakes ==
  ASSUME PathTypes, NEW s \in Feeds, NEW o \in Packets, NEW i \in Indices,
         PassUnchanged(s, o, i) \/ KeepShift(s, o, i) \/ ChangeSource(s, o, i)
  PROVE  Passes(s, o, i) \/ Skips(o)
<1>1. /\ timeShift[s].exact \in Nat /\ timeShift[s].applied \in Nat /\ latestPTS \in Int /\ PTSOf[o] \in Int
  BY PathAssumption DEF PathTypes
<1>2. CASE PassUnchanged(s, o, i)
  <2>1. MediaOf[o] # "video" /\ UNCHANGED <<timeShift, latestPTS, skippedPackets>>
    BY <1>2 DEF PassUnchanged
  <2>2. \E e \in Entries : passed' = Append(passed, e) /\ e.from = s /\ e.packet = o /\ e.index = i
    BY <1>1, <1>2, OutputTyped
  <2>q. QED  BY <2>1, <2>2 DEF Passes
<1>3. CASE KeepShift(s, o, i)
  <2>1. /\ MediaOf[o] = "video" /\ previousSource[i] = s /\ UNCHANGED <<timeShift, skippedPackets>>
        /\ Output(s, o, i, timeShift[s].applied) /\ latestPTS' = PTSOf[o] + timeShift[s].applied
    BY <1>3 DEF KeepShift
  <2>2. PICK e \in Entries : /\ passed' = Append(passed, e) /\ e.from = s /\ e.packet = o /\ e.index = i
                             /\ e.pts = PTSOf[o] + timeShift[s].applied /\ e.dts <= e.pts
    BY <1>1, <2>1, OutputTyped
  <2>q. QED  BY <2>1, <2>2 DEF Passes
<1>4. CASE ChangeSource(s, o, i)
  <2>1. PICK latest \in Rounded(latestPTS) :
          LET offset == NextPTS(latest) - PTSOf[o]
          IN IF offset < timeShift[s].exact
             THEN Output(s, o, i, 0) /\ latestPTS' = PTSOf[o] /\ UNCHANGED <<timeShift, skippedPackets>>
             ELSE IF ~shouldFixPTS
                  THEN skippedPackets' = skippedPackets \cup {o} /\ UNCHANGED <<timeShift, latestPTS, passed>>
                  ELSE \E applied \in Rounded(offset) :
                         /\ timeShift' = [timeShift EXCEPT ![s] = [exact |-> offset, applied |-> applied]]
                         /\ Output(s, o, i, offset) /\ latestPTS' = PTSOf[o] + offset
                         /\ UNCHANGED skippedPackets
    BY <1>4 DEF ChangeSource
  <2> DEFINE offset == NextPTS(latest) - PTSOf[o]
  <2>2. MediaOf[o] = "video" /\ previousSource[i] # s
    BY <1>4 DEF ChangeSource
  <2>3. latest \in Int /\ latestPTS - 1 <= latest /\ offset \in Int /\ PTSOf[o] + offset = latest + 2
    BY <1>1, <2>1, RoundedBy DEF NextPTS
  <2>4. CASE offset < timeShift[s].exact
    <3>1. Output(s, o, i, 0) /\ latestPTS' = PTSOf[o] /\ UNCHANGED <<timeShift, skippedPackets>>
      BY <2>1, <2>4
    <3>2. PICK e \in Entries : /\ passed' = Append(passed, e) /\ e.from = s /\ e.packet = o /\ e.index = i
                               /\ e.pts = PTSOf[o] + 0 /\ e.dts <= e.pts
      BY <1>1, <3>1, OutputTyped
    <3>3. timeShift[s].exact = 0 => PTSOf[o] > latestPTS
      <4> HIDE DEF offset
      <4>q. QED  BY <1>1, <2>3, <2>4
    <3>4. e.pts = PTSOf[o]
      BY <1>1, <3>2
    <3>q. QED  BY <2>2, <3>1, <3>2, <3>3, <3>4 DEF Passes
  <2>5. CASE ~(offset < timeShift[s].exact) /\ ~shouldFixPTS
    BY <2>1, <2>5 DEF Skips
  <2>6. CASE ~(offset < timeShift[s].exact) /\ shouldFixPTS
    <3>1. PICK applied \in Rounded(offset) :
            /\ timeShift' = [timeShift EXCEPT ![s] = [exact |-> offset, applied |-> applied]]
            /\ Output(s, o, i, offset) /\ latestPTS' = PTSOf[o] + offset
            /\ UNCHANGED skippedPackets
      BY <2>1, <2>6
    <3> HIDE DEF offset
    <3>2. offset \in Nat
      BY <1>1, <2>3, <2>6
    <3>3. applied \in Nat /\ applied <= offset /\ offset <= applied + 1
      BY <3>1, <3>2, RoundedBy
    <3>4. PICK e \in Entries : /\ passed' = Append(passed, e) /\ e.from = s /\ e.packet = o /\ e.index = i
                               /\ e.pts = PTSOf[o] + offset /\ e.dts <= e.pts
      BY <1>1, <2>3, <3>1, OutputTyped
    <3>5. e.pts > latestPTS /\ latestPTS' = e.pts
      BY <1>1, <2>3, <3>1, <3>4
    <3>q. QED  BY <2>2, <2>6, <3>1, <3>2, <3>3, <3>4, <3>5 DEF Passes
  <2>q. QED  BY <2>4, <2>5, <2>6
<1>q. QED  BY <1>2, <1>3, <1>4

\* What a step of the kernel does to what is under way and has passed.
Takes(s, o) ==
  /\ arrivals # <<>> /\ arrivals[1] = <<s, o>> /\ arrivals' = Tail(arrivals)
  /\ \/ \E e \in Entries : passed' = Append(passed, e) /\ e.from = s /\ e.packet = o /\ skippedPackets' = skippedPackets
     \/ passed' = passed /\ skippedPackets' = skippedPackets \cup {o}

LEMMA MakeTakes ==
  ASSUME PathTypes, MakeTimeMoveOnlyForward
  PROVE  \E s \in Feeds, o \in Packets :
           /\ Takes(s, o) /\ o \in Of(s)
           /\ \E i \in OutputIndices(o) : /\ i \in Indices /\ previousSource' = [previousSource EXCEPT ![i] = s]
                                          /\ Passes(s, o, i) \/ Skips(o)
           /\ UNCHANGED <<shouldFixPTS, toFLV, fwd, userStop, linkedIn, linkedOut, pathCtxDone, fixer, next, unlinked,
                          headers, mapper, leaving>>
<1> DEFINE s == Head(arrivals)[1]
           o == Head(arrivals)[2]
<1>1. /\ arrivals # <<>> /\ arrivals' = Tail(arrivals)
      /\ \E i \in OutputIndices(o) : /\ previousSource' = [previousSource EXCEPT ![i] = s]
                                     /\ PassUnchanged(s, o, i) \/ KeepShift(s, o, i) \/ ChangeSource(s, o, i)
      /\ UNCHANGED <<shouldFixPTS, toFLV, fwd, userStop, linkedIn, linkedOut, pathCtxDone, fixer, next, unlinked,
                     headers, mapper, leaving>>
  BY DEF MakeTimeMoveOnlyForward, forwarding, places
<1>2. arrivals \in Seq(Feeds \X Packets) /\ 1 \in DOMAIN arrivals /\ Head(arrivals) = arrivals[1] /\ arrivals[1] \in Feeds \X Packets
  BY <1>1 DEF PathTypes
<1>3. s \in Feeds /\ o \in Packets /\ arrivals[1] = <<s, o>>
  BY <1>2
<1>4. o \in Of(s)
  BY <1>2 DEF PathTypes
<1> HIDE DEF s, o
<1>5. PICK i \in OutputIndices(o) : /\ previousSource' = [previousSource EXCEPT ![i] = s]
                                    /\ PassUnchanged(s, o, i) \/ KeepShift(s, o, i) \/ ChangeSource(s, o, i)
  BY <1>1
<1>6. i \in Indices
  BY <1>3, IndicesOf
<1>7. Passes(s, o, i) \/ Skips(o)
  BY <1>3, <1>5, <1>6, KernelTakes
<1>8. Takes(s, o)
  BY <1>1, <1>3, <1>7 DEF Takes, Passes, Skips
<1>q. QED  BY <1>1, <1>3, <1>4, <1>5, <1>6, <1>7, <1>8

LEMMA TakesTyped ==
  ASSUME PathTypes, NEW s \in Feeds, NEW o \in Packets, NEW i \in Indices, Takes(s, o), o \in Of(s),
         previousSource' = [previousSource EXCEPT ![i] = s], Passes(s, o, i) \/ Skips(o),
         UNCHANGED <<shouldFixPTS, toFLV, fwd, userStop, linkedIn, linkedOut, pathCtxDone, fixer, next, unlinked,
                     headers, mapper, leaving>>
  PROVE  /\ PathTypes' /\ Len(arrivals) \in Nat \ {0} /\ Len(arrivals') = Len(arrivals) - 1
         /\ DOMAIN arrivals = 1..Len(arrivals) /\ DOMAIN arrivals' = 1..(Len(arrivals) - 1)
         /\ \A k \in DOMAIN arrivals' : k + 1 \in DOMAIN arrivals /\ arrivals'[k] = arrivals[k + 1]
         /\ \A k \in DOMAIN passed : k \in DOMAIN passed' /\ passed'[k] = passed[k]
         /\ \/ DOMAIN passed' = DOMAIN passed /\ passed' = passed /\ o \in skippedPackets'
            \/ /\ DOMAIN passed' = DOMAIN passed \cup {Len(passed) + 1} /\ Len(passed) \in Nat /\ DOMAIN passed = 1..Len(passed)
               /\ passed'[Len(passed) + 1].from = s /\ passed'[Len(passed) + 1].packet = o
<1>1. arrivals \in Seq(Feeds \X Packets) /\ passed \in Seq(Entries)
  BY DEF PathTypes
<1>2. /\ Len(arrivals) \in Nat \ {0} /\ Len(arrivals') = Len(arrivals) - 1 /\ arrivals' \in Seq(Feeds \X Packets)
      /\ DOMAIN arrivals = 1..Len(arrivals) /\ DOMAIN arrivals' = 1..(Len(arrivals) - 1)
      /\ \A k \in DOMAIN arrivals' : k + 1 \in DOMAIN arrivals /\ arrivals'[k] = arrivals[k + 1]
  BY <1>1 DEF Takes
<1>3. Len(passed) \in Nat /\ DOMAIN passed = 1..Len(passed)
  BY <1>1
<1>4. /\ passed' \in Seq(Entries) /\ \A k \in DOMAIN passed' : passed'[k].packet \in Of(passed'[k].from)
      /\ \A k \in DOMAIN passed : k \in DOMAIN passed' /\ passed'[k] = passed[k]
      /\ \/ DOMAIN passed' = DOMAIN passed /\ passed' = passed /\ o \in skippedPackets'
         \/ /\ DOMAIN passed' = DOMAIN passed \cup {Len(passed) + 1}
            /\ passed'[Len(passed) + 1].from = s /\ passed'[Len(passed) + 1].packet = o
  <2>1. CASE passed' = passed /\ skippedPackets' = skippedPackets \cup {o}
    BY <1>1, <2>1 DEF PathTypes
  <2>2. ASSUME NEW e \in Entries, passed' = Append(passed, e) /\ e.from = s /\ e.packet = o
        PROVE  <1>4!1 /\ <1>4!2 /\ <1>4!3
    <3>1. /\ DOMAIN passed' = DOMAIN passed \cup {Len(passed) + 1} /\ passed'[Len(passed) + 1] = e /\ passed' \in Seq(Entries)
          /\ \A k \in DOMAIN passed : k \in DOMAIN passed' /\ passed'[k] = passed[k]
      BY <1>1, <1>3, <2>2
    <3>2. \A k \in DOMAIN passed : passed[k].packet \in Of(passed[k].from)
      BY DEF PathTypes
    <3>q. QED  BY <2>2, <3>1, <3>2
  <2>q. QED  BY <2>1, <2>2 DEF Takes
<1>5. /\ previousSource' \in [Indices -> Feeds \cup {"none"}]
      /\ \A k \in DOMAIN arrivals' : arrivals'[k][2] \in Of(arrivals'[k][1])
  BY <1>2 DEF PathTypes
<1>6. latestPTS' \in Int /\ timeShift' \in [Feeds -> [exact : Nat, applied : Nat]] /\ skippedPackets' \subseteq Packets
  <2>1. CASE Skips(o)
    BY <2>1 DEF Skips, PathTypes
  <2>2. CASE Passes(s, o, i)
    <3>1. skippedPackets' = skippedPackets /\ (latestPTS' = latestPTS \/ \E e \in Entries : latestPTS' = e.pts)
      BY <2>2 DEF Passes
    <3>2. timeShift' = timeShift \/ \E exact \in Nat, applied \in Nat : timeShift' = [timeShift EXCEPT ![s] = [exact |-> exact, applied |-> applied]]
      BY <2>2 DEF Passes
    <3>3. latestPTS' \in Int /\ skippedPackets' \subseteq Packets
      BY <3>1 DEF PathTypes, Entries
    <3>4. timeShift' \in [Feeds -> [exact : Nat, applied : Nat]]
      <4>1. timeShift \in [Feeds -> [exact : Nat, applied : Nat]]
        BY DEF PathTypes
      <4>2. CASE timeShift' = timeShift
        BY <4>1, <4>2
      <4>3. ASSUME NEW exact \in Nat, NEW applied \in Nat,
                   timeShift' = [timeShift EXCEPT ![s] = [exact |-> exact, applied |-> applied]]
            PROVE  timeShift' \in [Feeds -> [exact : Nat, applied : Nat]]
        <5> DEFINE r == [exact |-> exact, applied |-> applied]
        <5>1. r \in [exact : Nat, applied : Nat]
          OBVIOUS
        <5> HIDE DEF r
        <5>2. timeShift' = [timeShift EXCEPT ![s] = r]
          BY <4>3 DEF r
        <5>q. QED  BY <4>1, <5>1, <5>2
      <4>q. QED  BY <3>2, <4>2, <4>3
    <3>q. QED  BY <3>3, <3>4
  <2>q. QED  BY <2>1, <2>2
<1>7. PathTypes'
  BY <1>2, <1>4, <1>5, <1>6 DEF PathTypes, Of
<1>q. QED  BY <1>2, <1>3, <1>4, <1>7

LEMMA MakeKeeps ==
  ASSUME PathInv, MakeTimeMoveOnlyForward
  PROVE  PathInv'
<1>1. PathTypes /\ InTheirOrder /\ OtherwiseCovered /\ \A t \in Feeds : StagesFit(t)
  BY LosesSays DEF PathInv
<1>2. PICK s \in Feeds, o \in Packets :
        /\ Takes(s, o) /\ o \in Of(s)
        /\ \E i \in OutputIndices(o) : /\ i \in Indices /\ previousSource' = [previousSource EXCEPT ![i] = s]
                                       /\ Passes(s, o, i) \/ Skips(o)
        /\ UNCHANGED <<shouldFixPTS, toFLV, fwd, userStop, linkedIn, linkedOut, pathCtxDone, fixer, next, unlinked,
                       headers, mapper, leaving>>
  BY <1>1, MakeTakes
<1>3. PICK i \in OutputIndices(o) : /\ i \in Indices /\ previousSource' = [previousSource EXCEPT ![i] = s]
                                    /\ Passes(s, o, i) \/ Skips(o)
  BY <1>2
<1> DEFINE last == Len(passed) + 1
<1>4. /\ PathTypes' /\ Len(arrivals) \in Nat \ {0} /\ Len(arrivals') = Len(arrivals) - 1
      /\ DOMAIN arrivals = 1..Len(arrivals) /\ DOMAIN arrivals' = 1..(Len(arrivals) - 1)
      /\ \A k \in DOMAIN arrivals' : k + 1 \in DOMAIN arrivals /\ arrivals'[k] = arrivals[k + 1]
      /\ \A k \in DOMAIN passed : k \in DOMAIN passed' /\ passed'[k] = passed[k]
      /\ \/ DOMAIN passed' = DOMAIN passed /\ passed' = passed /\ o \in skippedPackets'
         \/ /\ DOMAIN passed' = DOMAIN passed \cup {last} /\ Len(passed) \in Nat /\ DOMAIN passed = 1..Len(passed)
            /\ passed'[last].from = s /\ passed'[last].packet = o
  BY <1>1, <1>2, <1>3, TakesTyped
<1>5. UNCHANGED <<shouldFixPTS, toFLV, fwd, userStop, linkedIn, linkedOut, pathCtxDone, fixer, next, unlinked,
                  headers, mapper, leaving>>
  BY <1>2
<1>6. arrivals[1] = <<s, o>> /\ arrivals[1][1] = s /\ arrivals[1][2] = o /\ 1 \in DOMAIN arrivals
  BY <1>2, <1>4 DEF Takes
<1> HIDE DEF last
<1>7. \A t \in Feeds : AtLeaving(t)' = AtLeaving(t) /\ (OnTheirWay(t)' <=> OnTheirWay(t))
  BY <1>5 DEF AtLeaving, AtMapper, AtHeaders, OnTheirWay, PlaceOf
<1>8. /\ HaveArrived /\ HavePassed /\ ArrivesInOrder /\ (\A t \in Feeds : OnTheirWay(t))
      /\ \A k \in DOMAIN passed : passed[k].from \in Feeds /\ PlaceOf(passed[k].from, passed[k].packet) \in Nat
      /\ \A k \in DOMAIN arrivals : arrivals[k][1] \in Feeds /\ PlaceOf(arrivals[k][1], arrivals[k][2]) \in Nat
  BY <1>1, PlacesBehind DEF InTheirOrder
<1>9. \A k \in DOMAIN arrivals' : k + 1 \in DOMAIN arrivals /\ 1 < k + 1
  BY <1>4
<1>10. HaveArrived'
  <2>1. \A t \in Feeds : \A k \in DOMAIN arrivals' : arrivals'[k][1] = t => PlaceOf(t, arrivals'[k][2]) < AtLeaving(t)'
    BY <1>4, <1>7, <1>8, <1>9 DEF HaveArrived
  <2>2. \A k, l \in DOMAIN arrivals' :
          k < l /\ arrivals'[k][1] = arrivals'[l][1] =>
            PlaceOf(arrivals'[k][1], arrivals'[k][2]) < PlaceOf(arrivals'[l][1], arrivals'[l][2])
    <3> SUFFICES ASSUME NEW k \in DOMAIN arrivals', NEW l \in DOMAIN arrivals', k < l, arrivals'[k][1] = arrivals'[l][1]
                 PROVE  PlaceOf(arrivals'[k][1], arrivals'[k][2]) < PlaceOf(arrivals'[l][1], arrivals'[l][2])
      OBVIOUS
    <3>1. k + 1 \in DOMAIN arrivals /\ l + 1 \in DOMAIN arrivals /\ k + 1 < l + 1
      BY <1>4
    <3>2. arrivals'[k] = arrivals[k + 1] /\ arrivals'[l] = arrivals[l + 1]
      BY <1>4
    <3>q. QED  BY <1>8, <3>1, <3>2 DEF HaveArrived
  <2>q. QED  BY <2>1, <2>2 DEF HaveArrived, PlaceOf
<1>11. \A k \in DOMAIN passed' : (k \in DOMAIN passed /\ passed'[k] = passed[k])
                                 \/ (k = last /\ passed'[k].from = s /\ passed'[k].packet = o /\ \A j \in DOMAIN passed : j < k)
  BY <1>4 DEF last
<1>12. PlaceOf(s, o) < AtLeaving(s)
  BY <1>6, <1>8 DEF HaveArrived
<1>13. HavePassed'
  <2>1. \A t \in Feeds : \A k \in DOMAIN passed' : passed'[k].from = t => PlaceOf(t, passed'[k].packet) < AtLeaving(t)'
    BY <1>7, <1>8, <1>11, <1>12 DEF HavePassed
  <2>2. ASSUME NEW k \in DOMAIN passed', NEW l \in DOMAIN arrivals', passed'[k].from = arrivals'[l][1]
        PROVE  PlaceOf(passed'[k].from, passed'[k].packet) < PlaceOf(arrivals'[l][1], arrivals'[l][2])
    <3>1. l + 1 \in DOMAIN arrivals /\ 1 < l + 1 /\ arrivals'[l] = arrivals[l + 1]
      BY <1>4, <1>9
    <3>2. CASE k \in DOMAIN passed /\ passed'[k] = passed[k]
      BY <1>8, <2>2, <3>1, <3>2 DEF HavePassed
    <3>3. CASE passed'[k].from = s /\ passed'[k].packet = o
      BY <1>6, <1>8, <2>2, <3>1, <3>3 DEF HaveArrived
    <3>q. QED  BY <1>11, <3>2, <3>3
  <2>q. QED  BY <2>1, <2>2 DEF HavePassed, PlaceOf
<1>14. ArrivesInOrder'
  <2> SUFFICES ASSUME NEW j \in DOMAIN passed', NEW k \in DOMAIN passed', j < k, passed'[j].from = passed'[k].from
               PROVE  PlaceOf(passed'[j].from, passed'[j].packet) < PlaceOf(passed'[k].from, passed'[k].packet)
    BY DEF ArrivesInOrder, PlaceOf
  <2>1. j \in DOMAIN passed /\ passed'[j] = passed[j]
    <3>1. CASE j = last /\ \A n \in DOMAIN passed : n < j
      BY <1>4, <1>11, <3>1 DEF last
    <3>q. QED  BY <1>11, <3>1
  <2>2. CASE k \in DOMAIN passed /\ passed'[k] = passed[k]
    BY <1>8, <2>1, <2>2 DEF ArrivesInOrder
  <2>3. CASE passed'[k].from = s /\ passed'[k].packet = o
    BY <1>6, <1>8, <2>1, <2>3 DEF HavePassed
  <2>q. QED  BY <1>11, <2>2, <2>3
<1>15. InTheirOrder'
  BY <1>7, <1>8, <1>10, <1>13, <1>14 DEF InTheirOrder
<1>16. \A t \in Feeds : StagesFit(t)' /\ SentOf(t)' = SentOf(t) /\ (Works(t)' <=> Works(t))
  BY <1>1, <1>5 DEF StagesFit, SentOf, Works
<1>17. \A t \in Feeds : OnTheWay(t) \subseteq OnTheWay(t)' \cup (IF t = s THEN {o} ELSE {})
  <2> SUFFICES ASSUME NEW t \in Feeds, NEW e \in ToSet(arrivals), e[1] = t
               PROVE  e[2] \in OnTheWay(t)' \/ (t = s /\ e[2] = o)
    BY <1>5 DEF OnTheWay
  <2>1. PICK k \in DOMAIN arrivals : e = arrivals[k]
    BY DEF ToSet
  <2>2. CASE k = 1
    BY <1>6, <2>1, <2>2
  <2>3. CASE k # 1
    <3>1. k - 1 \in DOMAIN arrivals' /\ (k - 1) + 1 = k
      BY <1>4, <2>3
    <3>2. e \in ToSet(arrivals')
      BY <1>4, <2>1, <3>1 DEF ToSet
    <3>q. QED  BY <3>2 DEF OnTheWay
  <2>q. QED  BY <2>2, <2>3
<1>18. unlinked \subseteq unlinked' /\ skippedPackets \subseteq skippedPackets' /\ toFLV' = toFLV
  BY <1>2, <1>5 DEF Takes
<1>19. \A j \in DOMAIN passed : \E k \in DOMAIN passed' : passed'[k].packet = passed[j].packet
  BY <1>4
<1>20. o \in skippedPackets' \/ \E k \in DOMAIN passed' : passed'[k].packet = o
  BY <1>4
<1>21. OtherwiseCovered'
  <2>1. Works(s)' => \A p \in SentOf(s)' : Covered(s, p)'
    <3>1. \A p : OutputIndices(p)' = OutputIndices(p)
      BY <1>5 DEF OutputIndices
    <3>2. \A p : Covered(s, p) => Covered(s, p)'
      BY <1>17, <1>18, <1>19, <1>20, <3>1 DEF Covered
    <3>q. QED  BY <1>1, <1>16, <3>2 DEF OtherwiseCovered
  <2>2. \A t \in Feeds \ {s} : (Works(t)' => Works(t)) /\ SentOf(t)' \subseteq SentOf(t) /\ OnTheWay(t) \subseteq OnTheWay(t)'
    BY <1>16, <1>17
  <2>q. QED  BY <1>1, <1>18, <1>19, <2>1, <2>2, LosesMoves
<1>22. LosesNothing'
  BY <1>21 DEF LosesNothing, OtherwiseCovered, Works, Covered
<1>q. QED  BY <1>4, <1>15, <1>16, <1>22 DEF PathInv

\* The forwarder links, serves and unlinks: no packet moves.
LEMMA ForwarderLinks ==
  ASSUME PathInv, ForwarderOnly, NodesTyped', \A t \in Feeds : StagesFit(t)',
         \A t \in Feeds : Works(t)' => Works(t) \/ SentOf(t) \subseteq unlinked
  PROVE  PathInv'
<1>1. PathTypes /\ InTheirOrder /\ OtherwiseCovered
  BY LosesSays DEF PathInv
<1>2. UNCHANGED <<shouldFixPTS, toFLV, next, unlinked, headers, mapper, leaving, arrivals,
                  previousSource, timeShift, latestPTS, skippedPackets, passed>>
  BY DEF ForwarderOnly, places, routeNode
<1>3. PathTypes'
  BY <1>1, <1>2 DEF PathTypes, NodesTyped, Of
<1>4. \A t \in Feeds : AtLeaving(t)' = AtLeaving(t) /\ (OnTheirWay(t)' <=> OnTheirWay(t))
  BY <1>2 DEF AtLeaving, AtMapper, AtHeaders, OnTheirWay, PlaceOf
<1>5. InTheirOrder'
  <2>1. \A t \in Feeds : OnTheirWay(t)'
    BY <1>1, <1>4 DEF InTheirOrder
  <2>2. HaveArrived /\ HavePassed /\ ArrivesInOrder /\ arrivals' = arrivals /\ passed' = passed
    BY <1>1, <1>2 DEF InTheirOrder
  <2>3. ArrivesInOrder'
    BY <2>2 DEF ArrivesInOrder, PlaceOf
  <2>4. HaveArrived'
    BY <1>4, <2>2 DEF HaveArrived, PlaceOf
  <2>5. HavePassed'
    BY <1>4, <2>2 DEF HavePassed, PlaceOf
  <2>q. QED  BY <2>1, <2>3, <2>4, <2>5 DEF InTheirOrder
<1>6. OtherwiseCovered'
  <2>1. \A t \in Feeds : SentOf(t)' = SentOf(t) /\ \A o : Covered(t, o)' <=> Covered(t, o)
    BY <1>2 DEF SentOf, Covered, OnTheWay, OutputIndices
  <2>2. \A t \in Feeds : SentOf(t) \subseteq unlinked => \A o \in SentOf(t) : Covered(t, o)
    BY DEF Covered
  <2>q. QED  BY <1>1, <2>1, <2>2 DEF OtherwiseCovered
<1>7. LosesNothing'
  BY <1>6 DEF LosesNothing, OtherwiseCovered, Works, Covered
<1>q. QED  BY <1>3, <1>5, <1>7 DEF PathInv

\* What the forwarder of s sets.
LEMMA NodesSet ==
  ASSUME PathTypes, NEW s \in Feeds, NEW p \in ForwarderStages, NEW f \in FixerStages,
         fwd' = [fwd EXCEPT ![s] = p], fixer' = [fixer EXCEPT ![s] = f], UNCHANGED unlinked,
         \/ UNCHANGED linkedIn \/ linkedIn' = linkedIn \cup {s} \/ linkedIn' = linkedIn \ {s},
         \/ UNCHANGED linkedOut \/ linkedOut' = linkedOut \cup {s} \/ linkedOut' = linkedOut \ {s},
         \/ UNCHANGED pathCtxDone \/ pathCtxDone' = pathCtxDone \cup {s}
  PROVE  /\ NodesTyped' /\ fwd'[s] = p /\ fixer'[s] = f
         /\ \A t \in Feeds \ {s} : /\ fwd'[t] = fwd[t] /\ fixer'[t] = fixer[t] /\ (t \in linkedIn' <=> t \in linkedIn)
                                   /\ (t \in linkedOut' <=> t \in linkedOut) /\ (t \in pathCtxDone' <=> t \in pathCtxDone)
BY DEF PathTypes, NodesTyped

LEMMA ForwarderKeeps ==
  ASSUME PathInv, NEW s \in Feeds,
         \/ Start(s) \/ NotifyAboutPacketSources(s) \/ LinkIn(s) \/ LinkOut(s) \/ ServeFixer(s)
         \/ RemovePushingFurther(s)
  PROVE  PathInv'
<1>1. PathTypes /\ StagesFit(s) /\ (\A t \in Feeds : StagesFit(t)) /\ fwd[s] \in ForwarderStages /\ fixer[s] \in FixerStages
  BY DEF PathInv, PathTypes
<1>2. fixer = [fixer EXCEPT ![s] = fixer[s]]
  BY <1>1 DEF PathTypes
<1>3. ForwarderOnly /\ UNCHANGED <<next, unlinked>>
  BY DEF Start, NotifyAboutPacketSources, LinkIn, LinkOut, ServeFixer, RemovePushingFurther, ForwarderOnly
<1>4. PICK p \in ForwarderStages, f \in FixerStages :
        /\ fwd' = [fwd EXCEPT ![s] = p] /\ fixer' = [fixer EXCEPT ![s] = f]
        /\ \/ /\ UNCHANGED <<linkedIn, linkedOut, pathCtxDone>> /\ f = fixer[s]
              /\ (fwd[s] = "new" /\ p = "notify") \/ (fwd[s] = "notify" /\ p \in {"broken", "linkIn"})
           \/ /\ fwd[s] = "linkIn" /\ p = "linkOut" /\ linkedIn' = linkedIn \cup {s} /\ UNCHANGED <<linkedOut, pathCtxDone>>
              /\ f = fixer[s]
           \/ /\ fwd[s] = "linkOut" /\ p = "serve" /\ linkedOut' = linkedOut \cup {s} /\ UNCHANGED <<linkedIn, pathCtxDone>>
              /\ f = fixer[s]
           \/ fwd[s] = "serve" /\ p = "on" /\ f = "served" /\ UNCHANGED <<linkedIn, linkedOut, pathCtxDone>>
           \/ /\ fwd[s] \in {"on", "broken"} /\ p = "unlinkOut" /\ linkedIn' = linkedIn \ {s} /\ UNCHANGED <<linkedOut, pathCtxDone>>
              /\ f = fixer[s]
           \/ /\ fwd[s] = "unlinkOut" /\ p = "cancel" /\ linkedOut' = linkedOut \ {s} /\ UNCHANGED <<linkedIn, pathCtxDone>>
              /\ f = fixer[s]
           \/ /\ fwd[s] = "cancel" /\ p = "off" /\ pathCtxDone' = pathCtxDone \cup {s} /\ UNCHANGED <<linkedIn, linkedOut>>
              /\ f = fixer[s]
  <2>1. {"notify", "broken", "linkIn", "linkOut", "serve", "on", "unlinkOut", "cancel", "off"} \subseteq ForwarderStages /\ "served" \in FixerStages
    BY DEF ForwarderStages, FixerStages
  <2>2. CASE Start(s)
    BY <1>1, <1>2, <2>1, <2>2 DEF Start, Move
  <2>3. CASE NotifyAboutPacketSources(s)
    BY <1>1, <1>2, <2>1, <2>3 DEF NotifyAboutPacketSources, Move
  <2>4. CASE LinkIn(s)
    BY <1>1, <1>2, <2>1, <2>4 DEF LinkIn, Move, AfterLink
  <2>5. CASE LinkOut(s)
    BY <1>1, <1>2, <2>1, <2>5 DEF LinkOut, Move
  <2>6. CASE ServeFixer(s)
    BY <1>1, <1>2, <2>1, <2>6 DEF ServeFixer, Move
  <2>7. CASE RemovePushingFurther(s)
    BY <1>1, <1>2, <2>1, <2>7 DEF RemovePushingFurther, Move
  <2>q. QED  BY <2>2, <2>3, <2>4, <2>5, <2>6, <2>7
<1>5. /\ NodesTyped' /\ fwd'[s] = p /\ fixer'[s] = f
      /\ \A t \in Feeds \ {s} : /\ fwd'[t] = fwd[t] /\ fixer'[t] = fixer[t] /\ (t \in linkedIn' <=> t \in linkedIn)
                                /\ (t \in linkedOut' <=> t \in linkedOut) /\ (t \in pathCtxDone' <=> t \in pathCtxDone)
  BY <1>1, <1>3, <1>4, NodesSet
<1>6. \A t \in Feeds : SentOf(t)' = SentOf(t)
  BY <1>3 DEF SentOf
<1>7. \A t \in Feeds \ {s} : StagesFit(t)' /\ (Works(t)' => Works(t))
  BY <1>1, <1>3, <1>5, <1>6 DEF StagesFit, Works
<1>8. StagesFit(s)'
  BY <1>1, <1>3, <1>4, <1>5, <1>6 DEF StagesFit
<1>9. Works(s)' => Works(s) \/ SentOf(s) \subseteq unlinked
  BY <1>1, <1>4, <1>5 DEF StagesFit, Works
<1>q. QED  BY <1>3, <1>5, <1>7, <1>8, <1>9, ForwarderLinks

LEMMA PathRests ==
  ASSUME PathInv, ForwarderOnly, UNCHANGED <<fwd, linkedIn, linkedOut, pathCtxDone, fixer>>
  PROVE  PathInv'
<1>1. UNCHANGED <<next, unlinked>>
  BY DEF ForwarderOnly
<1>2. NodesTyped'
  BY <1>1 DEF NodesTyped, PathInv, PathTypes
<1>3. \A t \in Feeds : StagesFit(t)' /\ (Works(t)' => Works(t))
  BY <1>1 DEF PathInv, StagesFit, SentOf, Works
<1>q. QED  BY <1>2, <1>3, ForwarderLinks

LEMMA PathInitially == PathInit => PathInv
<1> SUFFICES ASSUME PathInit  PROVE PathInv
  OBVIOUS
<1>1. PathTypes
  <2>1. shouldFixPTS \in BOOLEAN /\ toFLV \in BOOLEAN
    BY PathAssumption DEF PathInit
  <2>2. \A s \in Feeds : 0 <= Len(Feed[s])
    BY Places
  <2>q. QED  BY <2>1, <2>2 DEF PathInit, PathTypes, Empty, ForwarderStages, FixerStages
<1>2. InTheirOrder
  BY DEF PathInit, InTheirOrder, HaveArrived, HavePassed, ArrivesInOrder, OnTheirWay, Empty
<1>3. \A s \in Feeds : StagesFit(s)
  <2>1. \A s \in Feeds : SentOf(s) = {} /\ fwd[s] = "new" /\ fixer[s] = "ready"
    BY DEF PathInit, SentOf
  <2>q. QED  BY <2>1 DEF PathInit, StagesFit
<1>4. LosesNothing
  BY DEF PathInit, LosesNothing
<1>q. QED  BY <1>1, <1>2, <1>3, <1>4 DEF PathInv

LEMMA PathKeepsInv == PathInv /\ (PathNext \/ UNCHANGED path) => PathInv'
<1> SUFFICES ASSUME PathInv, PathNext \/ UNCHANGED path  PROVE PathInv'
  OBVIOUS
<1>1. CASE UNCHANGED path
  BY <1>1, PathRests DEF path, forwarding, ForwarderOnly
<1>2. ASSUME NEW s \in Feeds, UserStops(s)  PROVE PathInv'
  BY <1>2, PathRests DEF UserStops
<1>3. ASSUME NEW s \in Feeds, Start(s) \/ ForwarderStep(s)  PROVE PathInv'
  BY <1>3, ForwarderKeeps, CloseFixerKeeps DEF ForwarderStep
<1>4. ASSUME NEW s \in Feeds, PacketStep(s)  PROVE PathInv'
  BY <1>4, FixHeadersKeeps, FixFailsKeeps, MapIndicesKeeps, ArriveKeeps, CutOffKeeps DEF PacketStep
<1>q. QED  BY <1>1, <1>2, <1>3, <1>4, SendKeeps, MakeKeeps DEF PathNext

----------------------------------------------------------------------------

\* What is asked of the sources, that time moves forward: the video of each is one
\* stream, the times of which increase, and no stream is half video.
FeedsInOrder ==
  /\ \A s \in Feeds : \A m, n \in DOMAIN Feed[s] :
       MediaOf[Feed[s][m]] = "video" /\ MediaOf[Feed[s][n]] = "video" =>
         IndexOf[Feed[s][m]] = IndexOf[Feed[s][n]] /\ (m < n => PTSOf[Feed[s][m]] < PTSOf[Feed[s][n]])
  /\ \A o, p \in Packets : IndexOf[o] = IndexOf[p] => (MediaOf[o] = "video" <=> MediaOf[p] = "video")

HasShown(s) == \E k \in DOMAIN passed : IsVideo(k) /\ passed[k].from = s
IsLast(k) == IsVideo(k) /\ \A l \in DOMAIN passed : IsVideo(l) => l <= k
Assigned(k) == passed[k].index \in OutputIndices(passed[k].packet)
OfVideo(i) == \E o \in Packets : MediaOf[o] = "video" /\ i \in OutputIndices(o)

DecodesBefore == \A k \in DOMAIN passed : IsVideo(k) => passed[k].dts <= passed[k].pts
Forward ==
  \A i, j \in DOMAIN passed : Follows(j, i) /\ IsLate(j, i) => ComesBack(j, i)
LastKept ==
  \A k \in DOMAIN passed : IsLast(k) =>
    /\ latestPTS = passed[k].pts /\ previousSource[passed[k].index] = passed[k].from
    /\ Assigned(k)
    /\ passed[k].pts <= PTSOf[passed[k].packet] + timeShift[passed[k].from].applied + 1
ShownFirst ==
  \A s \in Feeds : /\ timeShift[s].exact # 0 => HasShown(s)
                   /\ \A i \in Indices : OfVideo(i) /\ previousSource[i] = s => HasShown(s)
TimeInv == DecodesBefore /\ (shouldFixPTS => Forward /\ LastKept /\ ShownFirst)

\* Video keeps to indices of its own, that of a source to one.
LEMMA VideoApart ==
  ASSUME FeedsInOrder
  PROVE  /\ \A o \in Packets : MediaOf[o] # "video" => \A i \in OutputIndices(o) : ~OfVideo(i)
         /\ \A s \in Feeds : \A o, p \in Of(s) : MediaOf[o] = "video" /\ MediaOf[p] = "video" =>
              /\ \A i \in OutputIndices(o), j \in OutputIndices(p) : i = j
              /\ PlaceOf(s, o) < PlaceOf(s, p) => PTSOf[o] < PTSOf[p]
<1>1. ASSUME NEW o \in Packets, MediaOf[o] # "video", NEW i \in OutputIndices(o), NEW p \in Packets,
             MediaOf[p] = "video", i \in OutputIndices(p)
      PROVE  FALSE
  <2>1. CASE toFLV
    <3>1. OutputIndices(p) = {0}
      BY <1>1, <2>1 DEF OutputIndices
    <3>2. MediaOf[o] = "audio" => OutputIndices(o) = {1}
      BY <1>1, <2>1 DEF OutputIndices
    <3>3. MediaOf[o] # "audio" => OutputIndices(o) = {}
      BY <1>1, <2>1 DEF OutputIndices
    <3>q. QED  BY <1>1, <3>1, <3>2, <3>3
  <2>2. CASE ~toFLV
    <3>1. i = IndexOf[o] /\ i = IndexOf[p]
      BY <1>1, <2>2 DEF OutputIndices
    <3>q. QED  BY <1>1, <3>1 DEF FeedsInOrder
  <2>q. QED  BY <2>1, <2>2
<1>2. ASSUME NEW s \in Feeds, NEW o \in Of(s), NEW p \in Of(s), MediaOf[o] = "video", MediaOf[p] = "video"
      PROVE  /\ \A i \in OutputIndices(o), j \in OutputIndices(p) : i = j
             /\ PlaceOf(s, o) < PlaceOf(s, p) => PTSOf[o] < PTSOf[p]
  <2>1. /\ PlaceOf(s, o) \in DOMAIN Feed[s] /\ Feed[s][PlaceOf(s, o)] = o
        /\ PlaceOf(s, p) \in DOMAIN Feed[s] /\ Feed[s][PlaceOf(s, p)] = p
    BY Places
  <2>2. IndexOf[o] = IndexOf[p] /\ (PlaceOf(s, o) < PlaceOf(s, p) => PTSOf[o] < PTSOf[p])
    BY <1>2, <2>1 DEF FeedsInOrder
  <2>3. OutputIndices(o) = OutputIndices(p) /\ \A i, j \in OutputIndices(o) : i = j
    BY <1>2, <2>2 DEF OutputIndices
  <2>q. QED  BY <2>2, <2>3
<1>q. QED  BY <1>1, <1>2 DEF OfVideo

\* Only the kernel of the route changes what has passed.
LEMMA TimeRests ==
  ASSUME TimeInv, UNCHANGED <<shouldFixPTS, toFLV, previousSource, timeShift, latestPTS, passed>>
  PROVE  TimeInv'
<1>1. \A k : IsVideo(k)' <=> IsVideo(k)
  BY DEF IsVideo
<1>2. DecodesBefore'
  BY <1>1 DEF TimeInv, DecodesBefore
<1>3. Forward => Forward'
  BY <1>1 DEF Forward, Follows, ComesBack, IsLate
<1>4. LastKept => LastKept'
  BY <1>1 DEF LastKept, IsLast, Assigned, OutputIndices
<1>5. ShownFirst => ShownFirst'
  BY <1>1 DEF ShownFirst, HasShown, OfVideo, OutputIndices
<1>q. QED  BY <1>2, <1>3, <1>4, <1>5 DEF TimeInv

\* An entry is added to what has passed.
LEMMA EntryAdded ==
  ASSUME PathTypes, NEW e \in Entries, passed' = Append(passed, e)
  PROVE  /\ Len(passed) \in Nat /\ DOMAIN passed = 1..Len(passed) /\ DOMAIN passed' = 1..(Len(passed) + 1)
         /\ passed'[Len(passed) + 1] = e /\ \A k \in DOMAIN passed : passed'[k] = passed[k]
BY DEF PathTypes

LEMMA OtherPasses ==
  ASSUME PathTypes, FeedsInOrder, Forward, LastKept, ShownFirst, NEW s \in Feeds, NEW o \in Packets, NEW i \in OutputIndices(o),
         NEW e \in Entries, passed' = Append(passed, e), e.packet = o, MediaOf[o] # "video", UNCHANGED <<timeShift, latestPTS, toFLV>>,
         previousSource' = [previousSource EXCEPT ![i] = s]
  PROVE  Forward' /\ LastKept' /\ ShownFirst'
<1>1. /\ Len(passed) \in Nat /\ DOMAIN passed = 1..Len(passed) /\ DOMAIN passed' = 1..(Len(passed) + 1)
      /\ passed'[Len(passed) + 1] = e /\ \A k \in DOMAIN passed : passed'[k] = passed[k]
  BY EntryAdded
<1>2. \A k \in DOMAIN passed' : IsVideo(k)' => k \in DOMAIN passed
  BY <1>1 DEF IsVideo
<1>3. \A k \in DOMAIN passed : IsVideo(k)' <=> IsVideo(k)
  BY <1>1 DEF IsVideo
<1>4. ~OfVideo(i) /\ \A j \in Indices : j # i => previousSource'[j] = previousSource[j]
  BY VideoApart DEF PathTypes
<1>5. \A j : OfVideo(j)' <=> OfVideo(j)
  BY DEF OfVideo, OutputIndices
<1>6. Forward'
  <2> SUFFICES ASSUME NEW m \in DOMAIN passed', NEW n \in DOMAIN passed', Follows(n, m)', IsLate(n, m)'
               PROVE  ComesBack(n, m)'
    BY DEF Forward
  <2>1. m \in DOMAIN passed /\ n \in DOMAIN passed /\ m < n /\ IsVideo(m) /\ IsVideo(n)
    BY <1>2, <1>3 DEF Follows
  <2>2. (\A k \in (m + 1)..(n - 1) : k \in DOMAIN passed) /\ \A k \in 1..(m - 1) : k \in DOMAIN passed
    BY <1>1, <2>1
  <2>3. Follows(n, m)
    BY <1>3, <2>1, <2>2 DEF Follows
  <2>4. ComesBack(n, m)
    BY <1>1, <2>1, <2>3 DEF Forward, IsLate
  <2>q. QED  BY <1>1, <1>3, <2>1, <2>2, <2>4 DEF ComesBack
<1>7. LastKept'
  <2> SUFFICES ASSUME NEW k \in DOMAIN passed', IsLast(k)'
               PROVE  /\ latestPTS' = passed'[k].pts /\ previousSource'[passed'[k].index] = passed'[k].from
                      /\ Assigned(k)'
                      /\ passed'[k].pts <= PTSOf[passed'[k].packet] + timeShift'[passed'[k].from].applied + 1
    BY DEF LastKept
  <2>1. k \in DOMAIN passed /\ IsLast(k) /\ passed'[k] = passed[k]
    BY <1>1, <1>2, <1>3 DEF IsLast
  <2>2. /\ latestPTS = passed[k].pts /\ previousSource[passed[k].index] = passed[k].from
        /\ Assigned(k)
        /\ passed[k].pts <= PTSOf[passed[k].packet] + timeShift[passed[k].from].applied + 1
    BY <2>1 DEF LastKept
  <2>3. passed[k] \in Entries /\ MediaOf[passed[k].packet] = "video"
    BY <2>1 DEF PathTypes, IsLast, IsVideo
  <2>4. OfVideo(passed[k].index) /\ passed[k].index \in Indices
    BY <2>2, <2>3 DEF OfVideo, Entries, Assigned
  <2>5. previousSource'[passed[k].index] = previousSource[passed[k].index]
    BY <1>4, <2>4
  <2>6. Assigned(k)'
    BY <2>1, <2>2 DEF Assigned, OutputIndices
  <2>q. QED  BY <2>1, <2>2, <2>5, <2>6
<1>8. \A t : HasShown(t) => HasShown(t)'
  BY <1>1, <1>3 DEF HasShown
<1>9. ShownFirst'
  BY <1>4, <1>5, <1>8 DEF ShownFirst
<1>q. QED  BY <1>6, <1>7, <1>9

\* The time a packet of video gets.
Timed(s, o, i, e) ==
  \/ previousSource[i] = s /\ e.pts = PTSOf[o] + timeShift[s].applied /\ UNCHANGED timeShift
  \/ /\ previousSource[i] # s /\ e.pts = PTSOf[o] /\ UNCHANGED timeShift
     /\ timeShift[s].exact = 0 => e.pts > latestPTS
  \/ \E exact \in Nat, applied \in Nat :
       /\ previousSource[i] # s /\ shouldFixPTS /\ e.pts = PTSOf[o] + exact /\ e.pts > latestPTS
       /\ applied <= exact /\ exact <= applied + 1
       /\ timeShift' = [timeShift EXCEPT ![s] = [exact |-> exact, applied |-> applied]]

LEMMA VideoPasses ==
  ASSUME PathTypes, FeedsInOrder, Forward, LastKept, ShownFirst, ArrivesInOrder',
         NEW s \in Feeds, NEW o \in Packets, o \in Of(s), NEW i \in OutputIndices(o), i \in Indices,
         NEW e \in Entries, passed' = Append(passed, e), e.from = s, e.packet = o, e.index = i, MediaOf[o] = "video",
         previousSource' = [previousSource EXCEPT ![i] = s], UNCHANGED toFLV, latestPTS' = e.pts,
         Timed(s, o, i, e)
  PROVE  Forward' /\ LastKept' /\ ShownFirst'
<1>t. \/ previousSource[i] = s /\ e.pts = PTSOf[o] + timeShift[s].applied /\ UNCHANGED timeShift
      \/ /\ previousSource[i] # s /\ e.pts = PTSOf[o] /\ UNCHANGED timeShift
         /\ timeShift[s].exact = 0 => e.pts > latestPTS
      \/ \E exact \in Nat, applied \in Nat :
           /\ previousSource[i] # s /\ shouldFixPTS /\ e.pts = PTSOf[o] + exact /\ e.pts > latestPTS
           /\ applied <= exact /\ exact <= applied + 1
           /\ timeShift' = [timeShift EXCEPT ![s] = [exact |-> exact, applied |-> applied]]
  BY DEF Timed
<1>0. Len(passed) \in Nat
  BY DEF PathTypes
<1> PICK last \in Nat : last = Len(passed) + 1
  BY <1>0
<1>1. /\ Len(passed) \in Nat /\ DOMAIN passed = 1..Len(passed) /\ DOMAIN passed' = 1..last
      /\ passed'[last] = e /\ \A k \in DOMAIN passed : passed'[k] = passed[k]
  BY EntryAdded
<1>2. /\ last \in Nat /\ last \in DOMAIN passed' /\ \A k \in DOMAIN passed : k < last /\ k \in DOMAIN passed'
      /\ \A k \in DOMAIN passed' : k \in DOMAIN passed \/ k = last
  BY <1>1
<1>3. IsVideo(last)' /\ \A k \in DOMAIN passed : IsVideo(k)' <=> IsVideo(k)
  BY <1>1 DEF IsVideo
<1>4. /\ timeShift[s].exact \in Nat /\ timeShift[s].applied \in Nat /\ latestPTS \in Int /\ PTSOf[o] \in Int /\ e.pts \in Int
      /\ previousSource'[i] = s /\ \A j \in Indices : j # i => previousSource'[j] = previousSource[j]
  BY PathAssumption DEF PathTypes, Entries
<1>5. HasShown(s)' /\ \A t : HasShown(t) => HasShown(t)'
  <2>1. HasShown(s)'
    BY <1>1, <1>2, <1>3 DEF HasShown
  <2>2. \A t : HasShown(t) => HasShown(t)'
    BY <1>1, <1>2, <1>3 DEF HasShown
  <2>q. QED  BY <2>1, <2>2
<1>6. ShownFirst'
  <2>1. \A t \in Feeds : t # s => timeShift'[t] = timeShift[t]
    BY <1>t DEF PathTypes
  <2>2. \A j : OfVideo(j)' <=> OfVideo(j)
    BY DEF OfVideo, OutputIndices
  <2>3. ASSUME NEW t \in Feeds
        PROVE  /\ timeShift'[t].exact # 0 => HasShown(t)'
               /\ \A j \in Indices : OfVideo(j)' /\ previousSource'[j] = t => HasShown(t)'
    <3>1. CASE t = s
      BY <1>5, <3>1
    <3>2. CASE t # s
      <4>1. timeShift[t].exact # 0 => HasShown(t)
        BY DEF ShownFirst
      <4>2. \A j \in Indices : OfVideo(j) /\ previousSource[j] = t => HasShown(t)
        BY DEF ShownFirst
      <4>q. QED  BY <1>4, <1>5, <2>1, <2>2, <3>2, <4>1, <4>2
    <3>q. QED  BY <3>1, <3>2
  <2>q. QED  BY <2>3 DEF ShownFirst
<1>7. LastKept'
  <2> SUFFICES ASSUME NEW k \in DOMAIN passed', IsLast(k)'
               PROVE  /\ latestPTS' = passed'[k].pts /\ previousSource'[passed'[k].index] = passed'[k].from
                      /\ Assigned(k)'
                      /\ passed'[k].pts <= PTSOf[passed'[k].packet] + timeShift'[passed'[k].from].applied + 1
    BY DEF LastKept
  <2>1. k = last
    <3>1. last <= k
      BY <1>2, <1>3 DEF IsLast
    <3>q. QED  BY <1>1, <1>2, <3>1
  <2>2. passed'[k] = e
    BY <1>1, <2>1
  <2>3. Assigned(k)'
    BY <2>2 DEF Assigned, OutputIndices
  <2>4. e.pts <= PTSOf[o] + timeShift'[s].applied + 1
    <3>1. CASE timeShift' = timeShift /\ (e.pts = PTSOf[o] + timeShift[s].applied \/ e.pts = PTSOf[o])
      BY <1>4, <3>1
    <3>2. CASE \E exact \in Nat, applied \in Nat :
                 /\ previousSource[i] # s /\ shouldFixPTS /\ e.pts = PTSOf[o] + exact /\ e.pts > latestPTS
                 /\ applied <= exact /\ exact <= applied + 1
                 /\ timeShift' = [timeShift EXCEPT ![s] = [exact |-> exact, applied |-> applied]]
      <4>1. PICK exact \in Nat, applied \in Nat :
              /\ e.pts = PTSOf[o] + exact /\ exact <= applied + 1
              /\ timeShift' = [timeShift EXCEPT ![s] = [exact |-> exact, applied |-> applied]]
        BY <3>2
      <4>2. timeShift'[s].applied = applied
        BY <4>1 DEF PathTypes
      <4>q. QED  BY <1>4, <4>1, <4>2
    <3>q. QED  BY <1>t, <3>1, <3>2
  <2>q. QED  BY <1>4, <2>2, <2>3, <2>4
<1>8. Forward'
  <2> SUFFICES ASSUME NEW m \in DOMAIN passed', NEW n \in DOMAIN passed', Follows(n, m)', IsLate(n, m)'
               PROVE  ComesBack(n, m)'
    BY DEF Forward
  <2>1. m < n /\ m \in DOMAIN passed /\ IsVideo(m)
    <3>1. m < n /\ IsVideo(m)'
      BY DEF Follows
    <3>2. m \in DOMAIN passed
      BY <1>1, <1>2, <3>1
    <3>q. QED  BY <1>3, <3>1, <3>2
  <2>2. CASE n \in DOMAIN passed
    <3>1. (\A k \in (m + 1)..(n - 1) : k \in DOMAIN passed) /\ \A k \in 1..(m - 1) : k \in DOMAIN passed
      BY <1>1, <2>1, <2>2
    <3>2. Follows(n, m)
      BY <1>3, <2>1, <2>2, <3>1 DEF Follows
    <3>3. ComesBack(n, m)
      BY <1>1, <2>1, <2>2, <3>2 DEF Forward, IsLate
    <3>q. QED  BY <1>1, <1>3, <2>1, <2>2, <3>1, <3>3 DEF ComesBack
  <2>3. CASE n = last
    <3>1. IsLast(m)
      <4> SUFFICES ASSUME NEW l \in DOMAIN passed, IsVideo(l), ~(l <= m)  PROVE FALSE
        BY <2>1 DEF IsLast
      <4>1. l \in (m + 1)..(n - 1)
        BY <1>1, <1>2, <2>1, <2>3
      <4>2. ~IsVideo(l)'
        BY <4>1 DEF Follows
      <4>q. QED  BY <1>3, <4>2
    <3>2. /\ latestPTS = passed[m].pts /\ previousSource[passed[m].index] = passed[m].from /\ Assigned(m)
          /\ passed[m].pts <= PTSOf[passed[m].packet] + timeShift[passed[m].from].applied + 1
      BY <2>1, <3>1 DEF LastKept
    <3>3. e.pts < latestPTS \/ (passed[m].from # s /\ e.pts = latestPTS)
      BY <1>1, <2>1, <2>3, <3>2 DEF IsLate
    <3>4. /\ passed[m].packet \in Of(passed[m].from) /\ passed[m].packet \in Packets /\ passed[m] \in Entries
          /\ MediaOf[passed[m].packet] = "video"
      <4>1. passed[m] \in Entries /\ passed[m].packet \in Of(passed[m].from)
        BY <2>1 DEF PathTypes
      <4>2. passed[m].packet \in Packets
        BY <4>1 DEF Entries
      <4>q. QED  BY <2>1, <4>1, <4>2 DEF IsVideo
    <3>5. CASE passed[m].from = s
      <4>1. PlaceOf(s, passed[m].packet) < PlaceOf(s, o)
        <5>1. passed'[m] = passed[m] /\ passed'[n] = e /\ m \in DOMAIN passed' /\ m < n
          BY <1>1, <1>2, <2>1, <2>3
        <5>2. passed'[m].from = passed'[n].from
          BY <3>5, <5>1
        <5>3. PlaceOf(passed'[m].from, passed'[m].packet) < PlaceOf(passed'[n].from, passed'[n].packet)
          BY <5>1, <5>2 DEF ArrivesInOrder, PlaceOf
        <5>q. QED  BY <3>5, <5>1, <5>3
      <4>2. PTSOf[passed[m].packet] < PTSOf[o] /\ passed[m].index = i
        BY <3>2, <3>4, <3>5, <4>1, VideoApart DEF Assigned
      <4>3. previousSource[i] = s
        BY <3>2, <3>5, <4>2
      <4>4. e.pts = PTSOf[o] + timeShift[s].applied
        BY <1>t, <4>3
      <4>5. latestPTS <= PTSOf[passed[m].packet] + timeShift[s].applied + 1 /\ PTSOf[passed[m].packet] \in Int
        BY <3>2, <3>4, <3>5, PathAssumption
      <4>q. QED  BY <1>4, <3>3, <3>5, <4>2, <4>4, <4>5
    <3>6. CASE passed[m].from # s
      <4> SUFFICES ASSUME ~ComesBack(n, m)'  PROVE FALSE
        OBVIOUS
      <4>1. ~HasShown(s)
        <5> SUFFICES ASSUME NEW k \in DOMAIN passed, IsVideo(k), passed[k].from = s  PROVE FALSE
          BY DEF HasShown
        <5>1. k <= m /\ k # m
          BY <3>1, <3>6 DEF IsLast
        <5>2. k \in 1..(m - 1)
          BY <1>1, <2>1, <5>1
        <5>3. passed'[n].from = s /\ passed'[m].from # s /\ IsVideo(k)' /\ passed'[k].from = s
          BY <1>1, <1>3, <2>1, <2>3, <3>6
        <5>q. QED  BY <5>2, <5>3 DEF ComesBack
      <4>2. timeShift[s].exact = 0
        BY <4>1 DEF ShownFirst
      <4>3. previousSource[i] # s
        BY <4>1 DEF ShownFirst, OfVideo
      <4>q. QED  BY <1>4, <1>t, <3>3, <4>2, <4>3
    <3>q. QED  BY <3>5, <3>6
  <2>q. QED  BY <1>2, <2>2, <2>3
<1>q. QED  BY <1>6, <1>7, <1>8

LEMMA DecodesKeeps ==
  ASSUME PathTypes, DecodesBefore, MakeTimeMoveOnlyForward
  PROVE  DecodesBefore'
<1>1. PICK s \in Feeds, o \in Packets : \E i \in OutputIndices(o) : Passes(s, o, i) \/ Skips(o)
  BY MakeTakes
<1>2. PICK i \in OutputIndices(o) : Passes(s, o, i) \/ Skips(o)
  BY <1>1
<1>3. CASE Skips(o)
  BY <1>3 DEF Skips, DecodesBefore, IsVideo
<1>4. CASE Passes(s, o, i)
  <2>1. PICK e \in Entries : passed' = Append(passed, e) /\ e.packet = o /\ (MediaOf[o] = "video" => e.dts <= e.pts)
    BY <1>4 DEF Passes
  <2>2. /\ Len(passed) \in Nat /\ DOMAIN passed = 1..Len(passed) /\ DOMAIN passed' = 1..(Len(passed) + 1)
        /\ passed'[Len(passed) + 1] = e /\ \A k \in DOMAIN passed : passed'[k] = passed[k]
    BY <2>1, EntryAdded
  <2>3. ASSUME NEW k \in DOMAIN passed', IsVideo(k)'  PROVE passed'[k].dts <= passed'[k].pts
    <3>1. CASE k = Len(passed) + 1
      BY <2>1, <2>2, <2>3, <3>1 DEF IsVideo
    <3>2. CASE k \in DOMAIN passed
      BY <2>2, <2>3, <3>2 DEF IsVideo, DecodesBefore
    <3>q. QED  BY <2>2, <3>1, <3>2
  <2>q. QED  BY <2>3 DEF DecodesBefore
<1>q. QED  BY <1>2, <1>3, <1>4

LEMMA TimeMoves ==
  ASSUME PathInv, ArrivesInOrder', FeedsInOrder, TimeInv, MakeTimeMoveOnlyForward
  PROVE  TimeInv'
<1>1. PathTypes /\ DecodesBefore'
  BY DecodesKeeps DEF PathInv, TimeInv
<1>2. PICK s \in Feeds, o \in Packets :
        /\ Takes(s, o) /\ o \in Of(s)
        /\ \E i \in OutputIndices(o) : /\ i \in Indices /\ previousSource' = [previousSource EXCEPT ![i] = s]
                                       /\ Passes(s, o, i) \/ Skips(o)
        /\ UNCHANGED <<shouldFixPTS, toFLV, fwd, userStop, linkedIn, linkedOut, pathCtxDone, fixer, next, unlinked,
                       headers, mapper, leaving>>
  BY <1>1, MakeTakes
<1>3. PICK i \in OutputIndices(o) : /\ i \in Indices /\ previousSource' = [previousSource EXCEPT ![i] = s]
                                    /\ Passes(s, o, i) \/ Skips(o)
  BY <1>2
<1>4. shouldFixPTS' = shouldFixPTS /\ toFLV' = toFLV
  BY <1>2
<1> SUFFICES ASSUME shouldFixPTS  PROVE Forward' /\ LastKept' /\ ShownFirst'
  BY <1>1, <1>4 DEF TimeInv
<1>5. Forward /\ LastKept /\ ShownFirst /\ Passes(s, o, i)
  BY <1>3 DEF TimeInv, Skips
<1>6. PICK e \in Entries :
        /\ passed' = Append(passed, e) /\ e.from = s /\ e.packet = o /\ e.index = i
        /\ \/ MediaOf[o] # "video" /\ UNCHANGED <<timeShift, latestPTS>>
           \/ /\ MediaOf[o] = "video" /\ latestPTS' = e.pts
              /\ \/ previousSource[i] = s /\ e.pts = PTSOf[o] + timeShift[s].applied /\ UNCHANGED timeShift
                 \/ /\ previousSource[i] # s /\ e.pts = PTSOf[o] /\ UNCHANGED timeShift
                    /\ timeShift[s].exact = 0 => e.pts > latestPTS
                 \/ \E exact \in Nat, applied \in Nat :
                      /\ previousSource[i] # s /\ shouldFixPTS /\ e.pts = PTSOf[o] + exact /\ e.pts > latestPTS
                      /\ applied <= exact /\ exact <= applied + 1
                      /\ timeShift' = [timeShift EXCEPT ![s] = [exact |-> exact, applied |-> applied]]
  BY <1>5 DEF Passes
<1>7. CASE MediaOf[o] # "video"
  <2>1. UNCHANGED <<timeShift, latestPTS, toFLV>>
    BY <1>4, <1>6, <1>7
  <2>q. QED  BY <1>1, <1>3, <1>5, <1>6, <1>7, <2>1, OtherPasses
<1>8. CASE MediaOf[o] = "video"
  <2>1. /\ e.from = s /\ e.packet = o /\ e.index = i /\ passed' = Append(passed, e)
        /\ previousSource' = [previousSource EXCEPT ![i] = s] /\ toFLV' = toFLV /\ i \in Indices /\ o \in Of(s)
    BY <1>2, <1>3, <1>4, <1>6
  <2>2. latestPTS' = e.pts
    BY <1>6, <1>8
  <2>3. Timed(s, o, i, e)
    BY <1>6, <1>8 DEF Timed
  <2>q. QED  BY <1>1, <1>5, <1>8, <2>1, <2>2, <2>3, VideoPasses
<1>q. QED  BY <1>7, <1>8

LEMMA TimeInitially == PathInit => TimeInv
BY PathAssumption DEF PathInit, TimeInv, DecodesBefore, Forward, LastKept, ShownFirst

LEMMA RouteNodeRests ==
  ASSUME PathNext \/ UNCHANGED path
  PROVE  MakeTimeMoveOnlyForward \/ UNCHANGED <<shouldFixPTS, toFLV, previousSource, timeShift, latestPTS, passed>>
BY DEF PathNext, path, routeNode, Start, UserStops, Send, ForwarderStep, PacketStep, NotifyAboutPacketSources, LinkIn,
       LinkOut, ServeFixer, RemovePushingFurther, CloseFixer, FixHeaders, FixFails, MapIndices, Arrive, CutOff,
       ForwarderOnly, PathOnly

LEMMA DecodesStays ==
  ASSUME PathTypes, DecodesBefore, PathNext \/ UNCHANGED path
  PROVE  DecodesBefore'
<1>1. CASE MakeTimeMoveOnlyForward
  BY <1>1, DecodesKeeps
<1>2. CASE UNCHANGED passed
  BY <1>2 DEF DecodesBefore, IsVideo
<1>q. QED  BY <1>1, <1>2, RouteNodeRests

LEMMA TimeKeeps ==
  ASSUME PathInv, PathInv', FeedsInOrder, TimeInv, PathNext \/ UNCHANGED path
  PROVE  TimeInv'
<1>1. CASE MakeTimeMoveOnlyForward
  BY <1>1, TimeMoves DEF PathInv, InTheirOrder
<1>2. CASE UNCHANGED <<shouldFixPTS, toFLV, previousSource, timeShift, latestPTS, passed>>
  BY <1>2, TimeRests
<1>q. QED  BY <1>1, <1>2, RouteNodeRests

\* What the invariants say.
LEMMA PathInvSays == PathInv => ArrivesInOrder /\ LosesNothing /\ StoppedIsUnlinked /\ PathTypeOK
<1> SUFFICES ASSUME PathInv  PROVE ArrivesInOrder /\ LosesNothing /\ StoppedIsUnlinked /\ PathTypeOK
  OBVIOUS
<1>1. StoppedIsUnlinked
  BY DEF PathInv, StagesFit, StoppedIsUnlinked
<1>2. PathTypeOK
  BY DEF PathInv, PathTypes, PathTypeOK, ForwarderStages, FixerStages
<1>q. QED  BY <1>1, <1>2 DEF PathInv, InTheirOrder

LEMMA TimeInvSays == TimeInv => TimeMovesForward
BY DEF TimeInv, TimeMovesForward, DecodesBefore, Forward

----------------------------------------------------------------------------
(* The graph: its parts run one at a time.                                  *)

GraphInv ==
  /\ ListsInv /\ TreeInv /\ PushTypes /\ Accounted /\ GivenBelow /\ Gapless
  /\ IF part = "push" THEN TwiceDoubled ELSE cache = <<>>
  /\ RouterInv /\ PathInv /\ DecodesBefore

\* The graph starts with its invariant.
LEMMA GraphInitially == Init => GraphInv
<1> SUFFICES ASSUME Init  PROVE GraphInv
  OBVIOUS
<1>1. ListsInit /\ TreeInit /\ PushInit
  BY DEF Init
<1>2. cache = <<>>
  BY <1>1 DEF PushInit
<1>3. RouterInv /\ PathInv /\ DecodesBefore
  BY RouterInitially, PathInitially, TimeInitially DEF Init, TimeInv
<1>q. QED  BY <1>1, <1>2, <1>3, ListsInitially, TreeInitially, PushInitially DEF GraphInv

\* Every step of the graph keeps it.
LEMMA GraphKeeps == GraphInv /\ [Next]_vars => GraphInv'
<1> SUFFICES ASSUME GraphInv, [Next]_vars  PROVE GraphInv'
  OBVIOUS
<1>1. ASSUME UNCHANGED lists  PROVE ListsInv'
  BY <1>1 DEF lists, GraphInv, ListsInv, ListsTypeOK, ChansBehind
<1>2. ASSUME UNCHANGED tree  PROVE TreeInv'
  BY <1>2 DEF tree, walk, seen, GraphInv, TreeInv, TreeTypes, RestTyped, PendingOnce, PendingIdle, Pending,
              Served, UnderVia, EndsAfterItsSource
<1>3. ASSUME UNCHANGED push  PROVE PushTypes' /\ Accounted' /\ GivenBelow'
  <2>1. UNCHANGED <<pushCtxDone, locked, editor, pushing, object, cache, entry, task, rest, outcome,
                    addressed, received, missed, sent, inbox, got, doubled>>
    BY <1>3 DEF push, counters
  <2>2. PushTypes'
    BY <2>1 DEF GraphInv, PushTypes, PushShape, SentBehind, CacheShape, EntryShape, OneAddressed, CountersTyped,
                Increasing, Contains
  <2>3. Accounted'
    BY <2>1, OwedSame, AccountSame DEF GraphInv
  <2>4. GivenBelow'
    BY <2>1 DEF GraphInv, GivenBelow
  <2>q. QED  BY <2>2, <2>3, <2>4
<1>r. RouterInv' /\ PathInv' /\ DecodesBefore'
  <2>1. RouterInv /\ PathInv /\ DecodesBefore
    BY DEF GraphInv
  <2>2. (RouterNext \/ UNCHANGED router) /\ (PathNext \/ UNCHANGED path)
    BY DEF Next, InTree, InPush, InRouter, InPath, vars
  <2>3. RouterInv'
    BY <2>1, <2>2, RouterKeepsInv
  <2>4. PathInv'
    BY <2>1, <2>2, PathKeepsInv
  <2>5. DecodesBefore'
    BY <2>1, <2>2, DecodesStays DEF PathInv
  <2>q. QED  BY <2>3, <2>4, <2>5
<1>4. CASE InTree(TreeNext)
  <2>1. part = "tree" /\ TreeNext /\ UNCHANGED <<part, push>>
    BY <1>4 DEF InTree
  <2>2. ListsInv' /\ TreeInv'
    BY <2>1, TreeKeeps DEF GraphInv
  <2>3. cache' = <<>>
    BY <2>1 DEF GraphInv, push
  <2>4. Gapless'
    BY <2>3, NothingContained DEF Gapless
  <2>q. QED  BY <1>3, <1>r, <2>1, <2>2, <2>3, <2>4 DEF GraphInv
<1>5. CASE InPush(PushNext)
  <2>1. part = "push" /\ PushNext /\ UNCHANGED <<part, tree>>
    BY <1>5 DEF InPush
  <2>2. ListsInv /\ PushTypes /\ Accounted /\ TwiceDoubled /\ GivenBelow /\ Gapless
    BY <2>1 DEF GraphInv
  <2>3. ListsInv' /\ PushTypes'
    BY <2>1, <2>2, PushersMove
  <2>4. Accounted'
    BY <2>1, <2>2, PushersAccount
  <2>5. TwiceDoubled' /\ GivenBelow' /\ Gapless'
    BY <2>1, <2>2, PushersLeaveNoGap
  <2>q. QED  BY <1>2, <1>r, <2>1, <2>3, <2>4, <2>5 DEF GraphInv
<1>6. CASE UNCHANGED <<part, lists, tree, push>>
  <2>1. ListsInv' /\ TreeInv' /\ PushTypes' /\ Accounted' /\ GivenBelow'
    BY <1>1, <1>2, <1>3, <1>6
  <2>2. UNCHANGED <<packetsTo, marked, doubled, pushCtxDone, object, cache, entry, task, rest, got, pushing, part>>
    BY <1>6 DEF lists, push
  <2>3. Gapless'
    <3>1. \A d : Settled(d)' => Settled(d)
      BY <2>2 DEF Settled, Droppy
    <3>2. \A d, v : OnItsWay(d, v) => OnItsWay(d, v)'
      BY <2>2 DEF OnItsWay, WithTask
    <3>3. Gapless
      BY DEF GraphInv
    <3>q. QED  BY <2>2, <3>1, <3>2, <3>3 DEF Gapless, Undropped
  <2>4. (IF part = "push" THEN TwiceDoubled ELSE cache = <<>>)'
    BY <2>2 DEF GraphInv, TwiceDoubled, Twice
  <2>q. QED  BY <1>r, <2>1, <2>3, <2>4 DEF GraphInv
<1>q. QED  BY <1>4, <1>5, <1>6 DEF Next, InRouter, InPath, vars

\* However an edit of a list, a walk of serve.go and a push of pushFurther
\* interleave, and the goroutines of the router and of a forwarding, the invariants
\* of all of them hold in every state.
THEOREM GraphHolds == Spec => []GraphInv
<1>q. QED  BY GraphInitially, GraphKeeps, PTL DEF Spec

\* A node that does not end by itself returns only after the node through which
\* it was found (serve.go): however the walkers, the watchers and the edits of
\* the lists interleave, what the sources still push is taken.
THEOREM EndsAfterItsSourceAlways == Spec => []EndsAfterItsSource
<1>1. GraphInv => EndsAfterItsSource
  BY DEF GraphInv, TreeInv
<1>q. QED  BY <1>1, GraphHolds, PTL

\* Whichever way the goroutine of an entry leaves (pushToDestination), between
\* two objects all that was addressed to a destination was received or missed,
\* and all that it received it was given.
THEOREM AddressedIsAccountedAlways == Spec => []AddressedIsAccounted
<1>1. GraphInv => AddressedIsAccounted
  <2> SUFFICES ASSUME GraphInv, entry = <<>>, NEW d \in Nodes
               PROVE  addressed[d] = received[d] + missed[d] /\ received[d] = Len(got[d])
    BY DEF AddressedIsAccounted
  <2>1. Debt(d, "addressed") = 0 /\ Debt(d, "received") = 0 /\ Debt(d, "missed") = 0
    BY NothingOwed
  <2>2. /\ received[d] \in Nat /\ missed[d] \in Nat
        /\ addressed[d] = received[d] + missed[d]
                          + Debt(d, "addressed") + Debt(d, "received") + Debt(d, "missed")
        /\ Len(got[d]) = received[d] + Debt(d, "received")
    BY AccountTyped DEF GraphInv
  <2>q. QED  BY <2>1, <2>2
<1>q. QED  BY <1>1, GraphHolds, PTL

\* A destination that has joined late and is no longer marked has all that the
\* cache holds (cache_handler.go), at whatever time the list is edited, unless it was
\* in the list twice, something refuses, discards or ends what it is sent, or an object
\* pulled since may be dropped, for which a full queue drops the cache, too.
THEOREM CacheLeavesNoGapAlways == Spec => []CacheLeavesNoGap
<1>1. GraphInv => CacheLeavesNoGap
  BY GapImplies DEF GraphInv
<1>q. QED  BY <1>1, GraphHolds, PTL

\* Whoever publishes, takes over, forwards, closes or is told to end, in whichever
\* order (router.go, route.go, route_source.go, route_forwarding.go): a source that
\* pushes to a route is one of its publishers, on its way out or taken over, an exclusive
\* publisher is alone, the WaitGroup covers the registered routes, and a forwarding
\* that was closed forwards nothing.
THEOREM RouterIsSafe == Spec => []RouterSafe
<1>1. GraphInv => RouterSafe
  BY RouterInvSays DEF GraphInv
<1>q. QED  BY <1>1, GraphHolds, PTL

\* Between the nodes of a source and of a route (stream_forwarder_copy.go) a packet
\* arrives once, in the order of its source, and is lost only if the forwarder has
\* ended or the route leaves it out; a forwarder that was stopped is linked nowhere.
THEOREM ForwardingIsSafe == Spec => [](ArrivesInOrder /\ LosesNothing /\ StoppedIsUnlinked)
<1>1. GraphInv => ArrivesInOrder /\ LosesNothing /\ StoppedIsUnlinked
  BY PathInvSays DEF GraphInv
<1>q. QED  BY <1>1, GraphHolds, PTL

\* All that has to do with the router.  That the time of video moves forward
\* (node_kernel.go) is shown for sources in which it does.
THEOREM RouterKeepsAlways ==
  ASSUME FeedsInOrder
  PROVE  Spec => []RouterKeeps
<1>1. Init => TimeInv
  BY TimeInitially DEF Init
<1>2. GraphInv /\ GraphInv' /\ TimeInv /\ [Next]_vars => TimeInv'
  <2> SUFFICES ASSUME GraphInv, GraphInv', TimeInv, [Next]_vars  PROVE TimeInv'
    OBVIOUS
  <2>1. PathInv /\ PathInv'
    BY DEF GraphInv
  <2>2. PathNext \/ UNCHANGED path
    BY DEF Next, InTree, InPush, InRouter, InPath, vars
  <2>q. QED  BY <2>1, <2>2, TimeKeeps
<1>3. GraphInv /\ TimeInv => RouterKeeps
  BY RouterInvSays, PathInvSays, TimeInvSays DEF GraphInv, RouterKeeps, PathSafe
<1>q. QED  BY <1>1, <1>2, <1>3, GraphHolds, PTL DEF Spec

\* Every variable of the four parts has a value of its type, for any graph, lists,
\* publishers and packets.
THEOREM TypesAlways == Spec => []TypeOK
<1>1. GraphInv => TypeOK
  BY TreeTypesImply, PushTypesImply, RouterInvSays, PathInvSays DEF GraphInv, TypeOK, ListsInv, TreeInv
<1>q. QED  BY <1>1, GraphHolds, PTL

===============================================================================
