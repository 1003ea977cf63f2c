---------------------------- MODULE PrunerProofs ----------------------------
(***************************************************************************)
(* Theorems about the pruner in both its forms, with an event queue        *)
(* (modules EventQueue and Pruner) and without one (module Store, with the *)
(* replication filter in front of it), for every set of documents, every   *)
(* collection order, every filter configuration and every bound.           *)
(***************************************************************************)
EXTENDS Pruner, Store, TLAPS, SequenceTheorems, FiniteSetTheorems, FunctionTheorems

-----------------------------------------------------------------------------
(* Facts about the operators of the queue.                                 *)

\* Every non-empty set of naturals has a least element; used below to argue by
\* smallest counterexample.
LEMMA LeastNatural ==
  ASSUME NEW T \in SUBSET Nat, T # {}
  PROVE  \E x \in T : \A y \in T : x <= y
<1>1. IsWellFoundedOn({p \in Nat \X Nat : p[1] < p[2]}, Nat)
  BY NatLessThanWellFounded DEF OpToRel
<1>2. PICK x \in T : \A y \in T : ~(<<y, x>> \in {p \in Nat \X Nat : p[1] < p[2]})
  BY <1>1, WFMin
<1>3. \A y \in T : ~ (y < x)
  BY <1>2
<1> QED
  BY <1>3

\* A finite set of positions has an increasing enumeration, so that Group's CHOOSE
\* picks one.
LEMMA EnumerationExists ==
  ASSUME NEW m \in Nat, NEW P \in SUBSET (1..m)
  PROVE  Enumerations(P) # {}
<1> DEFINE Q(n) == P \cap (1..n)
           T == {n \in Nat : Enumerations(Q(n)) = {}}
<1>1. ASSUME NEW n \in Nat PROVE IsFiniteSet(Q(n)) /\ Cardinality(Q(n)) \in Nat
  <2>1. IsFiniteSet(1..n) /\ Q(n) \in SUBSET (1..n)
    BY FS_Interval
  <2>2. IsFiniteSet(Q(n))
    BY <2>1, FS_Subset
  <2> QED
    BY <2>2, FS_CardinalityType
<1>2. 0 \notin T
  <2>1. Q(0) = {}
    OBVIOUS
  <2>2. Cardinality(Q(0)) = 0
    BY <2>1, FS_EmptySet
  <2>3. [k \in 1..0 |-> k] \in Enumerations(Q(0))
    BY <2>2 DEF Enumerations
  <2> QED
    BY <2>3
<1>3. ASSUME NEW n \in Nat, n \notin T PROVE n + 1 \notin T
  <2>1. PICK f : f \in Enumerations(Q(n))
    BY <1>3
  <2> DEFINE c == Cardinality(Q(n))
  <2>2. c \in Nat /\ f \in [1..c -> Q(n)]
        /\ \A a, b \in 1..c : a < b => f[a] < f[b]
    BY <1>1, <2>1 DEF Enumerations
  <2>3. CASE n + 1 \notin P
    <3>1. Q(n + 1) = Q(n)
      BY <2>3
    <3> QED
      BY <3>1, <2>1
  <2>4. CASE n + 1 \in P
    <3>1. Q(n + 1) = Q(n) \cup {n + 1} /\ n + 1 \notin Q(n)
      BY <2>4
    <3>2. Cardinality(Q(n + 1)) = c + 1
      BY <3>1, <1>1, FS_AddElement
    <3> DEFINE g == [k \in 1..(c + 1) |-> IF k <= c THEN f[k] ELSE n + 1]
    <3>3. g \in [1..(c + 1) -> Q(n + 1)]
      <4> HIDE DEF Q, c
      <4>1. ASSUME NEW k \in 1..(c + 1), k <= c PROVE f[k] \in Q(n)
        <5>1. k \in 1..c
          BY <2>2, <4>1
        <5> QED
          BY <2>2, <5>1
      <4> QED
        BY <3>1, <4>1
    <3>4. \A a, b \in 1..(c + 1) : a < b => g[a] < g[b]
      <4> SUFFICES ASSUME NEW a \in 1..(c + 1), NEW b \in 1..(c + 1), a < b
                   PROVE  g[a] < g[b]
        OBVIOUS
      <4>1. a \in 1..c /\ g[a] = f[a]
        BY <2>2
      <4>2. f[a] \in 1..n
        BY <2>2, <4>1
      <4>3. CASE b <= c
        <5> HIDE DEF Q, c
        <5>1. b \in 1..c /\ g[b] = f[b]
          BY <2>2, <4>3
        <5> HIDE DEF g
        <5> QED
          BY <2>2, <4>1, <5>1
      <4>4. CASE ~(b <= c)
        <5>1. g[b] = n + 1
          BY <4>4
        <5> QED
          BY <5>1, <4>1, <4>2
      <4> QED
        BY <4>3, <4>4
    <3>5. g \in Enumerations(Q(n + 1))
      BY <3>2, <3>3, <3>4 DEF Enumerations
    <3> QED
      BY <3>5
  <2> QED
    BY <2>3, <2>4
<1>4. T = {}
  <2> SUFFICES ASSUME T # {} PROVE FALSE
    OBVIOUS
  <2>1. T \in SUBSET Nat
    OBVIOUS
  <2>2. PICK x \in T : \A y \in T : x <= y
    BY <2>1, LeastNatural
  <2>3. x \in Nat /\ x # 0
    BY <1>2, <2>1, <2>2
  <2>4. x - 1 \in Nat /\ x - 1 \notin T /\ (x - 1) + 1 = x
    BY <2>2, <2>3
  <2> HIDE DEF T
  <2>5. x \notin T
    BY <1>3, <2>4
  <2> QED
    BY <2>2, <2>5
<1>5. Q(m) = P
  OBVIOUS
<1> QED
  BY <1>4, <1>5

\* Group(s, c) holds entries of s, all of collection c, and misses none of them: a
\* drain hands every entry of a tracked collection to the purge of that collection.
LEMMA GroupFacts ==
  ASSUME NEW s \in Seq(Entry), NEW c
  PROVE  /\ Group(s, c) \in Seq(Entry)
         /\ \A k \in DOMAIN Group(s, c) : \E i \in DOMAIN s : Group(s, c)[k] = s[i]
         /\ \A i \in DOMAIN s : ColOf[s[i].doc] = c =>
               \E k \in DOMAIN Group(s, c) : Group(s, c)[k] = s[i]
<1> DEFINE P == {i \in DOMAIN s : ColOf[s[i].doc] = c}
           f == CHOOSE f \in Enumerations(P) : TRUE
           n == Cardinality(P)
           g == [k \in 1..n |-> s[f[k]]]
<1>1. Len(s) \in Nat /\ DOMAIN s = 1..Len(s) /\ \A i \in DOMAIN s : s[i] \in Entry
  BY LenProperties, ElementOfSeq
<1>2. P \in SUBSET (1..Len(s)) /\ P \subseteq DOMAIN s
  BY <1>1
<1>3. f \in Enumerations(P)
  BY <1>1, <1>2, EnumerationExists
<1>4. IsFiniteSet(P) /\ n \in Nat
  <2>1. IsFiniteSet(1..Len(s))
    BY <1>1, FS_Interval
  <2>2. IsFiniteSet(P)
    BY <2>1, <1>2, FS_Subset
  <2> QED
    BY <2>2, FS_CardinalityType
<1>5. f \in [1..n -> P] /\ \A a, b \in 1..n : a < b => f[a] < f[b]
  BY <1>3 DEF Enumerations
<1>6. Group(s, c) = g
  BY DEF Group
<1> HIDE DEF f, n
<1>7. \A a, b \in 1..n : f[a] = f[b] => a = b
  <2> SUFFICES ASSUME NEW a \in 1..n, NEW b \in 1..n, a # b
               PROVE  f[a] # f[b]
    OBVIOUS
  <2>1. f[a] \in Nat /\ f[b] \in Nat
    BY <1>2, <1>5
  <2>2. a < b \/ b < a
    BY <1>4
  <2> QED
    BY <1>5, <2>1, <2>2
<1>8. f \in Surjection(1..n, P)
  <2>1. f \in Injection(1..n, P)
    BY <1>5, <1>7 DEF Injection, IsInjective
  <2>2. Cardinality(1..n) = Cardinality(P)
    BY <1>4, FS_Interval DEF n
  <2> QED
    BY <2>1, <2>2, <1>4, FS_Injection
<1>9. \A k \in 1..n : f[k] \in DOMAIN s /\ g[k] = s[f[k]] /\ g[k] \in Entry
  BY <1>1, <1>2, <1>5
<1>10. g \in Seq(Entry) /\ DOMAIN g = 1..n
  <2>1. g \in [1..n -> Entry]
    BY <1>9
  <2> QED
    BY <2>1, <1>4, SeqDef
<1>11. ASSUME NEW i \in DOMAIN s, ColOf[s[i].doc] = c
       PROVE  \E k \in DOMAIN g : g[k] = s[i]
  <2>1. i \in P
    BY <1>11
  <2>2. PICK k \in 1..n : f[k] = i
    BY <2>1, <1>8 DEF Surjection
  <2> QED
    BY <2>2, <1>9, <1>10
<1> HIDE DEF g
<1>12. \A k \in DOMAIN g : \E i \in DOMAIN s : g[k] = s[i]
  BY <1>9, <1>10
<1> QED
  BY <1>6, <1>10, <1>11, <1>12

\* What appending, concatenating and splitting do to the documents of a sequence.
LEMMA DocsInEmpty == DocsIn(<<>>) = {}
  BY DEF DocsIn

LEMMA DocsInType ==
  ASSUME NEW s \in Seq(Entry)
  PROVE  DocsIn(s) \subseteq Doc /\ (s # <<>> => DocsIn(s) # {})
<1>1. \A i \in DOMAIN s : s[i] \in Entry
  BY LenProperties, ElementOfSeq
<1>2. s # <<>> => 1 \in DOMAIN s
  BY EmptySeq, LenProperties
<1> QED
  BY <1>1, <1>2 DEF DocsIn, Entry

LEMMA DocsInConcat ==
  ASSUME NEW s \in Seq(Entry), NEW t \in Seq(Entry)
  PROVE  DocsIn(s \o t) = DocsIn(s) \cup DocsIn(t)
<1> DEFINE u == s \o t
<1>1. /\ u \in Seq(Entry)
      /\ Len(u) = Len(s) + Len(t)
      /\ \A i \in 1..Len(s) + Len(t) : u[i] = IF i <= Len(s) THEN s[i] ELSE t[i - Len(s)]
  BY ConcatProperties
<1>2. /\ Len(s) \in Nat /\ DOMAIN s = 1..Len(s)
      /\ Len(t) \in Nat /\ DOMAIN t = 1..Len(t)
      /\ DOMAIN u = 1..Len(s) + Len(t)
  BY <1>1, LenProperties
<1> HIDE DEF u
<1>3. ASSUME NEW i \in DOMAIN u PROVE u[i].doc \in DocsIn(s) \cup DocsIn(t)
  <2>1. CASE i <= Len(s)
    BY <1>1, <1>2, <2>1 DEF DocsIn
  <2>2. CASE ~(i <= Len(s))
    <3>1. i - Len(s) \in DOMAIN t /\ u[i] = t[i - Len(s)]
      BY <1>1, <1>2, <2>2
    <3> QED
      BY <3>1 DEF DocsIn
  <2> QED
    BY <2>1, <2>2
<1>4. ASSUME NEW i \in DOMAIN s PROVE s[i].doc \in DocsIn(u)
  <2>1. i \in DOMAIN u /\ u[i] = s[i]
    BY <1>1, <1>2
  <2> QED
    BY <2>1 DEF DocsIn
<1>5. ASSUME NEW i \in DOMAIN t PROVE t[i].doc \in DocsIn(u)
  <2>1. i + Len(s) \in DOMAIN u /\ u[i + Len(s)] = t[i]
    BY <1>1, <1>2
  <2> QED
    BY <2>1 DEF DocsIn
<1>6. DocsIn(u) = DocsIn(s) \cup DocsIn(t)
  BY <1>3, <1>4, <1>5 DEF DocsIn
<1> QED
  BY <1>6 DEF u

LEMMA DocsInAppend ==
  ASSUME NEW s \in Seq(Entry), NEW e \in Entry
  PROVE  DocsIn(Append(s, e)) = DocsIn(s) \cup {e.doc}
<1>1. <<e>> \in Seq(Entry) /\ Append(s, e) = s \o <<e>>
  BY AppendIsConcat
<1>2. DocsIn(<<e>>) = {e.doc}
  BY DEF DocsIn
<1> QED
  BY <1>1, <1>2, DocsInConcat

\* A sequence cut in two.
LEMMA CutSeq ==
  ASSUME NEW s \in Seq(Entry), NEW n \in 0..Len(s)
  PROVE  /\ SubSeq(s, 1, n) \in Seq(Entry)
         /\ SubSeq(s, n + 1, Len(s)) \in Seq(Entry)
         /\ Len(SubSeq(s, n + 1, Len(s))) = Len(s) - n
         /\ s = SubSeq(s, 1, n) \o SubSeq(s, n + 1, Len(s))
<1>1. Len(s) \in Nat /\ \A i \in 1..Len(s) : s[i] \in Entry
  BY LenProperties, ElementOfSeq
<1>2. SubSeq(s, 1, n) \in Seq(Entry)
  BY <1>1, SubSeqProperties
<1>3. /\ SubSeq(s, n + 1, Len(s)) \in Seq(Entry)
      /\ Len(SubSeq(s, n + 1, Len(s))) = Len(s) - n
  <2>1. \A i \in (n + 1)..Len(s) : s[i] \in Entry
    BY <1>1
  <2> QED
    BY <1>1, <2>1, SubSeqProperties
<1>4. s = SubSeq(s, 1, n) \o SubSeq(s, n + 1, Len(s))
  <2>1. 1 \in 1..Len(s) + 1 /\ n \in (1 - 1)..Len(s) /\ Len(s) \in n..Len(s)
    BY <1>1
  <2>2. SubSeq(s, 1, n) \o SubSeq(s, n + 1, Len(s)) = SubSeq(s, 1, Len(s))
    BY <2>1, ConcatAdjacentSubSeq
  <2> QED
    BY <2>2, SubSeqFull
<1> QED
  BY <1>2, <1>3, <1>4

LEMMA DocsInCut ==
  ASSUME NEW s \in Seq(Entry), NEW n \in 0..Len(s)
  PROVE  DocsIn(s) = DocsIn(SubSeq(s, 1, n)) \cup DocsIn(SubSeq(s, n + 1, Len(s)))
BY CutSeq, DocsInConcat

LEMMA DocsInTail ==
  ASSUME NEW s \in Seq(Entry), s # <<>>
  PROVE  /\ Head(s) \in Entry /\ Tail(s) \in Seq(Entry)
         /\ DocsIn(s) = {Head(s).doc} \cup DocsIn(Tail(s))
<1>1. Head(s) \in Entry /\ Tail(s) \in Seq(Entry)
  BY HeadTailProperties
<1>2. s = <<Head(s)>> \o Tail(s) /\ <<Head(s)>> \in Seq(Entry)
  <2>1. Len(s) \in Nat \ {0}
    BY EmptySeq
  <2>2. SubSeq(s, 1, Len(s)) = <<s[1]>> \o SubSeq(s, 2, Len(s))
    BY <2>1, SubSeqRecursiveFirst
  <2> QED
    BY <1>1, <2>1, <2>2, SubSeqFull, TailIsSubSeq
<1>3. DocsIn(<<Head(s)>>) = {Head(s).doc}
  BY DEF DocsIn
<1> QED
  BY <1>1, <1>2, <1>3, DocsInConcat

\* The number of block entries is a natural number and adds up over concatenation.
LEMMA BlocksInType ==
  ASSUME NEW s \in Seq(Entry)
  PROVE  /\ IsFiniteSet({i \in DOMAIN s : IsBlock(s[i])})
         /\ BlocksIn(s) \in Nat
<1>1. Len(s) \in Nat /\ DOMAIN s = 1..Len(s)
  BY LenProperties
<1>2. IsFiniteSet(DOMAIN s)
  BY <1>1, FS_Interval
<1>3. IsFiniteSet({i \in DOMAIN s : IsBlock(s[i])})
  BY <1>2, FS_Subset
<1> QED
  BY <1>3, FS_CardinalityType DEF BlocksIn

LEMMA BlocksInConcat ==
  ASSUME NEW s \in Seq(Entry), NEW t \in Seq(Entry)
  PROVE  BlocksIn(s \o t) = BlocksIn(s) + BlocksIn(t)
<1> DEFINE u == s \o t
           n == Len(s)
           A == {i \in DOMAIN s : IsBlock(s[i])}
           B == {i \in DOMAIN t : IsBlock(t[i])}
           C == {i \in DOMAIN u : IsBlock(u[i])}
           D == C \ A
<1>1. /\ u \in Seq(Entry)
      /\ Len(u) = n + Len(t)
      /\ \A i \in 1..n + Len(t) : u[i] = IF i <= n THEN s[i] ELSE t[i - n]
  BY ConcatProperties
<1>2. /\ n \in Nat /\ DOMAIN s = 1..n
      /\ Len(t) \in Nat /\ DOMAIN t = 1..Len(t)
      /\ DOMAIN u = 1..n + Len(t)
  BY <1>1, LenProperties
<1>3. IsFiniteSet(A) /\ IsFiniteSet(B)
  BY BlocksInType
<1> HIDE DEF u, n
<1>4. C = A \cup D /\ A \cap D = {} /\ \A i \in D : i > n /\ i - n \in B
  <2>1. ASSUME NEW i \in A PROVE i \in C
    BY <1>1, <1>2, <2>1
  <2>2. ASSUME NEW i \in D PROVE i > n /\ i - n \in B
    <3>1. i \in 1..n + Len(t) /\ IsBlock(u[i])
      BY <1>2, <2>2
    <3>2. i > n
      BY <1>1, <1>2, <3>1, <2>2
    <3>3. u[i] = t[i - n] /\ i - n \in 1..Len(t)
      BY <1>1, <1>2, <3>1, <3>2
    <3> QED
      BY <1>2, <3>1, <3>2, <3>3
  <2> QED
    BY <2>1, <2>2
<1>5. \A i \in B : i + n \in D
  <2> SUFFICES ASSUME NEW i \in B PROVE i + n \in C /\ i + n \notin A
    OBVIOUS
  <2>1. i + n \in 1..n + Len(t) /\ i + n > n /\ (i + n) - n = i
    BY <1>2
  <2>2. u[i + n] = t[i]
    BY <1>1, <1>2, <2>1
  <2> QED
    BY <1>2, <2>1, <2>2
<1>6. ExistsBijection(B, D)
  <2> DEFINE f == [i \in B |-> i + n]
  <2> SUFFICES f \in Bijection(B, D)
    BY DEF ExistsBijection
  <2>1. f \in [B -> D]
    BY <1>5
  <2>2. \A a, b \in B : f[a] = f[b] => a = b
    BY <1>2
  <2>3. \A d \in D : \E b \in B : f[b] = d
    <3> SUFFICES ASSUME NEW d \in D PROVE \E b \in B : f[b] = d
      OBVIOUS
    <3>1. d - n \in B /\ d \in Int
      BY <1>2, <1>4
    <3>2. f[d - n] = d
      BY <3>1, <1>2
    <3> QED
      BY <3>1, <3>2
  <2> QED
    BY <2>1, <2>2, <2>3 DEF Bijection, Injection, IsInjective, Surjection
<1>7. IsFiniteSet(D) /\ Cardinality(D) = Cardinality(B)
  BY <1>3, <1>6, FS_Bijection
<1>8. Cardinality(C) = Cardinality(A) + Cardinality(D)
  <2>1. Cardinality(A \cup D) = Cardinality(A) + Cardinality(D) - Cardinality(A \cap D)
    BY <1>3, <1>7, FS_Union
  <2>2. Cardinality(A) \in Nat /\ Cardinality(D) \in Nat
    BY <1>3, <1>7, FS_CardinalityType
  <2>3. Cardinality(A \cap D) = 0 /\ C = A \cup D
    BY <1>4, FS_EmptySet
  <2> HIDE DEF A, C, D
  <2> QED
    BY <2>1, <2>2, <2>3
<1> QED
  BY <1>7, <1>8 DEF BlocksIn, u

LEMMA BlocksInSingle ==
  ASSUME NEW e \in Entry
  PROVE  BlocksIn(<<e>>) = IF IsBlock(e) THEN 1 ELSE 0
<1>1. DOMAIN <<e>> = {1} /\ <<e>>[1] = e
  OBVIOUS
<1>2. CASE IsBlock(e)
  <2>1. {i \in DOMAIN <<e>> : IsBlock(<<e>>[i])} = {1}
    BY <1>1, <1>2
  <2> QED
    BY <1>2, <2>1, FS_Singleton DEF BlocksIn
<1>3. CASE ~IsBlock(e)
  <2>1. {i \in DOMAIN <<e>> : IsBlock(<<e>>[i])} = {}
    BY <1>1, <1>3
  <2> QED
    BY <1>3, <2>1, FS_EmptySet DEF BlocksIn
<1> QED
  BY <1>2, <1>3

\* The purge order visits every collection.
LEMMA PurgeOrderFacts ==
  PurgeOrder \in Seq(Collection) /\ Range(PurgeOrder) = Collection
<1>1. DependentCollections \in Seq(Collection)
  BY ConfigAssumption, SeqMonotonic DEF Collection
<1>2. BlockCollection \in Collection
  BY DEF Collection
<1>3. /\ PurgeOrder \in Seq(Collection)
      /\ Len(PurgeOrder) = Len(DependentCollections) + 1
      /\ \A i \in 1..Len(DependentCollections) : PurgeOrder[i] = DependentCollections[i]
      /\ PurgeOrder[Len(DependentCollections) + 1] = BlockCollection
  BY <1>1, <1>2, AppendProperties DEF PurgeOrder
<1>4. /\ Len(DependentCollections) \in Nat
      /\ DOMAIN DependentCollections = 1..Len(DependentCollections)
      /\ DOMAIN PurgeOrder = 1..Len(DependentCollections) + 1
  BY <1>1, <1>3, LenProperties
<1> HIDE DEF PurgeOrder
<1>5. Range(PurgeOrder) \subseteq Collection
  BY <1>3, <1>4, ElementOfSeq DEF Range
<1>6. BlockCollection \in Range(PurgeOrder)
  BY <1>3, <1>4 DEF Range
<1>7. ASSUME NEW i \in DOMAIN DependentCollections
      PROVE  DependentCollections[i] \in Range(PurgeOrder)
  BY <1>3, <1>4 DEF Range
<1> QED
  BY <1>3, <1>5, <1>6, <1>7 DEF Collection, Range

\* Taking the head off a list of collections keeps every other one in it.
LEMMA TailTodo ==
  ASSUME NEW t \in Seq(Collection), t # <<>>
  PROVE  /\ Head(t) \in Collection /\ Tail(t) \in Seq(Collection)
         /\ \A c \in Range(t) : c # Head(t) => c \in Range(Tail(t))
<1>1. /\ Head(t) \in Collection /\ Tail(t) \in Seq(Collection)
      /\ Len(Tail(t)) = Len(t) - 1
      /\ \A i \in 1..Len(Tail(t)) : Tail(t)[i] = t[i + 1]
  BY HeadTailProperties
<1>2. Len(t) \in Nat /\ DOMAIN t = 1..Len(t) /\ DOMAIN Tail(t) = 1..(Len(t) - 1)
  BY <1>1, LenProperties
<1>3. ASSUME NEW i \in DOMAIN t, t[i] # Head(t) PROVE t[i] \in Range(Tail(t))
  <2>1. t[1] = Head(t)
    OBVIOUS
  <2>2. i - 1 \in 1..(Len(t) - 1) /\ (i - 1) + 1 = i
    BY <1>2, <1>3, <2>1
  <2>3. Tail(t)[i - 1] = t[i]
    BY <1>1, <2>2
  <2> QED
    BY <1>2, <2>2, <2>3 DEF Range
<1> QED
  BY <1>1, <1>3 DEF Range

\* The number of entries a drain takes.
LEMMA ClampRange ==
  ASSUME TypeOK
  PROVE  Clamp(excess) \in 0..Len(entries)
BY LenProperties DEF Clamp, TypeOK

-----------------------------------------------------------------------------
(* The variables keep their types.                                         *)

LEMMA TypeInit == Init => TypeOK
<1> SUFFICES ASSUME Init PROVE TypeOK
  OBVIOUS
<1>1. NoPending \in [Collection -> Seq(Entry)]
  BY EmptySeq DEF NoPending
<1>2. file \in Snapshot
  BY EmptySeq DEF Init, InitQueue, NoFile, Snapshot
<1>3. <<>> \in Seq(Entry) /\ <<>> \in Seq(Collection)
  BY EmptySeq
<1>4. docIDPrefix \in BOOLEAN /\ listening \in BOOLEAN
  BY Zenon DEF Init, InitQueue
<1> QED
  BY <1>1, <1>2, <1>3, <1>4, BoundsAssumption
     DEF Init, InitQueue, TypeOK, Phase, LoopPC

LEMMA TypeStep == TypeOK /\ [Next]_vars => TypeOK'
<1> SUFFICES ASSUME TypeOK, [Next]_vars PROVE TypeOK'
  OBVIOUS
<1> USE DEF queueVars, loopVars
<1>1. ASSUME NEW d \in Doc, Replicate(d) PROVE TypeOK'
  <2>1. [doc |-> d, at |-> arrivals] \in Entry
    BY DEF TypeOK, Entry
  <2>2. bus' \in Seq(Entry)
    <3>1. Append(bus, [doc |-> d, at |-> arrivals]) \in Seq(Entry)
      BY <2>1, AppendProperties DEF TypeOK
    <3>2. bus' = Append(bus, [doc |-> d, at |-> arrivals]) \/ bus' = bus
      BY <1>1 DEF Replicate
    <3> QED
      BY <3>1, <3>2 DEF TypeOK
  <2> QED
    BY <1>1, <2>2 DEF Replicate, TypeOK
<1>2. CASE Subscribe
  BY <1>2 DEF Subscribe, TypeOK
<1>3. CASE HandleUpdate
  <2> DEFINE e == Head(bus)
  <2>1. e \in Entry /\ e.doc \in Doc /\ Tail(bus) \in Seq(Entry)
    <3>1. e \in Entry /\ Tail(bus) \in Seq(Entry)
      BY <1>3, HeadTailProperties DEF HandleUpdate, TypeOK
    <3> QED
      BY <3>1 DEF Entry
  <2>2. Append(entries, e) \in Seq(Entry)
    BY <2>1, AppendProperties DEF TypeOK
  <2> HIDE DEF e
  <2>3. CASE phase \in {"up", "closing", "saved"} /\ ColOf[e.doc] \in KnownCollection
    <3>1. Push(e) /\ pushed' = pushed \cup {e.doc} /\ lost' \in {lost, lost \cup {e.doc}}
      BY <1>3, <2>3 DEF HandleUpdate, e
    <3>2. entries' \in Seq(Entry) /\ blockCount' \in Int /\ docIDPrefix' \in BOOLEAN /\ file' = file
      <4>1. docIDPrefix' \in BOOLEAN /\ file' = file
        BY <3>1, Zenon DEF Push
      <4>2. CASE ColOf[e.doc] \in Collection
        <5>1. entries' = Append(entries, e) /\ blockCount' = blockCount + (IF IsBlock(e) THEN 1 ELSE 0)
          BY <3>1, <4>2 DEF Push
        <5> QED
          BY <2>2, <4>1, <5>1 DEF TypeOK
      <4>3. CASE ColOf[e.doc] \notin Collection
        BY <3>1, <4>1, <4>3 DEF Push, TypeOK
      <4> QED
        BY <4>2, <4>3
    <3> QED
      BY <1>3, <2>1, <3>1, <3>2 DEF HandleUpdate, TypeOK
  <2>4. CASE ~(phase \in {"up", "closing", "saved"} /\ ColOf[e.doc] \in KnownCollection)
    BY <1>3, <2>1, <2>4 DEF HandleUpdate, TypeOK, e
  <2> QED
    BY <2>3, <2>4
<1>4. CASE ListenerExit
  <2>1. BusDocs \subseteq Doc
    BY DocsInType DEF BusDocs, TypeOK
  <2> QED
    BY <1>4, <2>1, EmptySeq DEF ListenerExit, TypeOK
<1>5. CASE Measure
  <2>1. Len(entries) \in Nat
    BY LenProperties DEF TypeOK
  <2>2. excess' \in Nat
    BY <1>5, <2>1, BoundsAssumption DEF Measure
  <2> QED
    BY <1>5, <2>2 DEF Measure, TypeOK, LoopPC
<1>6. CASE Drain
  <2> DEFINE n == Clamp(excess)
             s == Front(n)
  <2>1. n \in 0..Len(entries) /\ entries \in Seq(Entry)
    BY ClampRange DEF TypeOK
  <2>2. s \in Seq(Entry) /\ SubSeq(entries, n + 1, Len(entries)) \in Seq(Entry)
    BY <2>1, CutSeq DEF Front
  <2>3. BlocksIn(s) \in Nat
    BY <2>2, BlocksInType
  <2>4. \A c \in Collection : Group(s, c) \in Seq(Entry)
    BY <2>2, GroupFacts
  <2>5. {s[i].at : i \in DOMAIN s} \subseteq Nat
    <3> HIDE DEF s
    <3>1. \A i \in DOMAIN s : s[i] \in Entry
      BY <2>2, LenProperties, ElementOfSeq
    <3> QED
      BY <3>1 DEF Entry
  <2> HIDE DEF n, s
  <2>6. /\ DrainDocs(n)
        /\ pending' = [c \in Collection |-> Group(s, c)]
        /\ drained' = drained \cup {s[i].at : i \in DOMAIN s}
        /\ excess' = 0 /\ todo' = PurgeOrder /\ pc' = "purging"
        /\ UNCHANGED <<store, bus, listening, phase, arrivals, restarts, pushed, lost>>
    BY <1>6 DEF Drain, n, s
  <2>7. entries' \in Seq(Entry) /\ blockCount' \in Int /\ UNCHANGED <<docIDPrefix, file>>
    BY <2>2, <2>3, <2>6 DEF DrainDocs, TypeOK, s
  <2> QED
    BY <2>4, <2>5, <2>6, <2>7, PurgeOrderFacts DEF TypeOK, LoopPC
<1>7. CASE SkipCollection
  BY <1>7, TailTodo DEF SkipCollection, TypeOK
<1>8. ASSUME NEW c \in Collection, PurgeCollection(c) PROVE TypeOK'
  BY <1>8, TailTodo, EmptySeq DEF PurgeCollection, TypeOK
<1>9. ASSUME NEW c \in Collection, PurgeFails(c) PROVE TypeOK'
  <2>1. pending[c] \in Seq(Entry)
    BY DEF TypeOK
  <2>2. pending[c] \o entries \in Seq(Entry)
    BY <2>1, ConcatProperties DEF TypeOK
  <2>3. entries' \in Seq(Entry) /\ blockCount' \in Int /\ docIDPrefix' = TRUE /\ file' = file
    BY <1>9, <2>1, <2>2, BlocksInType DEF PurgeFails, Requeue, TypeOK
  <2>4. pending' \in [Collection -> Seq(Entry)] /\ todo' \in Seq(Collection)
    BY <1>9, TailTodo, EmptySeq DEF PurgeFails, TypeOK
  <2>5. store' \subseteq Doc
    BY <1>9 DEF PurgeFails, TypeOK
  <2> QED
    BY <1>9, <2>3, <2>4, <2>5 DEF PurgeFails, TypeOK
<1>10. CASE FinishCycle
  BY <1>10 DEF FinishCycle, TypeOK, LoopPC
<1>11. CASE StartPruner
  <2>1. FileDocs \subseteq Doc /\ file.entries \in Seq(Entry) /\ file.blockCount \in Int
        /\ file.prefix \in BOOLEAN
    BY DocsInType DEF FileDocs, TypeOK, Snapshot
  <2> QED
    BY <1>11, <2>1 DEF StartPruner, LoadFromFile, TypeOK, LoopPC, Phase
<1>12. CASE Attach
  BY <1>12 DEF Attach, TypeOK, Phase
<1>13. CASE BeginClose
  BY <1>13 DEF BeginClose, TypeOK, Phase
<1>14. CASE LoopExit
  BY <1>14 DEF LoopExit, TypeOK, LoopPC
<1>15. CASE SaveQueue
  <2>1. DocsIn(entries) \subseteq Doc
    BY DocsInType DEF TypeOK
  <2>2. NoFile \in Snapshot
    BY EmptySeq DEF NoFile, Snapshot
  <2>3. [entries |-> entries, blockCount |-> blockCount, prefix |-> docIDPrefix] \in Snapshot
    BY DEF TypeOK, Snapshot
  <2>4. file' \in Snapshot /\ UNCHANGED <<entries, blockCount, docIDPrefix>>
    <3>1. CASE Save
      BY <3>1, <2>2, <2>3 DEF Save
    <3>2. CASE UNCHANGED queueVars
      BY <3>2 DEF TypeOK
    <3> QED
      BY <1>15, <3>1, <3>2 DEF SaveQueue
  <2>5. lost' \subseteq Doc
    BY <1>15, <2>1 DEF SaveQueue, TypeOK
  <2> QED
    BY <1>15, <2>4, <2>5 DEF SaveQueue, TypeOK, LoopPC, Phase
<1>16. CASE Gone /\ lost' \in SUBSET Doc
  <2>1. <<>> \in Seq(Entry) /\ <<>> \in Seq(Collection)
    BY EmptySeq
  <2>2. NoPending \in [Collection -> Seq(Entry)]
    BY <2>1 DEF NoPending
  <2>3. docIDPrefix' \in BOOLEAN /\ listening' \in BOOLEAN
    BY <1>16, Zenon DEF Gone, Forget
  <2> QED
    BY <1>16, <2>1, <2>2, <2>3 DEF Gone, Forget, TypeOK, LoopPC, Phase
<1>17. CASE Exit
  <2>1. BusDocs \subseteq Doc
    BY DocsInType DEF BusDocs, TypeOK
  <2> QED
    BY <1>16, <1>17, <2>1 DEF Exit, TypeOK
<1>18. CASE Crash
  <2>1. BusDocs \subseteq Doc /\ DocsIn(entries) \subseteq Doc
    BY DocsInType DEF BusDocs, TypeOK
  <2>2. PendingDocs \subseteq Doc
    BY DocsInType DEF PendingDocs, TypeOK
  <2> QED
    BY <1>16, <1>18, <2>1, <2>2 DEF Crash, TypeOK
<1>19. CASE Restart
  BY <1>19 DEF Restart, TypeOK, Phase
<1>20. CASE UNCHANGED vars
  BY <1>20 DEF vars, TypeOK
<1> QED
  BY <1>1, <1>2, <1>3, <1>4, <1>5, <1>6, <1>7, <1>8, <1>9, <1>10, <1>11, <1>12, <1>13,
     <1>14, <1>15, <1>17, <1>18, <1>19, <1>20
     DEF Next, Listener, LoopStep, Lifecycle

\* Every variable of the queue, the prune loop and the host keeps its type, through
\* drains, failed purges, saves, crashes and restarts.
THEOREM TypeCorrect == Spec => []TypeOK
<1> QED
  BY TypeInit, TypeStep, PTL DEF Spec

-----------------------------------------------------------------------------
(* The prune loop's local state.                                           *)

LEMMA LoopInit == Init => LoopConsistent
<1> SUFFICES ASSUME Init PROVE LoopConsistent
  OBVIOUS
<1>1. \A c \in Collection : pending[c] = <<>>
  BY DEF Init, NoPending
<1> QED
  BY <1>1 DEF Init, InitQueue, LoopConsistent

LEMMA LoopInvStep == TypeOK /\ LoopConsistent /\ [Next]_vars => LoopConsistent'
<1> SUFFICES ASSUME TypeOK, LoopConsistent, [Next]_vars PROVE LoopConsistent'
  OBVIOUS
<1> USE DEF queueVars, loopVars
<1>0. entries \in Seq(Entry) /\ Len(entries) \in Nat /\ excess \in Nat /\ MaxDocs \in Nat
  BY LenProperties, BoundsAssumption DEF TypeOK
<1>1. ASSUME NEW d \in Doc, Replicate(d) PROVE LoopConsistent'
  BY <1>1 DEF Replicate, LoopConsistent, NoPending
<1>2. CASE Subscribe
  BY <1>2 DEF Subscribe, LoopConsistent, NoPending
<1>3. CASE HandleUpdate
  <2> DEFINE e == Head(bus)
  <2>1. e \in Entry
    BY <1>3, HeadTailProperties DEF HandleUpdate, TypeOK
  <2>2. Len(Append(entries, e)) = Len(entries) + 1
    BY <2>1, <1>0, AppendProperties
  <2> HIDE DEF e
  <2>3. UNCHANGED <<phase, pc, excess, pending, todo>>
    BY <1>3 DEF HandleUpdate
  <2>4. \/ entries' = entries
        \/ entries' = Append(entries, e) /\ phase \in {"up", "closing", "saved"}
    BY <1>3 DEF HandleUpdate, Push, e
  <2> QED
    BY <1>0, <2>2, <2>3, <2>4 DEF LoopConsistent, NoPending
<1>4. CASE ListenerExit
  BY <1>4 DEF ListenerExit, LoopConsistent, NoPending
<1>5. CASE Measure
  BY <1>0, <1>5 DEF Measure, LoopConsistent, NoPending
<1>6. CASE Drain
  <2>1. /\ pc' = "purging" /\ todo' = PurgeOrder /\ excess' = 0 /\ phase' = phase
        /\ pc = "measured"
    BY <1>6 DEF Drain
  <2>2. phase \notin {"down", "booting", "saved"}
    BY <2>1 DEF LoopConsistent
  <2> QED
    BY <2>1, <2>2, PurgeOrderFacts DEF LoopConsistent
<1>7. CASE SkipCollection
  <2>1. \A c \in Collection : pending[c] # <<>> => c \in Range(Tail(todo))
    BY <1>7, TailTodo DEF SkipCollection, LoopConsistent, TypeOK
  <2> QED
    BY <1>7, <2>1 DEF SkipCollection, LoopConsistent, NoPending
<1>8. ASSUME NEW c \in Collection, PurgeCollection(c) \/ PurgeFails(c)
      PROVE  LoopConsistent'
  <2>1. /\ pc = "purging" /\ pc' = pc /\ phase' = phase /\ excess' = excess
        /\ todo # <<>> /\ Head(todo) = c /\ todo' = Tail(todo)
        /\ pending' = [pending EXCEPT ![c] = <<>>]
    BY <1>8 DEF PurgeCollection, PurgeFails
  <2>2. phase \notin {"down", "booting", "saved"}
    BY <2>1 DEF LoopConsistent
  <2>3. ASSUME NEW k \in Collection, pending'[k] # <<>> PROVE k \in Range(todo')
    <3>1. k # c /\ pending[k] # <<>>
      BY <2>1, <2>3 DEF TypeOK
    <3> QED
      BY <2>1, <3>1, TailTodo DEF LoopConsistent, TypeOK
  <2> QED
    BY <2>1, <2>2, <2>3 DEF LoopConsistent
<1>10. CASE FinishCycle
  <2>1. Range(todo) = {}
    BY <1>10 DEF FinishCycle, Range
  <2>2. pending = NoPending
    BY <2>1 DEF LoopConsistent, NoPending, TypeOK
  <2> QED
    BY <1>10, <2>2 DEF FinishCycle, LoopConsistent, NoPending
<1>11. CASE StartPruner
  BY <1>11 DEF StartPruner, LoopConsistent, NoPending
<1>12. CASE Attach
  BY <1>12 DEF Attach, LoopConsistent, NoPending
<1>13. CASE BeginClose
  BY <1>13 DEF BeginClose, LoopConsistent, NoPending
<1>14. CASE LoopExit
  BY <1>14 DEF LoopExit, LoopConsistent, NoPending
<1>15. CASE SaveQueue
  BY <1>15 DEF SaveQueue, LoopConsistent, NoPending
<1>16. CASE Gone
  <2>1. \A c \in Collection : pending'[c] = <<>>
    BY <1>16 DEF Gone, NoPending
  <2> QED
    BY <1>16, <2>1 DEF Gone, Forget, LoopConsistent, NoPending
<1>17. CASE Exit \/ Crash
  BY <1>16, <1>17 DEF Exit, Crash
<1>19. CASE Restart
  BY <1>19 DEF Restart, LoopConsistent, NoPending
<1>20. CASE UNCHANGED vars
  BY <1>20 DEF vars, LoopConsistent, NoPending
<1> QED
  BY <1>1, <1>2, <1>3, <1>4, <1>5, <1>6, <1>7, <1>8, <1>10, <1>11, <1>12, <1>13,
     <1>14, <1>15, <1>17, <1>19, <1>20
     DEF Next, Listener, LoopStep, Lifecycle

-----------------------------------------------------------------------------
(* What the steps of the listener and of the loop do to the tracked        *)
(* documents.                                                              *)

\* A push adds the document to the queue exactly if its collection is tracked.
LEMMA PushFacts ==
  ASSUME TypeOK, NEW e \in Entry, Push(e)
  PROVE  /\ DocsIn(entries') = DocsIn(entries) \cup (IF Tracked(e.doc) THEN {e.doc} ELSE {})
         /\ docIDPrefix' = TRUE /\ file' = file
<1>1. docIDPrefix' = TRUE /\ file' = file
  BY DEF Push
<1>2. CASE Tracked(e.doc)
  BY <1>1, <1>2, DocsInAppend DEF Push, Tracked, TypeOK
<1>3. CASE ~Tracked(e.doc)
  BY <1>1, <1>3 DEF Push, Tracked
<1> QED
  BY <1>2, <1>3

\* A drain moves documents from the queue to the purge and drops no tracked one.
LEMMA DrainFacts ==
  ASSUME TypeOK, LoopConsistent, Drain
  PROVE  /\ DocsIn(entries') \subseteq DocsIn(entries)
         /\ PendingDocs' \subseteq DocsIn(entries)
         /\ \A d \in DocsIn(entries) : Tracked(d) => d \in DocsIn(entries') \cup PendingDocs'
         /\ entries # <<>> /\ PendingDocs = {} /\ phase \notin {"down", "booting", "saved"}
         /\ UNCHANGED <<docIDPrefix, file, store, bus, listening, phase, pushed, lost>>
<1> DEFINE n == Clamp(excess)
           s == Front(n)
<1>1. n \in 0..Len(entries) /\ entries \in Seq(Entry)
  BY ClampRange DEF TypeOK
<1>2. /\ s \in Seq(Entry) /\ entries' = SubSeq(entries, n + 1, Len(entries))
      /\ UNCHANGED <<docIDPrefix, file, store, bus, listening, phase, pushed, lost>>
      /\ pending' = [c \in Collection |-> Group(s, c)] /\ pc = "measured"
  BY <1>1, CutSeq DEF Drain, DrainDocs, Front
<1>3. DocsIn(entries) = DocsIn(s) \cup DocsIn(entries')
  BY <1>1, <1>2, DocsInCut DEF Front
<1>4. entries # <<>> /\ PendingDocs = {} /\ phase \notin {"down", "booting", "saved"}
  <2>1. Len(entries) # 0
    BY <1>1, <1>2, LenProperties, BoundsAssumption DEF LoopConsistent, TypeOK
  <2>2. pending = NoPending
    BY <1>2 DEF LoopConsistent
  <2> QED
    BY <1>2, <2>1, <2>2, DocsInEmpty, EmptySeq DEF LoopConsistent, PendingDocs, NoPending
<1> HIDE DEF n, s
<1>5. ASSUME NEW c \in Collection PROVE DocsIn(pending'[c]) \subseteq DocsIn(s)
  <2>1. pending'[c] = Group(s, c)
    BY <1>2
  <2>2. \A k \in DOMAIN Group(s, c) : \E i \in DOMAIN s : Group(s, c)[k] = s[i]
    BY <1>2, GroupFacts
  <2> QED
    BY <2>1, <2>2 DEF DocsIn
<1>6. ASSUME NEW d \in DocsIn(s), Tracked(d) PROVE d \in PendingDocs'
  <2>1. PICK i \in DOMAIN s : s[i].doc = d
    BY DEF DocsIn
  <2> DEFINE c == ColOf[d]
  <2>2. c \in Collection /\ pending'[c] = Group(s, c)
    BY <1>2, <1>6 DEF Tracked
  <2> HIDE DEF c
  <2>3. \A b \in Collection : \A j \in DOMAIN s : ColOf[s[j].doc] = b =>
           \E k \in DOMAIN Group(s, b) : Group(s, b)[k] = s[j]
    BY <1>2, GroupFacts
  <2>4. PICK k \in DOMAIN Group(s, c) : Group(s, c)[k] = s[i]
    BY <2>1, <2>2, <2>3 DEF c
  <2>5. d \in DocsIn(pending'[c])
    BY <2>1, <2>2, <2>4 DEF DocsIn
  <2> QED
    BY <2>2, <2>5 DEF PendingDocs
<1>7. PendingDocs' \subseteq DocsIn(s)
  BY <1>5 DEF PendingDocs
<1>8. \A d \in DocsIn(entries) : Tracked(d) => d \in DocsIn(entries') \cup PendingDocs'
  BY <1>3, <1>6
<1> QED
  BY <1>2, <1>3, <1>4, <1>7, <1>8

\* A purge, successful or not, takes its documents out of the pending ones.
LEMMA PurgeFacts ==
  ASSUME TypeOK, LoopConsistent, NEW c \in Collection, PurgeCollection(c) \/ PurgeFails(c)
  PROVE  /\ PendingDocs = PendingDocs' \cup DocsIn(pending[c])
         /\ pending # NoPending /\ phase \notin {"down", "booting", "saved"}
         /\ UNCHANGED <<bus, listening, phase, pushed, lost, file>>
<1>1. /\ pc = "purging" /\ pending[c] # <<>>
      /\ pending' = [pending EXCEPT ![c] = <<>>]
      /\ UNCHANGED <<bus, listening, phase, pushed, lost, file>>
  BY DEF PurgeCollection, PurgeFails, Requeue, queueVars
<1>2. pending # NoPending /\ phase \notin {"down", "booting", "saved"}
  BY <1>1 DEF LoopConsistent, NoPending
<1>3. /\ \A k \in Collection : k # c => pending'[k] = pending[k]
      /\ DocsIn(pending'[c]) = {}
  BY <1>1, DocsInEmpty DEF TypeOK
<1>4. PendingDocs' \subseteq PendingDocs
  BY <1>3 DEF PendingDocs
<1>5. PendingDocs \subseteq PendingDocs' \cup DocsIn(pending[c])
  BY <1>3 DEF PendingDocs
<1> QED
  BY <1>1, <1>2, <1>4, <1>5 DEF PendingDocs

\* Requeueing puts the documents of the failed purge back in the queue.
LEMMA RequeueFacts ==
  ASSUME TypeOK, NEW c \in Collection, PurgeFails(c)
  PROVE  /\ DocsIn(entries') = DocsIn(pending[c]) \cup DocsIn(entries)
         /\ docIDPrefix' = TRUE
BY DocsInConcat DEF PurgeFails, Requeue, TypeOK

\* Away from the loop's cycle nothing is pending.
LEMMA NothingPending ==
  ASSUME LoopConsistent, pc # "purging"
  PROVE  PendingDocs = {} /\ pending = NoPending
BY DocsInEmpty DEF LoopConsistent, PendingDocs, NoPending

\* The process's end empties the memory and keeps the store, the file and the history.
LEMMA GoneFacts ==
  ASSUME Gone
  PROVE  /\ entries' = <<>> /\ pending' = NoPending /\ phase' = "down"
         /\ DocsIn(entries') = {} /\ PendingDocs' = {} /\ BusDocs' = {}
         /\ UNCHANGED <<file, store, pushed>>
<1>1. /\ entries' = <<>> /\ pending' = NoPending /\ phase' = "down" /\ bus' = <<>>
      /\ UNCHANGED <<file, store, pushed>>
  BY DEF Gone, Forget
<1>2. PendingDocs' = {}
  BY <1>1, DocsInEmpty DEF PendingDocs, NoPending
<1> QED
  BY <1>1, <1>2, DocsInEmpty DEF BusDocs

-----------------------------------------------------------------------------
(* Whatever is queued, being purged or saved was announced by an event and *)
(* can be restored; what was never announced stays in the store.           *)

KnownInv == PrefixKnown /\ OnlyAnnounced /\ SnapshotKept

LEMMA KnownInit == Init => KnownInv
<1> SUFFICES ASSUME Init PROVE KnownInv
  OBVIOUS
<1>1. PendingDocs = {} /\ DocsIn(entries) = {} /\ FileDocs = {}
  BY DocsInEmpty DEF Init, InitQueue, NoFile, NoPending, PendingDocs, FileDocs
<1> QED
  BY <1>1 DEF Init, InitQueue, NoFile, KnownInv, PrefixKnown, OnlyAnnounced, SnapshotKept

LEMMA KnownStep == TypeOK /\ LoopConsistent /\ KnownInv /\ [Next]_vars => KnownInv'
<1> SUFFICES ASSUME TypeOK, LoopConsistent, KnownInv, [Next]_vars PROVE KnownInv'
  OBVIOUS
<1> USE DEF queueVars, loopVars
<1>u. ASSUME UNCHANGED <<queueVars, pending, pushed>>, Imported \ pushed \subseteq store'
      PROVE  KnownInv'
  BY <1>u DEF KnownInv, PrefixKnown, OnlyAnnounced, SnapshotKept, PendingDocs, FileDocs, NoPending
<1>s. Imported \ pushed \subseteq store
  BY DEF KnownInv, SnapshotKept
<1>1. ASSUME NEW d \in Doc, Replicate(d) PROVE KnownInv'
  BY <1>1, <1>u, <1>s DEF Replicate
<1>2. CASE Subscribe
  BY <1>2, <1>u, <1>s DEF Subscribe
<1>3. CASE HandleUpdate
  <2> DEFINE e == Head(bus)
  <2>1. e \in Entry
    BY <1>3, HeadTailProperties DEF HandleUpdate, TypeOK
  <2> HIDE DEF e
  <2>2. CASE phase \in {"up", "closing", "saved"} /\ ColOf[e.doc] \in KnownCollection
    <3>1. Push(e) /\ pushed' = pushed \cup {e.doc} /\ UNCHANGED <<store, pending>>
      BY <1>3, <2>2 DEF HandleUpdate, e
    <3>2. DocsIn(entries') \subseteq DocsIn(entries) \cup {e.doc}
          /\ docIDPrefix' = TRUE /\ file' = file
      BY <2>1, <3>1, PushFacts
    <3> QED
      BY <3>1, <3>2 DEF KnownInv, PrefixKnown, OnlyAnnounced, SnapshotKept, PendingDocs, FileDocs
  <2>3. CASE ~(phase \in {"up", "closing", "saved"} /\ ColOf[e.doc] \in KnownCollection)
    BY <1>3, <1>u, <1>s, <2>3 DEF HandleUpdate, e
  <2> QED
    BY <2>2, <2>3
<1>4. CASE ListenerExit
  BY <1>4, <1>u, <1>s DEF ListenerExit
<1>5. CASE Measure
  BY <1>5, <1>u, <1>s DEF Measure
<1>6. CASE Drain
  <2>1. docIDPrefix
    BY <1>6, DrainFacts DEF KnownInv, PrefixKnown
  <2>2. PrefixKnown'
    BY <1>6, <2>1, DrainFacts DEF KnownInv, PrefixKnown
  <2>3. OnlyAnnounced' /\ SnapshotKept'
    BY <1>6, DrainFacts DEF KnownInv, OnlyAnnounced, SnapshotKept, FileDocs
  <2> QED
    BY <2>2, <2>3 DEF KnownInv
<1>7. CASE SkipCollection
  BY <1>7, <1>u, <1>s DEF SkipCollection
<1>8. ASSUME NEW c \in Collection, PurgeCollection(c) PROVE KnownInv'
  <2>1. store' \in {store, store \ DocsIn(pending[c])} /\ UNCHANGED <<entries, docIDPrefix>>
    BY <1>8 DEF PurgeCollection
  <2>2. DocsIn(pending[c]) \subseteq pushed
    BY <1>8, PurgeFacts DEF KnownInv, OnlyAnnounced
  <2>3. PrefixKnown'
    BY <1>8, <2>1, PurgeFacts DEF KnownInv, PrefixKnown
  <2> QED
    BY <1>8, <2>1, <2>2, <2>3, PurgeFacts DEF KnownInv, OnlyAnnounced, SnapshotKept, FileDocs
<1>9. ASSUME NEW c \in Collection, PurgeFails(c) PROVE KnownInv'
  <2>1. store \ DocsIn(pending[c]) \subseteq store'
    BY <1>9 DEF PurgeFails
  <2>2. DocsIn(pending[c]) \subseteq pushed
    BY <1>9, PurgeFacts DEF KnownInv, OnlyAnnounced
  <2>3. PrefixKnown'
    BY <1>9, PurgeFacts, RequeueFacts DEF KnownInv, PrefixKnown
  <2> QED
    BY <1>9, <2>1, <2>2, <2>3, PurgeFacts, RequeueFacts
       DEF KnownInv, OnlyAnnounced, SnapshotKept, FileDocs
<1>10. CASE FinishCycle
  BY <1>10, <1>u, <1>s DEF FinishCycle
<1>11. CASE StartPruner
  <2>1. UNCHANGED <<file, pending, pushed, store>> /\ pc = "off"
    BY <1>11 DEF StartPruner, LoadFromFile, LoopConsistent
  <2>2. CASE LoadFromFile
    <3>1. pending = NoPending
      BY <2>1, NothingPending
    <3>2. entries' = file.entries /\ (file.prefix => docIDPrefix')
      BY <2>2 DEF LoadFromFile
    <3>3. PrefixKnown'
      BY <2>1, <3>1, <3>2 DEF KnownInv, PrefixKnown, NoPending
    <3> QED
      BY <2>1, <3>2, <3>3 DEF KnownInv, OnlyAnnounced, SnapshotKept, PendingDocs, FileDocs
  <2>3. CASE UNCHANGED queueVars
    BY <1>u, <1>s, <2>1, <2>3
  <2> QED
    BY <1>11, <2>2, <2>3 DEF StartPruner
<1>12. CASE Attach
  BY <1>12, <1>u, <1>s DEF Attach
<1>13. CASE BeginClose
  BY <1>13, <1>u, <1>s DEF BeginClose
<1>14. CASE LoopExit
  BY <1>14, <1>u, <1>s DEF LoopExit
<1>15. CASE SaveQueue
  <2>1. UNCHANGED <<pending, pushed, store>>
    BY <1>15 DEF SaveQueue
  <2>2. CASE Save
    <3>1. UNCHANGED <<entries, docIDPrefix>>
      BY <2>2 DEF Save
    <3>2. \/ entries = <<>> /\ file' = NoFile
          \/ entries # <<>> /\ file'.entries = entries /\ file'.prefix = docIDPrefix
      BY <2>2 DEF Save
    <3>3. FileDocs' \subseteq DocsIn(entries) /\ (file'.entries # <<>> => file'.prefix)
      BY <3>2, DocsInEmpty DEF NoFile, FileDocs, KnownInv, PrefixKnown
    <3> QED
      BY <2>1, <3>1, <3>3
         DEF KnownInv, PrefixKnown, OnlyAnnounced, SnapshotKept, PendingDocs, NoPending
  <2>3. CASE UNCHANGED queueVars
    BY <1>u, <1>s, <2>1, <2>3
  <2> QED
    BY <1>15, <2>2, <2>3 DEF SaveQueue
<1>16. CASE Gone
  BY <1>16, GoneFacts
     DEF KnownInv, PrefixKnown, OnlyAnnounced, SnapshotKept, FileDocs, NoPending
<1>17. CASE Exit \/ Crash
  BY <1>16, <1>17 DEF Exit, Crash
<1>19. CASE Restart
  BY <1>19, <1>u, <1>s DEF Restart
<1>20. CASE UNCHANGED vars
  BY <1>20, <1>u, <1>s DEF vars
<1> QED
  BY <1>1, <1>2, <1>3, <1>4, <1>5, <1>6, <1>7, <1>8, <1>9, <1>10, <1>11, <1>12, <1>13,
     <1>14, <1>15, <1>17, <1>19, <1>20
     DEF Next, Listener, LoopStep, Lifecycle

\* A document that came with a snapshot and was never announced is never deleted by the
\* pruner, whatever crashes, failed purges and unreadable queue files occur.
THEOREM SnapshotKeptCorrect == Spec => []SnapshotKept
<1>1. TypeOK /\ LoopConsistent /\ KnownInv /\ [Next]_vars
        => (TypeOK /\ LoopConsistent /\ KnownInv)'
  BY TypeStep, LoopInvStep, KnownStep
<1>2. Init => TypeOK /\ LoopConsistent /\ KnownInv
  BY TypeInit, LoopInit, KnownInit
<1>3. KnownInv => SnapshotKept
  BY DEF KnownInv
<1> QED
  BY <1>1, <1>2, <1>3, PTL DEF Spec

-----------------------------------------------------------------------------
(* No tracked document is forgotten but by a named loss.                   *)

LeakInv == SavedOrLost /\ NoLeak

LEMMA LeakInit == Init => LeakInv
BY DEF Init, LeakInv, SavedOrLost, NoLeak

LEMMA LeakStep ==
  TypeOK /\ LoopConsistent /\ PrefixKnown /\ LeakInv /\ [Next]_vars => LeakInv'
<1> SUFFICES ASSUME TypeOK, LoopConsistent, PrefixKnown, LeakInv, [Next]_vars
             PROVE  LeakInv'
  OBVIOUS
<1> USE DEF queueVars, loopVars
<1>u. ASSUME UNCHANGED <<queueVars, pending, store, bus, lost>>,
             phase' = phase \/ (phase' # "saved" /\ phase \notin {"down", "booting"}
                                /\ phase' \notin {"down", "booting"})
      PROVE  LeakInv'
  BY <1>u DEF LeakInv, SavedOrLost, NoLeak, Remembered, PendingDocs, FileDocs, BusDocs
<1>k. \A d \in store : Tracked(d) => d \in Imported \cup lost \cup BusDocs \cup Remembered
  BY DEF LeakInv, NoLeak
<1>1. ASSUME NEW d \in Doc, Replicate(d) PROVE LeakInv'
  <2> DEFINE e == [doc |-> d, at |-> arrivals]
  <2>1. /\ UNCHANGED <<queueVars, pending, phase>> /\ store' = store \cup {d}
        /\ \/ bus' = Append(bus, e) /\ lost' = lost
           \/ bus' = bus /\ lost' = lost \cup {d}
    BY <1>1 DEF Replicate
  <2>2. e \in Entry /\ e.doc = d
    BY DEF Entry, TypeOK
  <2> HIDE DEF e
  <2>3. DocsIn(Append(bus, e)) = BusDocs \cup {d}
    BY <2>2, DocsInAppend DEF TypeOK, BusDocs
  <2>4. BusDocs \cup lost \cup {d} = BusDocs' \cup lost'
    BY <2>1, <2>3 DEF BusDocs
  <2>5. Remembered' = Remembered /\ lost \subseteq lost'
    BY <2>1 DEF Remembered, PendingDocs, FileDocs
  <2>6. NoLeak'
    BY <1>k, <2>1, <2>4, <2>5 DEF NoLeak, Tracked
  <2>7. SavedOrLost'
    BY <2>1, <2>5 DEF LeakInv, SavedOrLost, FileDocs
  <2> QED
    BY <2>6, <2>7 DEF LeakInv
<1>2. CASE Subscribe
  BY <1>2, <1>u DEF Subscribe
<1>3. CASE HandleUpdate
  <2> DEFINE e == Head(bus)
  <2>1. /\ e \in Entry
        /\ BusDocs = {e.doc} \cup BusDocs'
        /\ UNCHANGED <<store, phase, pending>>
    BY <1>3, DocsInTail DEF HandleUpdate, TypeOK, BusDocs
  <2> HIDE DEF e
  <2>2. CASE phase \in {"up", "closing", "saved"} /\ ColOf[e.doc] \in KnownCollection
    <3>1. /\ Push(e)
          /\ lost' = IF phase = "saved" THEN lost \cup {e.doc} ELSE lost
      BY <1>3, <2>2 DEF HandleUpdate, e
    <3>2. /\ DocsIn(entries') = DocsIn(entries) \cup (IF Tracked(e.doc) THEN {e.doc} ELSE {})
          /\ file' = file
      BY <2>1, <3>1, PushFacts
    <3>3. Remembered' = Remembered \cup (IF Tracked(e.doc) THEN {e.doc} ELSE {})
      BY <2>1, <2>2, <3>2 DEF Remembered, PendingDocs
    <3>4. NoLeak'
      BY <1>k, <2>1, <3>1, <3>3 DEF NoLeak, Tracked
    <3>5. SavedOrLost'
      BY <2>1, <3>1, <3>2 DEF LeakInv, SavedOrLost, FileDocs
    <3> QED
      BY <3>4, <3>5 DEF LeakInv
  <2>3. CASE ~(phase \in {"up", "closing", "saved"} /\ ColOf[e.doc] \in KnownCollection)
    <3>1. UNCHANGED queueVars /\ lost' = lost \cup {e.doc}
      BY <1>3, <2>3 DEF HandleUpdate, e
    <3>2. Remembered' = Remembered
      BY <2>1, <3>1 DEF Remembered, PendingDocs, FileDocs
    <3>3. NoLeak'
      BY <1>k, <2>1, <3>1, <3>2 DEF NoLeak, Tracked
    <3>4. SavedOrLost'
      BY <2>1, <3>1 DEF LeakInv, SavedOrLost, FileDocs
    <3> QED
      BY <3>3, <3>4 DEF LeakInv
  <2> QED
    BY <2>2, <2>3
<1>4. CASE ListenerExit
  <2>1. /\ UNCHANGED <<queueVars, pending, phase, store>>
        /\ lost' = lost \cup BusDocs
    BY <1>4 DEF ListenerExit
  <2>2. Remembered' = Remembered
    BY <2>1 DEF Remembered, PendingDocs, FileDocs
  <2>3. NoLeak'
    BY <1>k, <2>1, <2>2 DEF NoLeak, Tracked
  <2> QED
    BY <2>1, <2>3 DEF LeakInv, SavedOrLost, FileDocs
<1>5. CASE Measure
  BY <1>5, <1>u DEF Measure
<1>6. CASE Drain
  <2>1. \A d \in Remembered : Tracked(d) => d \in Remembered'
    BY <1>6, DrainFacts DEF Remembered
  <2>2. NoLeak'
    BY <1>6, <1>k, <2>1, DrainFacts DEF NoLeak, Tracked, BusDocs
  <2> QED
    BY <1>6, <2>2, DrainFacts DEF LeakInv, SavedOrLost
<1>7. CASE SkipCollection
  BY <1>7, <1>u DEF SkipCollection
<1>8. ASSUME NEW c \in Collection, PurgeCollection(c) PROVE LeakInv'
  <2>1. pending # NoPending /\ phase' = phase /\ phase \notin {"down", "booting", "saved"}
        /\ PendingDocs = PendingDocs' \cup DocsIn(pending[c])
        /\ UNCHANGED <<bus, lost, file>>
    BY <1>8, PurgeFacts
  <2>2. docIDPrefix
    BY <2>1 DEF PrefixKnown
  <2>3. store' = store \ DocsIn(pending[c]) /\ entries' = entries
    BY <1>8, <2>2 DEF PurgeCollection
  <2>4. Remembered = Remembered' \cup DocsIn(pending[c])
    BY <2>1, <2>3 DEF Remembered
  <2>5. NoLeak'
    BY <1>k, <2>1, <2>3, <2>4 DEF NoLeak, Tracked, BusDocs
  <2> QED
    BY <2>1, <2>5 DEF LeakInv, SavedOrLost
<1>9. ASSUME NEW c \in Collection, PurgeFails(c) PROVE LeakInv'
  <2>1. phase' = phase /\ phase \notin {"down", "booting", "saved"}
        /\ PendingDocs = PendingDocs' \cup DocsIn(pending[c])
        /\ UNCHANGED <<bus, lost, file>>
    BY <1>9, PurgeFacts
  <2>2. DocsIn(entries') = DocsIn(pending[c]) \cup DocsIn(entries) /\ store' \subseteq store
    BY <1>9, RequeueFacts DEF PurgeFails
  <2>3. Remembered' = Remembered
    BY <2>1, <2>2 DEF Remembered
  <2>4. NoLeak'
    BY <1>k, <2>1, <2>2, <2>3 DEF NoLeak, Tracked, BusDocs
  <2> QED
    BY <2>1, <2>4 DEF LeakInv, SavedOrLost
<1>10. CASE FinishCycle
  BY <1>10, <1>u DEF FinishCycle
<1>11. CASE StartPruner
  <2>1. /\ UNCHANGED <<file, pending, store, bus>>
        /\ phase = "booting" /\ phase' = "loaded" /\ lost \subseteq lost'
    BY <1>11 DEF StartPruner, LoadFromFile
  <2>2. FileDocs \subseteq DocsIn(entries') \cup lost'
    BY <1>11 DEF StartPruner, LoadFromFile, FileDocs
  <2>3. Remembered \subseteq Remembered' \cup lost'
    BY <2>1, <2>2 DEF Remembered
  <2>4. NoLeak'
    BY <1>k, <2>1, <2>3 DEF NoLeak, Tracked, BusDocs
  <2> QED
    BY <2>1, <2>4 DEF LeakInv, SavedOrLost
<1>12. CASE Attach
  BY <1>12, <1>u DEF Attach
<1>13. CASE BeginClose
  BY <1>13, <1>u DEF BeginClose
<1>14. CASE LoopExit
  BY <1>14, <1>u DEF LoopExit
<1>15. CASE SaveQueue
  <2>1. /\ UNCHANGED <<entries, pending, store, bus>>
        /\ phase = "closing" /\ phase' = "saved" /\ lost \subseteq lost'
    BY <1>15 DEF SaveQueue, Save
  <2>2. DocsIn(entries) \subseteq FileDocs' \cup lost'
    <3>1. CASE Save
      <4>1. CASE entries = <<>>
        BY <4>1, DocsInEmpty
      <4>2. CASE entries # <<>>
        BY <3>1, <4>2 DEF Save, FileDocs
      <4> QED
        BY <4>1, <4>2
    <3>2. CASE lost' = lost \cup DocsIn(entries)
      BY <3>2
    <3> QED
      BY <1>15, <3>1, <3>2 DEF SaveQueue
  <2>3. Remembered' = Remembered
    BY <2>1 DEF Remembered, PendingDocs
  <2>4. NoLeak'
    BY <1>k, <2>1, <2>3 DEF NoLeak, Tracked, BusDocs
  <2> QED
    BY <2>1, <2>2, <2>4 DEF LeakInv, SavedOrLost
<1>17. CASE Exit
  <2>1. phase = "saved" /\ Gone /\ lost' = lost \cup BusDocs /\ pc = "off"
    BY <1>17 DEF Exit, LoopConsistent
  <2>2. PendingDocs = {}
    BY <2>1, NothingPending
  <2>3. Remembered \subseteq FileDocs \cup lost
    BY <2>1, <2>2 DEF Remembered, LeakInv, SavedOrLost
  <2>4. Remembered' = FileDocs /\ phase' = "down" /\ store' = store
    BY <2>1, GoneFacts DEF Remembered, FileDocs
  <2>5. NoLeak'
    BY <1>k, <2>1, <2>3, <2>4 DEF NoLeak, Tracked
  <2> QED
    BY <2>4, <2>5 DEF LeakInv, SavedOrLost
<1>18. CASE Crash
  <2>1. Gone /\ lost' = lost \cup ((DocsIn(entries) \cup PendingDocs \cup BusDocs) \ FileDocs)
    BY <1>18 DEF Crash
  <2>2. Remembered' = FileDocs /\ phase' = "down" /\ store' = store
    BY <2>1, GoneFacts DEF Remembered, FileDocs
  <2>3. Remembered \cup BusDocs \subseteq FileDocs \cup lost'
    BY <2>1 DEF Remembered
  <2>4. NoLeak'
    BY <1>k, <2>1, <2>2, <2>3 DEF NoLeak, Tracked
  <2> QED
    BY <2>2, <2>4 DEF LeakInv, SavedOrLost
<1>19. CASE Restart
  BY <1>19 DEF Restart, LeakInv, SavedOrLost, NoLeak, Remembered, FileDocs, BusDocs, Tracked
<1>20. CASE UNCHANGED vars
  BY <1>20, <1>u DEF vars
<1> QED
  BY <1>1, <1>2, <1>3, <1>4, <1>5, <1>6, <1>7, <1>8, <1>9, <1>10, <1>11, <1>12, <1>13,
     <1>14, <1>15, <1>17, <1>18, <1>19, <1>20
     DEF Next, Listener, LoopStep, Lifecycle

\* IInv, the conjunction of the invariants above, is inductive.
LEMMA IInvStep == IInv /\ [Next]_vars => IInv'
BY TypeStep, LoopInvStep, KnownStep, LeakStep DEF IInv, KnownInv, LeakInv

\* A tracked document in the store is always queued, being purged, announced on the
\* bus or in the queue file of a process that is down, unless it came with a snapshot
\* or one of the named losses happened: no interleaving of drains, failed purges,
\* shutdowns and restarts makes the pruner forget a document.
THEOREM NoLeakCorrect == Spec => []NoLeak
<1>1. Init => IInv
  BY TypeInit, LoopInit, KnownInit, LeakInit DEF IInv, KnownInv, LeakInv
<1>2. IInv => NoLeak
  BY DEF IInv
<1> QED
  BY <1>1, <1>2, IInvStep, PTL DEF Spec

-----------------------------------------------------------------------------
(* The retention floor and the cached block count.                         *)

LEMMA FloorStep ==
  TypeOK /\ LoopConsistent /\ Next
    => (phase' # "down" /\ Len(entries') < Len(entries) => Len(entries') >= MaxDocs)
<1> SUFFICES ASSUME TypeOK, LoopConsistent, Next, phase' # "down",
                    Len(entries') < Len(entries)
             PROVE  Len(entries') >= MaxDocs
  OBVIOUS
<1> USE DEF queueVars, loopVars
<1>0. entries \in Seq(Entry) /\ Len(entries) \in Nat /\ excess \in Nat /\ MaxDocs \in Nat
  BY LenProperties, BoundsAssumption DEF TypeOK
<1>n. entries' # entries
  BY <1>0
<1>3. CASE HandleUpdate
  <2> DEFINE e == Head(bus)
  <2>1. e \in Entry
    BY <1>3, HeadTailProperties DEF HandleUpdate, TypeOK
  <2>2. Len(Append(entries, e)) = Len(entries) + 1
    BY <2>1, <1>0, AppendProperties
  <2> HIDE DEF e
  <2>3. entries' \in {entries, Append(entries, e)}
    BY <1>3 DEF HandleUpdate, Push, e
  <2> QED
    BY <1>0, <2>2, <2>3
<1>6. CASE Drain
  <2> DEFINE n == Clamp(excess)
  <2>1. excess + MaxDocs <= Len(entries)
    BY <1>6 DEF Drain, LoopConsistent
  <2>2. n = excess /\ n \in 0..Len(entries)
    BY <1>0, <2>1 DEF Clamp
  <2> HIDE DEF n
  <2>3. entries' = SubSeq(entries, n + 1, Len(entries))
    BY <1>6 DEF Drain, DrainDocs, n
  <2>4. Len(entries') = Len(entries) - n
    BY <1>0, <2>2, <2>3, CutSeq
  <2> QED
    BY <1>0, <2>1, <2>2, <2>4
<1>9. ASSUME NEW c \in Collection, PurgeFails(c) PROVE FALSE
  <2>1. pending[c] \in Seq(Entry) /\ entries' = pending[c] \o entries
    BY <1>9 DEF PurgeFails, Requeue, TypeOK
  <2>2. Len(entries') = Len(pending[c]) + Len(entries) /\ Len(pending[c]) \in Nat
    BY <1>0, <2>1, ConcatProperties, LenProperties
  <2> QED
    BY <1>0, <2>2
<1>11. CASE StartPruner
  <2>1. Len(entries) = 0
    BY <1>11 DEF StartPruner, LoopConsistent
  <2>2. Len(entries') \in Nat
    BY <1>11, <1>0, LenProperties DEF StartPruner, LoadFromFile, TypeOK, Snapshot
  <2> QED
    BY <2>1, <2>2
<1>15. CASE SaveQueue
  BY <1>n, <1>15 DEF SaveQueue, Save
<1>16. CASE Exit \/ Crash
  BY <1>16 DEF Exit, Crash, Gone
<1>17. ASSUME NEW d \in Doc, Replicate(d) PROVE FALSE
  BY <1>n, <1>17 DEF Replicate
<1>18. ASSUME NEW c \in Collection, PurgeCollection(c) PROVE FALSE
  BY <1>n, <1>18 DEF PurgeCollection
<1>19. ~(Subscribe \/ ListenerExit \/ Measure \/ SkipCollection \/ FinishCycle
          \/ Attach \/ BeginClose \/ LoopExit \/ Restart)
  BY <1>n DEF Subscribe, ListenerExit, Measure, SkipCollection, FinishCycle, Attach,
              BeginClose, LoopExit, Restart
<1> QED
  BY <1>3, <1>6, <1>9, <1>11, <1>15, <1>16, <1>17, <1>18, <1>19
     DEF Next, Listener, LoopStep, Lifecycle

\* No step of a running host takes the queue below the configured number of documents:
\* the excess measured in one locked section is still an excess in the next.
THEOREM RetentionFloorCorrect == Spec => RetentionFloor
<1>1. TypeOK /\ LoopConsistent /\ [Next]_vars => (TypeOK /\ LoopConsistent)'
  BY TypeStep, LoopInvStep
<1>2. Init => TypeOK /\ LoopConsistent
  BY TypeInit, LoopInit
<1>3. TypeOK /\ LoopConsistent /\ [Next]_vars
        => [phase' # "down" /\ Len(entries') < Len(entries) => Len(entries') >= MaxDocs]_vars
  BY FloorStep
<1> QED
  BY <1>1, <1>2, <1>3, PTL DEF Spec, RetentionFloor

LEMMA BlocksInEmpty == BlocksIn(<<>>) = 0
<1>1. {i \in DOMAIN <<>> : IsBlock(<<>>[i])} = {}
  OBVIOUS
<1> QED
  BY <1>1, FS_EmptySet DEF BlocksIn

LEMMA CountInit == Init => BlockCountExact
BY BlocksInEmpty DEF Init, InitQueue, NoFile, BlockCountExact

LEMMA CountStep == TypeOK /\ BlockCountExact /\ [Next]_vars => BlockCountExact'
<1> SUFFICES ASSUME TypeOK, BlockCountExact, [Next]_vars PROVE BlockCountExact'
  OBVIOUS
<1> USE DEF queueVars, loopVars
<1>0. entries \in Seq(Entry) /\ BlocksIn(entries) \in Nat /\ blockCount = BlocksIn(entries)
  BY BlocksInType DEF TypeOK, BlockCountExact
<1>u. ASSUME UNCHANGED queueVars PROVE BlockCountExact'
  BY <1>u DEF BlockCountExact
<1>f. file' = file => file'.blockCount = BlocksIn(file'.entries)
  BY DEF BlockCountExact
<1>3. CASE HandleUpdate
  <2> DEFINE e == Head(bus)
  <2>1. e \in Entry
    BY <1>3, HeadTailProperties DEF HandleUpdate, TypeOK
  <2>2. BlocksIn(Append(entries, e)) = BlocksIn(entries) + (IF IsBlock(e) THEN 1 ELSE 0)
    <3>1. Append(entries, e) = entries \o <<e>> /\ <<e>> \in Seq(Entry)
      BY <1>0, <2>1, AppendIsConcat
    <3>2. BlocksIn(entries \o <<e>>) = BlocksIn(entries) + BlocksIn(<<e>>)
      BY <1>0, <3>1, BlocksInConcat
    <3> QED
      BY <2>1, <3>1, <3>2, BlocksInSingle
  <2> HIDE DEF e
  <2>3. \/ UNCHANGED queueVars
        \/ /\ file' = file
           /\ \/ entries' = entries /\ blockCount' = blockCount
              \/ /\ entries' = Append(entries, e)
                 /\ blockCount' = blockCount + (IF IsBlock(e) THEN 1 ELSE 0)
    BY <1>3 DEF HandleUpdate, Push, e
  <2> QED
    BY <1>0, <1>u, <1>f, <2>2, <2>3 DEF BlockCountExact
<1>6. CASE Drain
  <2> DEFINE n == Clamp(excess)
             s == Front(n)
             t == SubSeq(entries, n + 1, Len(entries))
  <2>1. n \in 0..Len(entries)
    BY ClampRange
  <2>2. s \in Seq(Entry) /\ t \in Seq(Entry) /\ entries = s \o t
    BY <1>0, <2>1, CutSeq DEF Front
  <2>3. entries' = t /\ blockCount' = blockCount - BlocksIn(s) /\ file' = file
    BY <1>6 DEF Drain, DrainDocs
  <2> HIDE DEF n, s, t
  <2>4. BlocksIn(entries) = BlocksIn(s) + BlocksIn(t)
    BY <2>2, BlocksInConcat
  <2>5. BlocksIn(s) \in Nat /\ BlocksIn(t) \in Nat
    BY <2>2, BlocksInType
  <2>6. blockCount' = BlocksIn(entries')
    BY <1>0, <2>3, <2>4, <2>5
  <2> QED
    BY <1>f, <2>3, <2>6 DEF BlockCountExact
<1>9. ASSUME NEW c \in Collection, PurgeFails(c) PROVE BlockCountExact'
  <2> DEFINE s == pending[c]
  <2>1. s \in Seq(Entry)
    BY DEF TypeOK
  <2>2. entries' = s \o entries /\ blockCount' = blockCount + BlocksIn(s) /\ file' = file
    BY <1>9 DEF PurgeFails, Requeue
  <2> HIDE DEF s
  <2>3. BlocksIn(s \o entries) = BlocksIn(s) + BlocksIn(entries)
    BY <1>0, <2>1, BlocksInConcat
  <2>4. BlocksIn(s) \in Nat
    BY <2>1, BlocksInType
  <2>5. blockCount' = BlocksIn(entries')
    BY <1>0, <2>2, <2>3, <2>4
  <2> QED
    BY <1>f, <2>2, <2>5 DEF BlockCountExact
<1>11. CASE StartPruner
  BY <1>11, <1>u DEF StartPruner, LoadFromFile, BlockCountExact
<1>15. CASE SaveQueue
  <2>1. CASE Save
    <3>1. CASE entries = <<>>
      BY <2>1, <3>1, BlocksInEmpty DEF Save, NoFile, BlockCountExact
    <3>2. CASE entries # <<>>
      BY <2>1, <3>2 DEF Save, BlockCountExact
    <3> QED
      BY <3>1, <3>2
  <2> QED
    BY <1>15, <1>u, <2>1 DEF SaveQueue
<1>16. CASE Exit \/ Crash
  <2>1. entries' = <<>> /\ blockCount' = 0 /\ file' = file
    BY <1>16 DEF Exit, Crash, Gone, Forget
  <2> QED
    BY <1>f, <2>1, BlocksInEmpty DEF BlockCountExact
<1>17. ASSUME NEW d \in Doc, Replicate(d) PROVE BlockCountExact'
  BY <1>u, <1>17 DEF Replicate
<1>18. ASSUME NEW c \in Collection, PurgeCollection(c) PROVE BlockCountExact'
  BY <1>u, <1>18 DEF PurgeCollection
<1>19. CASE Subscribe \/ ListenerExit \/ Measure \/ SkipCollection \/ FinishCycle
            \/ Attach \/ BeginClose \/ LoopExit \/ Restart \/ UNCHANGED vars
  BY <1>u, <1>19 DEF Subscribe, ListenerExit, Measure, SkipCollection, FinishCycle, Attach,
                     BeginClose, LoopExit, Restart, vars
<1> QED
  BY <1>3, <1>6, <1>9, <1>11, <1>15, <1>16, <1>17, <1>18, <1>19
     DEF Next, Listener, LoopStep, Lifecycle

\* The cached block count is the number of block entries, in memory and in the file.
THEOREM BlockCountCorrect == Spec => []BlockCountExact
<1>1. TypeOK /\ BlockCountExact /\ [Next]_vars => (TypeOK /\ BlockCountExact)'
  BY TypeStep, CountStep
<1>2. Init => TypeOK /\ BlockCountExact
  BY TypeInit, CountInit
<1> QED
  BY <1>1, <1>2, PTL DEF Spec

-----------------------------------------------------------------------------
(* The order of the queue.                                                 *)

\* The arrival numbers of a sequence of entries.
Ats(s) == {s[i].at : i \in DOMAIN s}
PendingAts == UNION {Ats(pending[c]) : c \in Collection}
FileAts == Ats(file.entries)

\* Entries that have been drained come before those that have not, and the latter are in
\* order behind everything.
Ordered(s) ==
  \A i, j \in DOMAIN s : i < j =>
     /\ s[j].at \notin drained => s[i].at <= s[j].at
     /\ s[j].at \in drained => s[i].at \in drained

\* The events on the bus are in order and newer than every entry in memory or in the file.
BusNewest ==
  /\ \A a \in Ats(entries) \cup FileAts \cup PendingAts \cup drained :
       a < arrivals /\ \A b \in Ats(bus) : a < b
  /\ \A b \in Ats(bus) : b < arrivals
  /\ \A i, j \in DOMAIN bus : i < j => bus[i].at < bus[j].at

\* A process that runs has loaded all that was not drained of the file, or nothing of it.
FileLinked ==
  phase \notin {"down", "booting"} =>
    FileAts \ drained \subseteq Ats(entries) \/ FileAts \cap Ats(entries) \subseteq drained

\* The strengthening of OldestFirst.
OrderInv ==
  /\ BusNewest /\ FileLinked
  /\ Ordered(entries) /\ Ordered(file.entries)
  /\ PendingAts \subseteq drained
  /\ \A a \in PendingAts : \A b \in Ats(entries) \ drained : a <= b

LEMMA AtsEmpty == Ats(<<>>) = {}
  BY DEF Ats

LEMMA AtsType ==
  ASSUME NEW s \in Seq(Entry)
  PROVE  /\ Ats(s) \subseteq Nat
         /\ \A i \in DOMAIN s : s[i].at \in Nat /\ s[i].at \in Ats(s)
         /\ DOMAIN s \subseteq Nat
<1>1. Len(s) \in Nat /\ DOMAIN s = 1..Len(s) /\ \A i \in DOMAIN s : s[i] \in Entry
  BY LenProperties, ElementOfSeq
<1> QED
  BY <1>1 DEF Ats, Entry

\* A concatenation holds what its parts hold, those of the first part in front.
LEMMA AtsConcat ==
  ASSUME NEW s \in Seq(Entry), NEW t \in Seq(Entry)
  PROVE  /\ Ats(s \o t) = Ats(s) \cup Ats(t)
         /\ Ordered(s \o t) <=>
              /\ Ordered(s) /\ Ordered(t)
              /\ \A i \in DOMAIN s, j \in DOMAIN t :
                   /\ t[j].at \notin drained => s[i].at <= t[j].at
                   /\ t[j].at \in drained => s[i].at \in drained
<1> DEFINE u == s \o t
           n == Len(s)
           P(x, y) == /\ y.at \notin drained => x.at <= y.at
                      /\ y.at \in drained => x.at \in drained
<1>1. /\ u \in Seq(Entry)
      /\ Len(u) = n + Len(t)
      /\ \A i \in 1..n + Len(t) : u[i] = IF i <= n THEN s[i] ELSE t[i - n]
  BY ConcatProperties
<1>2. /\ n \in Nat /\ DOMAIN s = 1..n
      /\ Len(t) \in Nat /\ DOMAIN t = 1..Len(t)
      /\ DOMAIN u = 1..n + Len(t)
  BY <1>1, LenProperties
<1> HIDE DEF u, n
<1>3. \A i \in DOMAIN s : i \in DOMAIN u /\ u[i] = s[i] /\ i <= n
  BY <1>1, <1>2
<1>4. \A j \in DOMAIN t : j + n \in DOMAIN u /\ u[j + n] = t[j] /\ n < j + n
  BY <1>1, <1>2
<1>5. ASSUME NEW k \in DOMAIN u
      PROVE  \/ k \in DOMAIN s /\ k <= n
             \/ k - n \in DOMAIN t /\ u[k] = t[k - n] /\ n < k
  BY <1>1, <1>2
<1>6. Ats(u) = Ats(s) \cup Ats(t)
  <2>1. Ats(s) \cup Ats(t) \subseteq Ats(u)
    BY <1>3, <1>4 DEF Ats
  <2>2. ASSUME NEW k \in DOMAIN u PROVE u[k].at \in Ats(s) \cup Ats(t)
    BY <1>3, <1>5 DEF Ats
  <2>3. Ats(u) \subseteq Ats(s) \cup Ats(t)
    BY <2>2 DEF Ats
  <2> QED
    BY <2>1, <2>3
<1> HIDE DEF P
<1>7. ASSUME \A i, j \in DOMAIN u : i < j => P(u[i], u[j])
      PROVE  /\ \A i, j \in DOMAIN s : i < j => P(s[i], s[j])
             /\ \A i, j \in DOMAIN t : i < j => P(t[i], t[j])
             /\ \A i \in DOMAIN s, j \in DOMAIN t : P(s[i], t[j])
  <2>1. \A i, j \in DOMAIN s : i < j => P(s[i], s[j])
    BY <1>3, <1>7
  <2>2. ASSUME NEW i \in DOMAIN t, NEW j \in DOMAIN t, i < j PROVE P(t[i], t[j])
    <3>1. i + n < j + n
      BY <1>2, <2>2
    <3> QED
      BY <1>4, <1>7, <3>1
  <2>3. ASSUME NEW i \in DOMAIN s, NEW j \in DOMAIN t PROVE P(s[i], t[j])
    <3>1. i < j + n
      BY <1>2
    <3> QED
      BY <1>3, <1>4, <1>7, <3>1
  <2> QED
    BY <2>1, <2>2, <2>3
<1>8. ASSUME \A i, j \in DOMAIN s : i < j => P(s[i], s[j]),
             \A i, j \in DOMAIN t : i < j => P(t[i], t[j]),
             \A i \in DOMAIN s, j \in DOMAIN t : P(s[i], t[j]),
             NEW i \in DOMAIN u, NEW j \in DOMAIN u, i < j
      PROVE  P(u[i], u[j])
  <2>1. CASE j \in DOMAIN s /\ j <= n
    <3>1. i \in DOMAIN s
      BY <1>2, <1>8, <2>1
    <3> QED
      BY <1>3, <1>8, <2>1, <3>1
  <2>2. CASE j - n \in DOMAIN t /\ u[j] = t[j - n] /\ n < j
    <3>1. CASE i \in DOMAIN s
      BY <1>3, <1>8, <2>2, <3>1
    <3>2. CASE i - n \in DOMAIN t /\ u[i] = t[i - n]
      <4>1. i - n < j - n
        BY <1>2, <1>8
      <4> QED
        BY <1>8, <2>2, <3>2, <4>1
    <3> QED
      BY <1>5, <3>1, <3>2
  <2> QED
    BY <1>5, <2>1, <2>2
<1>9. (\A i, j \in DOMAIN u : i < j => P(u[i], u[j])) <=>
        /\ \A i, j \in DOMAIN s : i < j => P(s[i], s[j])
        /\ \A i, j \in DOMAIN t : i < j => P(t[i], t[j])
        /\ \A i \in DOMAIN s, j \in DOMAIN t : P(s[i], t[j])
  BY <1>7, <1>8
<1> QED
  BY <1>6, <1>9 DEF Ordered, P, u

\* One entry at the back.
LEMMA AtsAppend ==
  ASSUME NEW s \in Seq(Entry), NEW e \in Entry
  PROVE  /\ Ats(Append(s, e)) = Ats(s) \cup {e.at}
         /\ Ordered(s) /\ e.at \notin drained /\ (\A a \in Ats(s) : a < e.at)
              => Ordered(Append(s, e))
<1>1. <<e>> \in Seq(Entry) /\ Append(s, e) = s \o <<e>>
  BY AppendIsConcat
<1>2. DOMAIN <<e>> = {1} /\ <<e>>[1] = e
  OBVIOUS
<1>3. Ats(<<e>>) = {e.at} /\ Ordered(<<e>>)
  BY <1>2 DEF Ats, Ordered
<1>4. ASSUME e.at \notin drained, \A a \in Ats(s) : a < e.at,
             NEW i \in DOMAIN s, NEW j \in DOMAIN <<e>>
      PROVE  <<e>>[j].at \notin drained /\ s[i].at <= <<e>>[j].at
  <2>1. s[i].at < e.at /\ s[i].at \in Nat /\ e.at \in Nat
    BY <1>4, AtsType DEF Entry
  <2> QED
    BY <1>2, <1>4, <2>1
<1> HIDE <1>2
<1> QED
  BY <1>1, <1>3, <1>4, AtsConcat

LEMMA AtsTail ==
  ASSUME NEW s \in Seq(Entry), s # <<>>
  PROVE  /\ Head(s) \in Entry /\ Tail(s) \in Seq(Entry)
         /\ Ats(s) = {Head(s).at} \cup Ats(Tail(s))
         /\ (\A i, j \in DOMAIN s : i < j => s[i].at < s[j].at) =>
              /\ \A b \in Ats(Tail(s)) : Head(s).at < b
              /\ \A i, j \in DOMAIN Tail(s) : i < j => Tail(s)[i].at < Tail(s)[j].at
<1>1. /\ Head(s) \in Entry /\ Tail(s) \in Seq(Entry) /\ Head(s) = s[1]
      /\ Len(Tail(s)) = Len(s) - 1
      /\ \A i \in 1..Len(Tail(s)) : Tail(s)[i] = s[i + 1]
  BY HeadTailProperties
<1>2. /\ Len(s) \in Nat /\ Len(s) # 0 /\ DOMAIN s = 1..Len(s)
      /\ DOMAIN Tail(s) = 1..(Len(s) - 1)
  BY <1>1, LenProperties, EmptySeq
<1>3. \A i \in DOMAIN Tail(s) : i + 1 \in DOMAIN s /\ 1 < i + 1 /\ Tail(s)[i] = s[i + 1]
  BY <1>1, <1>2
<1>4. \A k \in DOMAIN s : k = 1 \/ (k - 1 \in DOMAIN Tail(s) /\ Tail(s)[k - 1] = s[k])
  BY <1>1, <1>2
<1>5. 1 \in DOMAIN s
  BY <1>2
<1>6. Ats(s) = {Head(s).at} \cup Ats(Tail(s))
  <2>1. {Head(s).at} \cup Ats(Tail(s)) \subseteq Ats(s)
    BY <1>1, <1>3, <1>5 DEF Ats
  <2>2. ASSUME NEW k \in DOMAIN s PROVE s[k].at \in {Head(s).at} \cup Ats(Tail(s))
    BY <1>1, <1>4 DEF Ats
  <2>3. Ats(s) \subseteq {Head(s).at} \cup Ats(Tail(s))
    BY <2>2 DEF Ats
  <2> QED
    BY <2>1, <2>3
<1>7. ASSUME \A i, j \in DOMAIN s : i < j => s[i].at < s[j].at
      PROVE  /\ \A b \in Ats(Tail(s)) : Head(s).at < b
             /\ \A i, j \in DOMAIN Tail(s) : i < j => Tail(s)[i].at < Tail(s)[j].at
  <2>1. \A b \in Ats(Tail(s)) : Head(s).at < b
    BY <1>1, <1>3, <1>5, <1>7 DEF Ats
  <2>2. ASSUME NEW i \in DOMAIN Tail(s), NEW j \in DOMAIN Tail(s), i < j
        PROVE  Tail(s)[i].at < Tail(s)[j].at
    <3>1. i + 1 < j + 1
      BY <1>2, <2>2
    <3> QED
      BY <1>3, <1>7, <3>1
  <2> QED
    BY <2>1, <2>2
<1> QED
  BY <1>1, <1>6, <1>7

LEMMA OrderInit == Init => OrderInv
<1> SUFFICES ASSUME Init PROVE OrderInv
  OBVIOUS
<1>1. /\ Ats(entries) = {} /\ FileAts = {} /\ Ats(bus) = {} /\ drained = {}
      /\ bus = <<>> /\ entries = <<>> /\ file.entries = <<>>
  BY AtsEmpty DEF Init, InitQueue, NoFile, FileAts
<1>2. PendingAts = {}
  BY AtsEmpty DEF Init, PendingAts, NoPending
<1> QED
  BY <1>1, <1>2 DEF OrderInv, BusNewest, FileLinked, Ordered

\* The arrival numbers that there are, as naturals.
LEMMA AtsNat ==
  ASSUME TypeOK
  PROVE  /\ Ats(entries) \subseteq Nat /\ FileAts \subseteq Nat /\ PendingAts \subseteq Nat
         /\ Ats(bus) \subseteq Nat /\ drained \subseteq Nat /\ arrivals \in Nat
         /\ entries \in Seq(Entry) /\ file.entries \in Seq(Entry) /\ bus \in Seq(Entry)
<1>1. /\ entries \in Seq(Entry) /\ file.entries \in Seq(Entry) /\ bus \in Seq(Entry)
      /\ \A c \in Collection : pending[c] \in Seq(Entry)
      /\ drained \subseteq Nat /\ arrivals \in Nat
  BY DEF TypeOK, Snapshot
<1>2. \A c \in Collection : Ats(pending[c]) \subseteq Nat
  BY <1>1, AtsType
<1>3. Ats(entries) \subseteq Nat /\ FileAts \subseteq Nat /\ Ats(bus) \subseteq Nat
  BY <1>1, AtsType DEF FileAts
<1> QED
  BY <1>1, <1>2, <1>3 DEF PendingAts

\* A push puts an entry that is newer than everything at the back.
LEMMA OrderPush == TypeOK /\ OrderInv /\ HandleUpdate => OrderInv'
<1> SUFFICES ASSUME TypeOK, OrderInv, HandleUpdate PROVE OrderInv'
  OBVIOUS
<1> USE DEF queueVars, loopVars
<1> DEFINE e == Head(bus)
<1>1. /\ bus \in Seq(Entry) /\ bus # <<>> /\ bus' = Tail(bus)
      /\ UNCHANGED <<pending, drained, phase, arrivals, file>>
  BY DEF HandleUpdate, TypeOK, Push
<1>2. /\ e \in Entry /\ Ats(bus) = {e.at} \cup Ats(bus')
      /\ \A b \in Ats(bus') : e.at < b
      /\ \A i, j \in DOMAIN bus' : i < j => bus'[i].at < bus'[j].at
  BY <1>1, AtsTail DEF OrderInv, BusNewest
<1>3. entries' = entries \/ entries' = Append(entries, e)
  BY DEF HandleUpdate, Push
<1> HIDE DEF e
<1>4. /\ PendingAts' = PendingAts /\ FileAts' = FileAts
      /\ (Ordered(file.entries))' = Ordered(file.entries)
  BY <1>1 DEF PendingAts, FileAts, Ordered
<1>5. /\ \A a \in Ats(entries) \cup FileAts \cup PendingAts \cup drained :
           a < arrivals /\ a < e.at /\ \A b \in Ats(bus') : a < b
      /\ e.at < arrivals /\ \A b \in Ats(bus') : b < arrivals /\ e.at < b
  BY <1>2 DEF OrderInv, BusNewest
<1>6. CASE entries' = entries
  BY <1>1, <1>2, <1>4, <1>5, <1>6 DEF OrderInv, BusNewest, FileLinked, Ordered, FileAts
<1>7. CASE entries' = Append(entries, e)
  <2>1. e.at \in Nat /\ e.at \notin drained /\ e.at \notin FileAts
    BY <1>2, <1>5, AtsNat DEF Entry
  <2>2. Ats(entries') = Ats(entries) \cup {e.at} /\ (Ordered(entries))'
    <3>1. entries \in Seq(Entry) /\ \A a \in Ats(entries) : a < e.at
      BY <1>5, AtsNat
    <3>2. Ordered(entries)
      BY DEF OrderInv
    <3>3. Ats(Append(entries, e)) = Ats(entries) \cup {e.at} /\ Ordered(Append(entries, e))
      BY <1>2, <2>1, <3>1, <3>2, AtsAppend
    <3> QED
      BY <1>1, <1>7, <3>3 DEF Ordered
  <2>3. \A a \in Ats(entries') \cup FileAts' \cup PendingAts' \cup drained' :
          a < arrivals' /\ \A b \in Ats(bus') : a < b
    BY <1>1, <1>4, <1>5, <2>2
  <2>4. BusNewest'
    BY <1>1, <1>2, <1>5, <2>3 DEF BusNewest
  <2>5. FileLinked'
    BY <1>1, <1>4, <2>1, <2>2 DEF OrderInv, FileLinked
  <2>6. ASSUME NEW a \in PendingAts', NEW b \in Ats(entries') \ drained' PROVE a <= b
    <3>1. a \in PendingAts /\ a < e.at /\ a \in Nat
      BY <1>4, <1>5, AtsNat
    <3>2. CASE b = e.at
      BY <2>1, <3>1, <3>2
    <3>3. CASE b \in Ats(entries) \ drained
      BY <3>1, <3>3 DEF OrderInv
    <3> QED
      BY <1>1, <2>2, <3>2, <3>3
  <2>7. PendingAts' \subseteq drained'
    BY <1>1, <1>4 DEF OrderInv
  <2> QED
    BY <1>4, <2>2, <2>4, <2>5, <2>6, <2>7 DEF OrderInv
<1> QED
  BY <1>3, <1>6, <1>7

\* A drain takes a front of the queue, older than all it leaves that was never drained.
LEMMA OrderDrain == TypeOK /\ LoopConsistent /\ OrderInv /\ Drain => OrderInv'
<1> SUFFICES ASSUME TypeOK, LoopConsistent, OrderInv, Drain PROVE OrderInv'
  OBVIOUS
<1> USE DEF queueVars, loopVars
<1> DEFINE n == Clamp(excess)
           s == Front(n)
           t == SubSeq(entries, n + 1, Len(entries))
<1>1. n \in 0..Len(entries) /\ entries \in Seq(Entry)
  BY ClampRange DEF TypeOK
<1>2. s \in Seq(Entry) /\ t \in Seq(Entry) /\ entries = s \o t
  BY <1>1, CutSeq DEF Front
<1>3. /\ entries' = t /\ drained' = drained \cup Ats(s)
      /\ pending' = [c \in Collection |-> Group(s, c)]
      /\ UNCHANGED <<file, bus, phase, arrivals>>
  BY DEF Drain, DrainDocs, Ats
<1> HIDE DEF n, s, t
<1>4. Ats(entries) = Ats(s) \cup Ats(t)
  BY <1>2, AtsConcat
<1>5. /\ Ordered(s) /\ Ordered(t)
      /\ \A i \in DOMAIN s, j \in DOMAIN t :
           /\ t[j].at \notin drained => s[i].at <= t[j].at
           /\ t[j].at \in drained => s[i].at \in drained
  <2>1. Ordered(s \o t)
    BY <1>2 DEF OrderInv
  <2> QED
    BY <1>2, <2>1, AtsConcat
<1>6. \A a \in Ats(s), b \in Ats(t) \ drained : a <= b
  BY <1>5 DEF Ats
<1>7. PendingAts' \subseteq Ats(s)
  <2>1. ASSUME NEW c \in Collection PROVE Ats(pending'[c]) \subseteq Ats(s)
    <3>1. pending'[c] = Group(s, c)
      BY <1>3
    <3>2. \A k \in DOMAIN Group(s, c) : \E i \in DOMAIN s : Group(s, c)[k] = s[i]
      BY <1>2, GroupFacts
    <3> QED
      BY <3>1, <3>2 DEF Ats
  <2> QED
    BY <2>1 DEF PendingAts
<1>8. FileAts' = FileAts /\ Ats(bus') = Ats(bus)
  BY <1>3 DEF FileAts
<1>9. BusNewest'
  <2>1. Ats(entries') \cup FileAts' \cup PendingAts' \cup drained'
          \subseteq Ats(entries) \cup FileAts \cup drained
    BY <1>3, <1>4, <1>7, <1>8
  <2> QED
    BY <1>3, <1>8, <2>1 DEF OrderInv, BusNewest
<1>10. FileLinked'
  BY <1>3, <1>4, <1>8 DEF OrderInv, FileLinked
<1>11. /\ PendingAts' \subseteq drained'
       /\ \A a \in PendingAts' : \A b \in Ats(entries') \ drained' : a <= b
  BY <1>3, <1>6, <1>7
<1>12. (Ordered(entries))'
  <2> SUFFICES ASSUME NEW i \in DOMAIN t, NEW j \in DOMAIN t, i < j
               PROVE  /\ t[j].at \notin drained' => t[i].at <= t[j].at
                      /\ t[j].at \in drained' => t[i].at \in drained'
    BY <1>3 DEF Ordered
  <2>1. /\ t[j].at \notin drained => t[i].at <= t[j].at
        /\ t[j].at \in drained => t[i].at \in drained
        /\ t[i].at \in Nat /\ t[j].at \in Nat
    BY <1>2, <1>5, AtsType DEF Ordered
  <2>2. CASE t[j].at \in Ats(s) /\ t[j].at \notin drained /\ t[i].at \notin drained
    <3>1. t[i].at <= t[j].at /\ t[j].at <= t[i].at
      BY <1>2, <1>6, <2>1, <2>2, AtsType
    <3>2. t[i].at = t[j].at
      BY <2>1, <3>1
    <3> QED
      BY <1>3, <2>2, <3>2
  <2> QED
    BY <1>3, <2>1, <2>2
<1>13. (Ordered(file.entries))'
  <2> DEFINE f == file.entries
  <2> SUFFICES ASSUME NEW i \in DOMAIN f, NEW j \in DOMAIN f, i < j
               PROVE  /\ f[j].at \notin drained' => f[i].at <= f[j].at
                      /\ f[j].at \in drained' => f[i].at \in drained'
    BY <1>3 DEF Ordered
  <2>1. /\ f[j].at \notin drained => f[i].at <= f[j].at
        /\ f[j].at \in drained => f[i].at \in drained
        /\ f[i].at \in Nat /\ f[j].at \in Nat /\ f[i].at \in FileAts /\ f[j].at \in FileAts
    BY AtsNat, AtsType DEF OrderInv, Ordered, FileAts
  <2> HIDE DEF f
  <2>2. CASE f[j].at \in Ats(s) /\ f[j].at \notin drained /\ f[i].at \notin drained
    <3>0. phase \notin {"down", "booting"}
      BY DEF Drain, LoopConsistent
    <3>1. f[j].at \in FileAts \cap Ats(entries) /\ f[j].at \notin drained
      BY <1>4, <2>1, <2>2
    <3>2. f[i].at \in Ats(entries)
      BY <2>1, <2>2, <3>0, <3>1 DEF OrderInv, FileLinked
    <3>3. CASE f[i].at \in Ats(s)
      BY <1>3, <2>2, <3>3
    <3>4. CASE f[i].at \in Ats(t)
      <4>1. f[j].at <= f[i].at /\ f[i].at <= f[j].at
        BY <1>6, <2>1, <2>2, <3>4
      <4>2. f[i].at = f[j].at
        BY <2>1, <4>1
      <4> QED
        BY <1>3, <2>2, <4>2
    <3> QED
      BY <1>4, <2>1, <3>2, <3>3, <3>4, <2>2, <1>3
  <2> QED
    BY <1>3, <2>1, <2>2
<1> QED
  BY <1>9, <1>10, <1>11, <1>12, <1>13 DEF OrderInv

\* A failed purge puts entries back that were drained before all that are still queued.
LEMMA OrderRequeue ==
  ASSUME TypeOK, LoopConsistent, OrderInv, NEW c \in Collection, PurgeFails(c)
  PROVE  OrderInv'
<1> USE DEF queueVars, loopVars
<1> DEFINE s == pending[c]
<1>1. /\ s \in Seq(Entry) /\ entries' = s \o entries /\ entries \in Seq(Entry)
      /\ pending' = [pending EXCEPT ![c] = <<>>]
      /\ UNCHANGED <<file, bus, phase, arrivals, drained>>
  BY DEF PurgeFails, Requeue, TypeOK
<1>2. PendingAts' \subseteq PendingAts /\ Ats(s) \subseteq PendingAts
  BY <1>1, AtsEmpty DEF PendingAts, TypeOK
<1> HIDE DEF s
<1>3. Ats(s) \subseteq drained /\ \A a \in Ats(s) : \A b \in Ats(entries) \ drained : a <= b
  BY <1>2 DEF OrderInv
<1>4. Ats(entries') = Ats(s) \cup Ats(entries)
  BY <1>1, AtsConcat
<1>5. (Ordered(entries))'
  <2>1. Ordered(s)
    BY <1>3 DEF Ordered, Ats
  <2>2. \A i \in DOMAIN s, j \in DOMAIN entries :
          /\ entries[j].at \notin drained => s[i].at <= entries[j].at
          /\ entries[j].at \in drained => s[i].at \in drained
    BY <1>3 DEF Ats
  <2>3. Ordered(entries)
    BY DEF OrderInv
  <2>4. Ordered(s \o entries)
    BY <1>1, <2>1, <2>2, <2>3, AtsConcat
  <2> QED
    BY <1>1, <2>4 DEF Ordered
<1>6. FileAts' = FileAts /\ Ats(bus') = Ats(bus)
  BY <1>1 DEF FileAts
<1>7. BusNewest'
  <2>1. Ats(entries') \cup FileAts' \cup PendingAts' \cup drained'
          \subseteq Ats(entries) \cup FileAts \cup PendingAts \cup drained
    BY <1>1, <1>2, <1>4, <1>6
  <2> QED
    BY <1>1, <1>6, <2>1 DEF OrderInv, BusNewest
<1>8. FileLinked'
  BY <1>1, <1>3, <1>4, <1>6 DEF OrderInv, FileLinked
<1>9. /\ PendingAts' \subseteq drained'
      /\ \A a \in PendingAts' : \A b \in Ats(entries') \ drained' : a <= b
  BY <1>1, <1>2, <1>3, <1>4 DEF OrderInv
<1>10. (Ordered(file.entries))'
  BY <1>1 DEF OrderInv, Ordered
<1> QED
  BY <1>5, <1>7, <1>8, <1>9, <1>10 DEF OrderInv

LEMMA OrderStep == TypeOK /\ LoopConsistent /\ OrderInv /\ [Next]_vars => OrderInv'
<1> SUFFICES ASSUME TypeOK, LoopConsistent, OrderInv, [Next]_vars PROVE OrderInv'
  OBVIOUS
<1> USE DEF queueVars, loopVars
\* Most steps leave the queue alone, or take the bus, the pending entries or the phase away.
<1>u. ASSUME UNCHANGED <<entries, file, drained, arrivals, pending>>, bus' = bus \/ bus' = <<>>,
             phase' = phase \/ phase' \in {"down", "booting"}
                \/ phase \notin {"down", "booting"}
      PROVE  OrderInv'
  <2>1. /\ Ats(entries') = Ats(entries) /\ FileAts' = FileAts /\ PendingAts' = PendingAts
        /\ Ats(bus') \subseteq Ats(bus)
        /\ (Ordered(entries))' = Ordered(entries)
        /\ (Ordered(file.entries))' = Ordered(file.entries)
    BY <1>u, AtsEmpty DEF FileAts, PendingAts, Ordered
  <2>2. BusNewest'
    BY <1>u, <2>1 DEF OrderInv, BusNewest
  <2>3. FileLinked'
    BY <1>u, <2>1 DEF OrderInv, FileLinked
  <2> QED
    BY <1>u, <2>1, <2>2, <2>3 DEF OrderInv
<1>1. ASSUME NEW d \in Doc, Replicate(d) PROVE OrderInv'
  <2> DEFINE e == [doc |-> d, at |-> arrivals]
  <2>1. /\ UNCHANGED <<entries, file, drained, pending, phase>>
        /\ bus' = bus \/ bus' = Append(bus, e)
        /\ arrivals' = arrivals + 1 /\ e \in Entry /\ e.at = arrivals
    BY <1>1, AtsNat DEF Replicate, Entry
  <2> HIDE DEF e
  <2>2. /\ Ats(entries') = Ats(entries) /\ FileAts' = FileAts /\ PendingAts' = PendingAts
        /\ (Ordered(entries))' = Ordered(entries)
        /\ (Ordered(file.entries))' = Ordered(file.entries)
    BY <2>1 DEF FileAts, PendingAts, Ordered
  <2>3. /\ Ats(bus') \subseteq Ats(bus) \cup {arrivals}
        /\ \A i, j \in DOMAIN bus' : i < j => bus'[i].at < bus'[j].at
    <3>1. CASE bus' = bus
      BY <3>1 DEF OrderInv, BusNewest
    <3>2. CASE bus' = Append(bus, e)
      <4>1. Ats(bus') = Ats(bus) \cup {arrivals}
        BY <2>1, <3>2, AtsNat, AtsAppend
      <4>2. /\ bus \in Seq(Entry) /\ Len(bus) \in Nat /\ DOMAIN bus = 1..Len(bus)
            /\ DOMAIN bus' = 1..Len(bus) + 1
            /\ \A i \in 1..Len(bus) : bus'[i] = bus[i]
            /\ bus'[Len(bus) + 1] = e
        BY <2>1, <3>2, AtsNat, AppendProperties, LenProperties
      <4>3. \A i \in DOMAIN bus : bus[i].at < arrivals
        BY <4>2, AtsType DEF OrderInv, BusNewest
      <4>4. ASSUME NEW i \in DOMAIN bus', NEW j \in DOMAIN bus', i < j
            PROVE  bus'[i].at < bus'[j].at
        <5>1. i \in DOMAIN bus /\ bus'[i] = bus[i]
          BY <4>2, <4>4
        <5>2. CASE j = Len(bus) + 1
          BY <2>1, <4>2, <4>3, <5>1, <5>2
        <5>3. CASE j # Len(bus) + 1
          <6>1. j \in DOMAIN bus /\ bus'[j] = bus[j]
            BY <4>2, <5>3
          <6> QED
            BY <4>4, <5>1, <6>1 DEF OrderInv, BusNewest
        <5> QED
          BY <5>2, <5>3
      <4> QED
        BY <4>1, <4>4
    <3> QED
      BY <2>1, <3>1, <3>2
  <2>4. BusNewest'
    <3>1. ASSUME NEW a \in Ats(entries) \cup FileAts \cup PendingAts \cup drained
          PROVE  a < arrivals + 1 /\ \A b \in Ats(bus') : a < b
      BY <2>3, AtsNat DEF OrderInv, BusNewest
    <3>2. \A b \in Ats(bus') : b < arrivals + 1
      BY <2>3, AtsNat DEF OrderInv, BusNewest
    <3> QED
      BY <2>1, <2>2, <2>3, <3>1, <3>2 DEF BusNewest
  <2>5. FileLinked'
    BY <2>1, <2>2 DEF OrderInv, FileLinked
  <2> QED
    BY <2>1, <2>2, <2>4, <2>5 DEF OrderInv
<1>2. CASE HandleUpdate
  BY <1>2, OrderPush
<1>3. CASE Drain
  BY <1>3, OrderDrain
<1>4. ASSUME NEW c \in Collection, PurgeFails(c) PROVE OrderInv'
  BY <1>4, OrderRequeue
<1>5. ASSUME NEW c \in Collection, PurgeCollection(c) PROVE OrderInv'
  <2>1. /\ UNCHANGED <<entries, file, bus, phase, arrivals, drained>>
        /\ pending' = [pending EXCEPT ![c] = <<>>]
    BY <1>5 DEF PurgeCollection
  <2>2. PendingAts' \subseteq PendingAts
    BY <2>1, AtsEmpty DEF PendingAts, TypeOK
  <2>3. /\ Ats(entries') = Ats(entries) /\ FileAts' = FileAts /\ Ats(bus') = Ats(bus)
        /\ (Ordered(entries))' = Ordered(entries)
        /\ (Ordered(file.entries))' = Ordered(file.entries)
    BY <2>1 DEF FileAts, Ordered
  <2>4. BusNewest' /\ FileLinked'
    BY <2>1, <2>2, <2>3 DEF OrderInv, BusNewest, FileLinked
  <2> QED
    BY <2>1, <2>2, <2>3, <2>4 DEF OrderInv
<1>6. CASE StartPruner
  <2>0. entries = <<>>
    BY <1>6 DEF StartPruner, LoopConsistent
  <2>1. /\ entries' = file.entries \/ entries' = <<>>
        /\ UNCHANGED <<file, bus, arrivals, drained, pending>>
    BY <1>6, <2>0 DEF StartPruner, LoadFromFile
  <2>2. PendingAts = {}
    <3>1. pc # "purging"
      BY <1>6 DEF StartPruner, LoopConsistent
    <3> QED
      BY <3>1, AtsEmpty DEF LoopConsistent, PendingAts, NoPending
  <2>3. /\ FileAts' = FileAts /\ PendingAts' = {} /\ Ats(bus') = Ats(bus)
        /\ (Ordered(file.entries))' = Ordered(file.entries)
    BY <2>1, <2>2 DEF FileAts, Ordered, PendingAts
  <2>4. /\ Ats(entries') = FileAts \/ Ats(entries') = {}
        /\ (Ordered(entries))'
    BY <2>1, AtsEmpty DEF FileAts, Ordered, OrderInv
  <2>5. BusNewest' /\ FileLinked'
    BY <2>1, <2>3, <2>4 DEF OrderInv, BusNewest, FileLinked
  <2> QED
    BY <2>3, <2>4, <2>5 DEF OrderInv
<1>7. CASE SaveQueue
  <2>1. CASE Save
    <3>1. /\ UNCHANGED <<entries, bus, arrivals, drained, pending>>
          /\ file'.entries = entries
      BY <1>7, <2>1 DEF SaveQueue, Save, NoFile
    <3>2. /\ FileAts' = Ats(entries) /\ PendingAts' = PendingAts /\ Ats(bus') = Ats(bus)
          /\ (Ordered(file.entries))' = Ordered(entries)
          /\ (Ordered(entries))' = Ordered(entries)
      BY <3>1 DEF FileAts, Ordered, PendingAts
    <3>3. BusNewest' /\ FileLinked'
      BY <3>1, <3>2 DEF OrderInv, BusNewest, FileLinked
    <3> QED
      BY <3>1, <3>2, <3>3 DEF OrderInv
  <2>2. CASE UNCHANGED queueVars
    BY <1>7, <1>u, <2>2 DEF SaveQueue
  <2> QED
    BY <1>7, <2>1, <2>2 DEF SaveQueue
<1>8. CASE Exit \/ Crash
  <2>1. /\ entries' = <<>> /\ bus' = <<>> /\ pending' = NoPending /\ phase' = "down"
        /\ UNCHANGED <<file, arrivals, drained>>
    BY <1>8 DEF Exit, Crash, Gone, Forget
  <2>2. /\ Ats(entries') = {} /\ FileAts' = FileAts /\ PendingAts' = {} /\ Ats(bus') = {}
        /\ (Ordered(entries))' /\ (Ordered(file.entries))' = Ordered(file.entries)
    BY <2>1, AtsEmpty DEF FileAts, PendingAts, Ordered, NoPending
  <2>3. BusNewest' /\ FileLinked'
    BY <2>1, <2>2 DEF OrderInv, BusNewest, FileLinked
  <2> QED
    BY <2>2, <2>3 DEF OrderInv
<1>9. CASE Subscribe \/ ListenerExit \/ Measure \/ SkipCollection \/ FinishCycle
  BY <1>9, <1>u DEF Subscribe, ListenerExit, Measure, SkipCollection, FinishCycle
<1>10. CASE Attach \/ BeginClose \/ LoopExit \/ Restart \/ UNCHANGED vars
  BY <1>10, <1>u DEF Attach, BeginClose, LoopExit, Restart, vars
<1> QED
  BY <1>1, <1>2, <1>3, <1>4, <1>5, <1>6, <1>7, <1>8, <1>9, <1>10
     DEF Next, Listener, LoopStep, Lifecycle

\* Requeue's "they are the oldest entries": nothing that was never drained has anything
\* newer ahead of it, in the queue or in the purge, through failed purges, saves, crashes
\* and reloads of a file that is older than what was drained since.
THEOREM OldestFirstCorrect == Spec => []OldestFirst
<1> DEFINE I == TypeOK /\ LoopConsistent /\ OrderInv
<1>1. Init => I
  BY TypeInit, LoopInit, OrderInit
<1>2. I /\ [Next]_vars => I'
  BY TypeStep, LoopInvStep, OrderStep
<1>3. I => OldestFirst
  <2> SUFFICES ASSUME I PROVE OldestFirst
    OBVIOUS
  <2>1. entries \in Seq(Entry) /\ \A c \in Collection : pending[c] \in Seq(Entry)
    BY DEF TypeOK
  <2>2. \A i \in DOMAIN entries : entries[i].at \in Nat /\ entries[i].at \in Ats(entries)
    BY <2>1, AtsType
  <2>3. \A c \in Collection : \A k \in DOMAIN pending[c] :
          pending[c][k].at \in Nat /\ pending[c][k].at \in PendingAts
    BY <2>1, AtsType DEF PendingAts
  <2>4. \A i, j \in DOMAIN entries :
          i < j /\ entries[i].at > entries[j].at => entries[j].at \in drained
    BY <2>2 DEF OrderInv, Ordered
  <2>5. \A i, j \in DOMAIN entries :
          i < j /\ entries[j].at \in drained => entries[i].at \in drained
    BY DEF OrderInv, Ordered
  <2>6. ASSUME NEW c \in Collection, NEW k \in DOMAIN pending[c], NEW j \in DOMAIN entries,
               entries[j].at < pending[c][k].at, entries[j].at \notin drained
        PROVE  FALSE
    <3>1. pending[c][k].at <= entries[j].at
      BY <2>2, <2>3, <2>6 DEF OrderInv
    <3> QED
      BY <2>2, <2>3, <2>6, <3>1
  <2> QED
    BY <2>4, <2>5, <2>6 DEF OldestFirst
<1> QED
  BY <1>1, <1>2, <1>3, PTL DEF Spec

-----------------------------------------------------------------------------
(* The pruner without an event queue, behind the replication filter.       *)

LEMMA NumberFacts ==
  ASSUME NEW d \in Document
  PROVE  /\ d.num \in Nat \cup {None} /\ NumberOf(d) \in Nat
         /\ NumberOf(d) > 0 => d.num = NumberOf(d)
         /\ d.num <= NumberOf(d) /\ d.num \in Int
BY StoreAssumption DEF NumberOf, None

\* A non-empty set of documents has one with the highest number: the one with the fewest
\* documents above it.
LEMMA HighestExists ==
  ASSUME NEW B \in SUBSET Document, B # {}
  PROVE  \E x \in B : \A y \in B : NumberOf(y) <= NumberOf(x)
<1> DEFINE Above(x) == {y \in B : NumberOf(y) > NumberOf(x)}
           T == {Cardinality(Above(x)) : x \in B}
<1>1. IsFiniteSet(B)
  BY StoreAssumption, FS_Subset
<1>2. \A x \in B : IsFiniteSet(Above(x)) /\ Cardinality(Above(x)) \in Nat
  BY <1>1, FS_Subset, FS_CardinalityType
<1>3. T \in SUBSET Nat /\ T # {}
  BY <1>2
<1>4. PICK c \in T : \A n \in T : c <= n
  BY <1>3, LeastNatural
<1>5. PICK x \in B : c = Cardinality(Above(x))
  BY <1>4
<1>6. ASSUME NEW y \in B, NumberOf(y) > NumberOf(x) PROVE FALSE
  <2>1. NumberOf(x) \in Nat /\ NumberOf(y) \in Nat
    BY NumberFacts
  <2>2. Above(y) \subseteq Above(x) /\ y \in Above(x) /\ y \notin Above(y)
    <3>1. ASSUME NEW z \in B, NumberOf(z) > NumberOf(y) PROVE NumberOf(z) > NumberOf(x)
      BY <1>6, <2>1, <3>1, NumberFacts
    <3> QED
      BY <1>6, <2>1, <3>1
  <2> HIDE DEF Above
  <2>3. Cardinality(Above(y)) <= Cardinality(Above(x)) /\ Cardinality(Above(y)) # Cardinality(Above(x))
    BY <1>2, <2>2, FS_Subset
  <2>4. Cardinality(Above(x)) <= Cardinality(Above(y))
    BY <1>4, <1>5
  <2> QED
    BY <1>2, <2>3, <2>4
<1>7. \A y \in B : NumberOf(y) <= NumberOf(x)
  BY <1>6, NumberFacts
<1> QED
  BY <1>7

\* What the two queries for a block number answer.
LEMMA BlockRange ==
  ASSUME docs \subseteq Document
  PROVE  /\ LowestBlock \in Nat /\ HighestBlock \in Nat
         /\ HighestBlock # 0 => \E b \in docs : b.col = "block" /\ NumberOf(b) = HighestBlock
<1> DEFINE B == In("block")
           N == Numbers(B)
<1>1. B \in SUBSET Document /\ B = {d \in docs : d.col = "block"}
  BY DEF In
<1>2. CASE B = {}
  BY <1>2 DEF LowestBlock, HighestBlock
<1>3. CASE B # {}
  <2>1. N \in SUBSET Nat /\ N # {} /\ \A n \in N : \E b \in B : n = NumberOf(b)
    BY <1>1, <1>3, NumberFacts DEF Numbers
  <2>2. \E n \in N : \A m \in N : n <= m
    BY <2>1, LeastNatural
  <2>3. LowestBlock = CHOOSE n \in N : \A m \in N : n <= m
    BY <1>3 DEF LowestBlock
  <2>4. PICK x \in B : \A y \in B : NumberOf(y) <= NumberOf(x)
    BY <1>1, <1>3, HighestExists
  <2>5. NumberOf(x) \in N /\ \A m \in N : m <= NumberOf(x)
    BY <2>1, <2>4 DEF Numbers
  <2>6. HighestBlock = CHOOSE n \in N : \A m \in N : m <= n
    BY <1>3 DEF HighestBlock
  <2> HIDE DEF N
  <2>7. LowestBlock \in N /\ HighestBlock \in N
    BY <2>2, <2>3, <2>5, <2>6
  <2> QED
    BY <1>1, <2>1, <2>7
<1> QED
  BY <1>2, <1>3

PrunerPC == {"cleanLow", "cleanHigh", "wait", "high", "low", "deps", "blocks", "gone"}

\* A purge removes only documents it has asked for.
LEMMA AskedFor ==
  ASSUME docs \subseteq Document, NEW col, NEW D \in OldestDocIDs(col)
  PROVE  D \subseteq docs /\ \A d \in D : NumberOf(d) <= Cutoff
BY DEF OldestDocIDs, In

StoreTypes ==
  /\ cfg \in Config /\ docs \subseteq Document /\ refused \subseteq Document
  /\ purged \subseteq Document
  /\ ppc \in PrunerPC /\ dep \in 1..Len(Dependents)
  /\ lowest \in Nat /\ highest \in Nat /\ stopped \in BOOLEAN

\* Every purge of the pruner, whole or in part, in one form.
Purges ==
  /\ ppc \in {"deps", "blocks"} /\ ppc' \in {"deps", "blocks", "wait"}
  /\ dep' \in 1..Len(Dependents)
  /\ UNCHANGED <<cfg, lowest, highest, stopped, refused>>
  /\ \E D \in SUBSET docs : (\A d \in D : NumberOf(d) <= Cutoff) /\ Purge(D)

\* The other steps leave the documents to the filter.
Leaves ==
  /\ cfg' = cfg /\ purged' = purged /\ dep' = dep
  /\ \/ UNCHANGED <<docs, refused>>
     \/ /\ UNCHANGED <<ppc, lowest, highest>>
        /\ \E d \in Document :
             \/ Allowed(cfg, d) /\ docs' = docs \cup {d} /\ refused' = refused
             \/ ~Allowed(cfg, d) /\ docs' = docs /\ refused' = refused \cup {d}

LEMMA StoreSteps ==
  ASSUME StoreTypes, [StoreNext]_storeVars
  PROVE  Purges \/ Leaves
<1> USE DEF prunerVars
<1>1. ASSUME NEW col, \E D \in OldestDocIDs(col) : \E part \in SUBSET D : Purge(part)
      PROVE  \E D \in SUBSET docs : (\A d \in D : NumberOf(d) <= Cutoff) /\ Purge(D)
  <2>1. PICK D \in OldestDocIDs(col) : \E part \in SUBSET D : Purge(part)
    BY <1>1
  <2>2. PICK part \in SUBSET D : Purge(part)
    BY <2>1
  <2>3. D \subseteq docs /\ \A d \in D : NumberOf(d) <= Cutoff
    BY AskedFor DEF StoreTypes
  <2>4. part \in SUBSET docs /\ \A d \in part : NumberOf(d) <= Cutoff
    BY <2>3
  <2> QED
    BY <2>2, <2>4
<1>2. ASSUME NEW col, \E D \in OldestDocIDs(col) : Purge(D)
      PROVE  \E D \in OldestDocIDs(col) : \E part \in SUBSET D : Purge(part)
  BY <1>2
<1>3. ASSUME NextCollection
      PROVE  ppc' \in {"deps", "blocks"} /\ dep' \in 1..Len(Dependents)
  <2>1. Len(Dependents) \in Nat /\ Len(Dependents) # 0
    BY StoreAssumption, LenProperties, EmptySeq
  <2> QED
    BY <1>3, <2>1 DEF NextCollection, StoreTypes
<1>4. CASE PruneDependents \/ DependentsFail
  BY <1>1, <1>2, <1>3, <1>4 DEF PruneDependents, DependentsFail, Purges
<1>5. CASE PruneBlocks \/ BlocksFail
  BY <1>1, <1>2, <1>5 DEF PruneBlocks, BlocksFail, Purges, StoreTypes
<1>6. ASSUME NEW d \in Document, Offer(d) PROVE Leaves
  BY <1>6 DEF Offer, Leaves
<1>7. CASE CleanLow \/ CleanHigh \/ Tick \/ Low \/ NumberFails \/ LoopEnds \/ Stop
           \/ UNCHANGED storeVars
  BY <1>7 DEF CleanLow, CleanHigh, Tick, Low, NumberFails, LoopEnds, Stop, storeVars, Leaves
<1> QED
  BY <1>4, <1>5, <1>6, <1>7 DEF StoreNext, PrunerStep

LEMMA StoreTypesStep == StoreTypes /\ [StoreNext]_storeVars => StoreTypes'
<1> SUFFICES ASSUME StoreTypes, [StoreNext]_storeVars PROVE StoreTypes'
  OBVIOUS
<1>1. CASE Purges
  BY <1>1 DEF Purges, Purge, StoreTypes, PrunerPC
<1>2. CASE Leaves
  <2>1. /\ cfg' \in Config /\ docs' \subseteq Document /\ refused' \subseteq Document
        /\ purged' \subseteq Document /\ dep' \in 1..Len(Dependents)
    BY <1>2 DEF Leaves, StoreTypes
  <2>2. LowestBlock \in Nat /\ HighestBlock \in Nat
    BY BlockRange DEF StoreTypes
  <2>3. ppc' \in PrunerPC /\ lowest' \in Nat /\ highest' \in Nat /\ stopped' \in BOOLEAN
    <3> USE DEF StoreTypes, PrunerPC, prunerVars
    <3>1. CASE CleanLow \/ Low
      BY <2>2, <3>1 DEF CleanLow, Low
    <3>2. CASE CleanHigh \/ Tick
      BY <2>2, <3>2 DEF CleanHigh, Tick
    <3>3. CASE NumberFails \/ LoopEnds \/ Stop \/ UNCHANGED storeVars
      BY <3>3 DEF NumberFails, LoopEnds, Stop, storeVars
    <3>4. CASE \E d \in Document : Offer(d)
      BY <3>4 DEF Offer
    <3>5. CASE PruneDependents \/ DependentsFail \/ PruneBlocks \/ BlocksFail
      BY <3>5 DEF PruneDependents, DependentsFail, PruneBlocks, BlocksFail, NextCollection
    <3> QED
      BY <3>1, <3>2, <3>3, <3>4, <3>5 DEF StoreNext, PrunerStep
  <2> QED
    BY <2>1, <2>3 DEF StoreTypes
<1> QED
  BY <1>1, <1>2, StoreSteps

LEMMA StoreTypesInit == StoreInit => StoreTypes
<1> SUFFICES ASSUME StoreInit PROVE StoreTypes
  OBVIOUS
<1>1. 1 \in 1..Len(Dependents)
  BY StoreAssumption, LenProperties, EmptySeq
<1>2. docs \subseteq Document
  BY DEF StoreInit
<1>3. /\ cfg \in Config /\ refused = {} /\ purged = {} /\ ppc = "cleanLow" /\ dep = 1
      /\ lowest = 0 /\ highest = 0 /\ stopped = FALSE
  BY DEF StoreInit
<1> QED
  BY <1>1, <1>2, <1>3 DEF StoreTypes, PrunerPC

\* The type invariant of the store and its pruner.
THEOREM StoreTypeCorrect == StoreSpec => []StoreTypeOK
<1>1. StoreTypes => StoreTypeOK
  BY DEF StoreTypes, StoreTypeOK, PrunerPC, Deps
<1> QED
  BY <1>1, StoreTypesInit, StoreTypesStep, PTL DEF StoreSpec

\* What the filter has let in and kept out.
FilterInv ==
  /\ \A d \in docs : Allowed(cfg, d)
  /\ \A d \in refused : ~Allowed(cfg, d)

LEMMA FilterStep == StoreTypes /\ FilterInv /\ [StoreNext]_storeVars => FilterInv'
<1> SUFFICES ASSUME StoreTypes, FilterInv, [StoreNext]_storeVars PROVE FilterInv'
  OBVIOUS
<1>1. CASE Purges
  BY <1>1 DEF Purges, Purge, FilterInv
<1>2. CASE Leaves
  BY <1>2 DEF Leaves, FilterInv
<1> QED
  BY <1>1, <1>2, StoreSteps

\* The configuration with the other mode.
Flip(c) == [c EXCEPT !.mode = IF @ = "blocklist" THEN "allowlist" ELSE "blocklist"]

\* Either mode keeps out what the other lets in, once a group is enabled.
LEMMA ModesOppose ==
  ASSUME NEW c \in Config, NEW d, c.enabled, EnabledGroups(c) # {},
         d.col \in FilteredCols, InBlockRange(c, d.num)
  PROVE  Allowed(c, d) <=> ~Allowed(Flip(c), d)
<1> DEFINE e == Flip(c)
           matched == \E g \in EnabledGroups(c) : GroupMatches(c, g, d)
<1>1. c = [f \in FilterFields |-> c[f]]
  BY StoreAssumption
<1>2. /\ e.enabled = c.enabled /\ e.cascade = c.cascade /\ e.range = c.range /\ e.groups = c.groups
      /\ e.mode = IF c.mode = "blocklist" THEN "allowlist" ELSE "blocklist"
  BY <1>1 DEF Flip, FilterFields
<1> HIDE DEF e
<1>3. EnabledGroups(e) = EnabledGroups(c) /\ InBlockRange(e, d.num)
  BY <1>2 DEF EnabledGroups, InBlockRange
<1>4. \A g : GroupMatches(e, g, d) <=> GroupMatches(c, g, d)
  BY <1>2 DEF GroupMatches
<1>5. d.col \notin StructuralCols
  BY DEF FilteredCols, StructuralCols
<1>6. (Allowed(c, d) <=> MatchesGroups(c, d)) /\ (Allowed(e, d) <=> MatchesGroups(e, d))
  BY <1>2, <1>3, <1>5 DEF Allowed, AllowReplication, StructuralCols
<1>7. MatchesGroups(c, d) <=> IF c.mode = "blocklist" THEN ~matched ELSE matched
  BY DEF MatchesGroups
<1>8. MatchesGroups(e, d) <=> IF e.mode = "blocklist" THEN ~matched ELSE matched
  BY <1>3, <1>4 DEF MatchesGroups
<1> QED
  BY <1>2, <1>6, <1>7, <1>8 DEF e

\* Under "cascade_filters" an allowlist that lets a transaction to an address in lets in
\* whatever else has that address.
LEMMA CascadeCovers ==
  ASSUME NEW c, NEW d, NEW e, c.enabled, c.cascade, c.mode = "allowlist",
         d.col = "transaction", Allowed(c, d),
         e.col \in FilteredCols, e.addr = d.addr, InBlockRange(c, e.num)
  PROVE  Allowed(c, e)
<1>1. MatchesGroups(c, d)
  BY DEF Allowed, AllowReplication, StructuralCols, FilteredCols
<1>2. MatchesGroups(c, e)
  <2>1. CASE EnabledGroups(c) = {}
    BY <2>1 DEF MatchesGroups
  <2>2. CASE EnabledGroups(c) # {}
    <3>1. PICK g \in EnabledGroups(c) : GroupMatches(c, g, d)
      BY <1>1, <2>2 DEF MatchesGroups
    <3>2. PICK cf \in g.contracts : ContractAppliesToType(cf, "transaction", c.cascade) /\ cf.addr = d.addr
      BY <3>1 DEF GroupMatches
    <3>3. ContractAppliesToType(cf, e.col, c.cascade)
      BY <3>2 DEF ContractAppliesToType, FilteredCols
    <3>4. GroupMatches(c, g, e)
      BY <3>1, <3>2, <3>3 DEF GroupMatches
    <3> QED
      BY <3>4 DEF MatchesGroups
  <2> QED
    BY <2>1, <2>2
<1>3. e.col \notin StructuralCols
  BY DEF FilteredCols, StructuralCols
<1> QED
  BY <1>2, <1>3 DEF Allowed, AllowReplication

LEMMA FilterResult == StoreTypes /\ FilterInv => FilterConsistent
<1> SUFFICES ASSUME StoreTypes, FilterInv PROVE FilterConsistent
  OBVIOUS
<1>1. ASSUME NEW d \in docs, d.col \notin StructuralCols, d.num # None
      PROVE  Allowed(cfg, [col |-> "block", num |-> d.num, addr |-> "", topics |-> <<>>])
  <2>1. cfg.enabled => InBlockRange(cfg, d.num)
    BY <1>1 DEF FilterInv, Allowed, AllowReplication, StructuralCols
  <2> QED
    BY <2>1 DEF Allowed, AllowReplication, AllowBlock, InBlockRange
<1>2. ASSUME cfg.enabled, EnabledGroups(cfg) # {}, NEW d \in docs \cup refused,
             d.col \in FilteredCols, InBlockRange(cfg, d.num)
      PROVE  (d \in docs) # Allowed(Flip(cfg), d)
  <2>1. Allowed(cfg, d) <=> ~Allowed(Flip(cfg), d)
    BY <1>2, ModesOppose DEF StoreTypes
  <2>2. (d \in docs) <=> Allowed(cfg, d)
    BY <1>2 DEF FilterInv
  <2>3. Allowed(Flip(cfg), d) \in BOOLEAN /\ (d \in docs) \in BOOLEAN
    BY DEF Allowed
  <2> QED
    BY <2>1, <2>2, <2>3
<1>3. ASSUME cfg.enabled, cfg.cascade, cfg.mode = "allowlist", NEW d \in docs,
             d.col = "transaction", NEW e \in refused, e.col \in FilteredCols
      PROVE  e.addr # d.addr \/ ~InBlockRange(cfg, e.num)
  BY <1>3, CascadeCovers DEF FilterInv
<1> QED
  BY <1>1, <1>2, <1>3 DEF FilterConsistent, Flip

\* For every filter configuration and every set of documents: ranges apply alike to blocks and
\* to what belongs to them, the two modes are each other's complement, and the cascade reaches
\* the logs and access list entries of a transaction's address.
THEOREM FilterConsistentCorrect == StoreSpec => []FilterConsistent
<1>1. StoreInit => FilterInv
  BY DEF StoreInit, FilterInv
<1>2. StoreTypes /\ FilterInv /\ [StoreNext]_storeVars => (StoreTypes /\ FilterInv)'
  BY StoreTypesStep, FilterStep
<1> QED
  BY <1>1, <1>2, FilterResult, StoreTypesInit, PTL DEF StoreSpec

\* While a prune is under way its highest block is in the store: the pruner removes none as
\* high as that, and nobody else removes any.
TopInv ==
  ppc \in {"low", "deps", "blocks"} =>
    highest > 0 /\ \E b \in docs : b.col = "block" /\ NumberOf(b) = highest

LEMMA TopPurge ==
  ASSUME StoreTypes, TopInv, NewestKept, Purges
  PROVE  TopInv' /\ NewestKept'
<1>1. PICK D \in SUBSET docs : (\A d \in D : NumberOf(d) <= Cutoff) /\ Purge(D)
  BY DEF Purges
<1>2. docs' = docs \ D /\ purged' = purged \cup D /\ highest' = highest
  BY <1>1 DEF Purge, Purges
<1>3. /\ docs \subseteq Document /\ highest \in Nat /\ lowest \in Nat /\ MaxBlocks \in Nat \ {0}
      /\ highest > 0
  BY StoreAssumption DEF StoreTypes, TopInv, Purges
<1>4. PICK b \in docs : b.col = "block" /\ NumberOf(b) = highest
  BY DEF TopInv, Purges
<1>5. Cutoff = highest - MaxBlocks
  BY <1>3 DEF Cutoff
<1>6. b \in docs' /\ b.num = highest
  <2>1. ~(NumberOf(b) <= Cutoff)
    BY <1>3, <1>4, <1>5
  <2>2. b \in Document
    BY <1>3
  <2>3. b.num = NumberOf(b)
    BY <1>3, <1>4, <2>2, NumberFacts
  <2> QED
    BY <1>1, <1>2, <1>4, <2>1, <2>3
<1>7. TopInv'
  BY <1>2, <1>3, <1>4, <1>6 DEF TopInv
<1>8. ASSUME NEW d \in Document, NumberOf(d) <= Cutoff PROVE b.num - NumberOf(d) >= MaxBlocks
  BY <1>3, <1>5, <1>6, <1>8, NumberFacts
<1>9. ASSUME NEW d \in purged' \ docs'
      PROVE  \E a \in docs' : a.col = "block" /\ a.num - NumberOf(d) >= MaxBlocks
  <2>1. CASE d \in D
    BY <1>1, <1>3, <1>4, <1>6, <1>8, <2>1
  <2>2. CASE d \notin D
    <3>1. d \in purged \ docs /\ d \in Document
      BY <1>2, <1>9, <2>2 DEF StoreTypes
    <3>2. PICK a \in docs : a.col = "block" /\ a.num - NumberOf(d) >= MaxBlocks
      BY <3>1 DEF NewestKept
    <3>3. CASE a \notin D
      BY <1>2, <3>2, <3>3
    <3>4. CASE a \in D
      <4>1. /\ NumberOf(a) <= Cutoff /\ a.num <= NumberOf(a) /\ a.num \in Int /\ NumberOf(a) \in Nat
            /\ NumberOf(d) \in Nat
        BY <1>1, <1>3, <3>1, <3>4, NumberFacts
      <4>2. b.num - NumberOf(d) >= MaxBlocks
        BY <1>3, <1>5, <1>6, <3>2, <4>1
      <4> QED
        BY <1>4, <1>6, <4>2
    <3> QED
      BY <3>3, <3>4
  <2> QED
    BY <2>1, <2>2
<1> QED
  BY <1>7, <1>9 DEF NewestKept

\* The two places where a prune begins.
LEMMA TopBegins ==
  ASSUME StoreTypes, TopInv, [StoreNext]_storeVars, Leaves
  PROVE  TopInv'
<1> USE DEF prunerVars
<1>0. /\ LowestBlock \in Nat /\ HighestBlock \in Nat /\ lowest \in Nat /\ highest \in Nat
      /\ MaxBlocks \in Nat \ {0}
      /\ HighestBlock # 0 => \E b \in docs : b.col = "block" /\ NumberOf(b) = HighestBlock
  BY BlockRange, StoreAssumption DEF StoreTypes
<1>1. CASE CleanHigh
  <2>1. /\ docs' = docs /\ highest' = HighestBlock
        /\ ppc' = "wait" \/ (ppc' = "deps" /\ Exceeds(lowest, highest'))
    BY <1>1 DEF CleanHigh
  <2>2. Exceeds(lowest, highest') => HighestBlock # 0
    BY <1>0, <2>1 DEF Exceeds
  <2> QED
    BY <1>0, <2>1, <2>2 DEF TopInv
<1>2. CASE Tick
  BY <1>0, <1>2 DEF Tick, TopInv
<1>3. CASE Low \/ CleanLow \/ NumberFails \/ LoopEnds \/ Stop \/ UNCHANGED storeVars
  BY <1>3 DEF Low, CleanLow, NumberFails, LoopEnds, Stop, storeVars, TopInv
<1>4. CASE \E d \in Document : Offer(d)
  <2>1. UNCHANGED <<ppc, highest>> /\ docs \subseteq docs'
    BY <1>4 DEF Offer
  <2> QED
    BY <2>1 DEF TopInv
<1>5. CASE PruneDependents \/ DependentsFail \/ PruneBlocks \/ BlocksFail
  <2>1. UNCHANGED highest /\ ppc \in {"deps", "blocks"}
    BY <1>5 DEF PruneDependents, DependentsFail, PruneBlocks, BlocksFail
  <2>2. docs \subseteq docs'
    BY DEF Leaves
  <2> QED
    BY <2>1, <2>2 DEF TopInv
<1> QED
  BY <1>1, <1>2, <1>3, <1>4, <1>5 DEF StoreNext, PrunerStep

\* Whatever arrives between the reads of the block range and the purges, and wherever a purge
\* stops, nothing of the newest MaxBlocks block numbers is removed.
THEOREM NewestKeptCorrect == StoreSpec => []NewestKept
<1>1. StoreInit => TopInv /\ NewestKept
  BY DEF StoreInit, TopInv, NewestKept
<1>2. StoreTypes /\ TopInv /\ NewestKept /\ [StoreNext]_storeVars => (StoreTypes /\ TopInv /\ NewestKept)'
  <2> SUFFICES ASSUME StoreTypes, TopInv, NewestKept, [StoreNext]_storeVars
               PROVE  TopInv' /\ NewestKept'
    BY StoreTypesStep
  <2>1. CASE Purges
    BY <2>1, TopPurge
  <2>2. CASE Leaves
    <3>1. docs \subseteq docs' /\ purged' = purged
      BY <2>2 DEF Leaves
    <3> QED
      BY <2>2, <3>1, TopBegins DEF NewestKept
  <2> QED
    BY <2>1, <2>2, StoreSteps
<1> QED
  BY <1>1, <1>2, StoreTypesInit, PTL DEF StoreSpec
=============================================================================
