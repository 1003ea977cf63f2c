----------------------------- MODULE HubProofs -----------------------------
(***************************************************************************)
(* Theorems about module Hub, for every set of views, however many share a *)
(* name, and every size of the pages and of the event channel: its types,  *)
(* what the registry file keeps, what a restart recovers from it, and that *)
(* no announced view disappears.                                           *)
(***************************************************************************)
EXTENDS Hub, TLAPS, SequenceTheorems, FiniteSetTheorems, FunctionTheorems, NaturalsInduction

-----------------------------------------------------------------------------
(* Sequences of views.                                                     *)

Flaw == {"inputData", "bare", "typo", "unknown"}
Lens == {"none", "http", "base64", "junk", "text", "file"}
Item == [id : View, flaws : SUBSET Flaw, lens : Lens]
Msg == View \cup {Answer}

\* An entry that can be registered again as it is.
Ready(x) == x.flaws = {} /\ ~Inline(x)
Clean(s) == \A x \in Range(s) : Ready(x)

\* The constants.
LEMMA ViewFacts ==
  /\ View \subseteq Nat \ {0} /\ IsFiniteSet(View) /\ Capacity \in Nat \ {0}
  /\ NoView \notin View /\ Answer \notin View
  /\ \A v \in View : Fetched(v) \in Item /\ NameIn(Fetched(v)) = NameOf[v]
  /\ \A x \in Item : NameIn(x) = NameOf[x.id] /\ NameIn(x) \in Name
<1>1. /\ View \subseteq Nat \ {0} /\ IsFiniteSet(View) /\ Capacity \in Nat \ {0}
      /\ FlawsOf \in [View -> SUBSET Flaw]
      /\ LensOf \in [View -> {"none", "http", "base64", "junk", "text"}]
  BY ViewAssumption, HubAssumption DEF Flaw
<1>2. NoView \notin View /\ Answer \notin View
  BY <1>1 DEF NoView, Answer
<1>3. \A v \in View : Fetched(v) \in Item /\ NameIn(Fetched(v)) = NameOf[v]
  BY <1>1 DEF Fetched, Item, Lens, NameIn
<1>4. \A x \in Item : NameIn(x) = NameOf[x.id] /\ NameIn(x) \in Name
  BY DEF Item, NameIn, Name
<1> QED
  BY <1>1, <1>2, <1>3, <1>4

LEMMA NamesEmpty == NamesIn(<<>>) = {} /\ Clean(<<>>)
BY DEF NamesIn, Clean, Range

\* The names and the elements of a sequence, by position.
LEMMA ByPosition ==
  ASSUME NEW s \in Seq(Item)
  PROVE  /\ Len(s) \in Nat /\ DOMAIN s = 1..Len(s)
         /\ \A i \in DOMAIN s : s[i] \in Item /\ NameIn(s[i]) \in NamesIn(s)
         /\ \A n \in NamesIn(s) : \E i \in DOMAIN s : n = NameIn(s[i])
         /\ Clean(s) <=> \A i \in DOMAIN s : Ready(s[i])
         /\ NamesIn(s) \subseteq Name
<1>1. Len(s) \in Nat /\ DOMAIN s = 1..Len(s) /\ \A i \in DOMAIN s : s[i] \in Item
  BY LenProperties, ElementOfSeq
<1>2. /\ \A i \in DOMAIN s : NameIn(s[i]) \in NamesIn(s)
      /\ \A n \in NamesIn(s) : \E i \in DOMAIN s : n = NameIn(s[i])
  BY DEF NamesIn, Range
<1>3. Clean(s) <=> \A i \in DOMAIN s : Ready(s[i])
  BY DEF Clean, Range
<1>4. NamesIn(s) \subseteq Name
  BY <1>1, <1>2, ViewFacts
<1> QED
  BY <1>1, <1>2, <1>3, <1>4

LEMMA NamesConcat ==
  ASSUME NEW s \in Seq(Item), NEW t \in Seq(Item)
  PROVE  s \o t \in Seq(Item) /\ NamesIn(s \o t) = NamesIn(s) \cup NamesIn(t)
<1> DEFINE r == s \o t
           m == Len(s)
           n == Len(t)
<1>1. /\ m \in Nat /\ n \in Nat /\ r \in Seq(Item) /\ Len(r) = m + n
      /\ DOMAIN s = 1..m /\ DOMAIN t = 1..n /\ DOMAIN r = 1..(m + n)
  BY ByPosition, ConcatProperties, LenProperties
<1>2. \A i \in 1..(m + n) : r[i] = IF i <= m THEN s[i] ELSE t[i - m]
  BY ConcatProperties
<1> HIDE DEF r, m, n
<1>3. ASSUME NEW i \in DOMAIN r PROVE NameIn(r[i]) \in NamesIn(s) \cup NamesIn(t)
  <2>1. CASE i <= m
    <3>1. i \in DOMAIN s /\ r[i] = s[i]
      BY <1>1, <1>2, <2>1
    <3> QED
      BY <3>1, ByPosition
  <2>2. CASE ~(i <= m)
    <3>1. i - m \in DOMAIN t /\ r[i] = t[i - m]
      BY <1>1, <1>2, <2>2
    <3> QED
      BY <3>1, ByPosition
  <2> QED
    BY <2>1, <2>2
<1>4. ASSUME NEW i \in DOMAIN s PROVE NameIn(s[i]) \in NamesIn(r)
  <2>1. i \in DOMAIN r /\ r[i] = s[i]
    BY <1>1, <1>2
  <2> QED
    BY <1>1, <2>1, ByPosition
<1>5. ASSUME NEW i \in DOMAIN t PROVE NameIn(t[i]) \in NamesIn(r)
  <2>1. i + m \in DOMAIN r /\ r[i + m] = t[i]
    BY <1>1, <1>2
  <2> QED
    BY <1>1, <2>1, ByPosition
<1>6. NamesIn(r) \subseteq NamesIn(s) \cup NamesIn(t)
  BY <1>1, <1>3, ByPosition
<1>7. NamesIn(s) \subseteq NamesIn(r) /\ NamesIn(t) \subseteq NamesIn(r)
  BY <1>4, <1>5, ByPosition
<1> QED
  BY <1>1, <1>6, <1>7 DEF r

LEMMA NamesTail ==
  ASSUME NEW s \in Seq(Item), s # <<>>
  PROVE  /\ Head(s) \in Item /\ Tail(s) \in Seq(Item)
         /\ NamesIn(s) = {NameIn(Head(s))} \cup NamesIn(Tail(s))
<1> DEFINE r == Tail(s)
<1>1. /\ Head(s) \in Item /\ r \in Seq(Item) /\ Head(s) = s[1]
      /\ Len(r) = Len(s) - 1
      /\ \A k \in 1..Len(r) : r[k] = s[k + 1]
  BY HeadTailProperties
<1>2. Len(s) \in Nat /\ Len(s) # 0 /\ DOMAIN s = 1..Len(s) /\ DOMAIN r = 1..(Len(s) - 1)
  BY <1>1, LenProperties, EmptySeq
<1> HIDE DEF r
<1>3. ASSUME NEW k \in DOMAIN r PROVE NameIn(r[k]) \in NamesIn(s)
  <2>1. k + 1 \in DOMAIN s /\ r[k] = s[k + 1]
    BY <1>1, <1>2
  <2> QED
    BY <2>1, ByPosition
<1>4. ASSUME NEW k \in DOMAIN s, k # 1 PROVE NameIn(s[k]) \in NamesIn(r)
  <2>1. k - 1 \in DOMAIN r /\ r[k - 1] = s[k]
    BY <1>1, <1>2, <1>4
  <2> QED
    BY <1>1, <2>1, ByPosition
<1>5. NameIn(Head(s)) \in NamesIn(s)
  BY <1>1, <1>2, ByPosition
<1>6. NamesIn(r) \subseteq NamesIn(s)
  BY <1>1, <1>3, ByPosition
<1>7. NamesIn(s) \subseteq {NameIn(Head(s))} \cup NamesIn(r)
  BY <1>1, <1>4, ByPosition
<1> QED
  BY <1>1, <1>5, <1>6, <1>7 DEF r

\* A save puts its view in and keeps every other name.
LEMMA UpsertFacts ==
  ASSUME NEW s \in Seq(Item), NEW x \in Item
  PROVE  /\ Upsert(s, x) \in Seq(Item)
         /\ NamesIn(Upsert(s, x)) = NamesIn(s) \cup {NameIn(x)}
         /\ Clean(s) /\ Ready(x) => Clean(Upsert(s, x))
<1> DEFINE r == Upsert(s, x)
           n == Len(s)
<1>0. n \in Nat /\ DOMAIN s = 1..n /\ \A i \in DOMAIN s : s[i] \in Item
  BY ByPosition
<1>1. CASE NameIn(x) \in NamesIn(s)
  <2>1. r = [i \in DOMAIN s |-> IF NameIn(s[i]) = NameIn(x) THEN x ELSE s[i]]
    BY <1>1 DEF Upsert
  <2>2. DOMAIN r = DOMAIN s /\ \A i \in DOMAIN s : r[i] = x \/ r[i] = s[i]
    BY <2>1
  <2>3. \A i \in DOMAIN s : NameIn(r[i]) = NameIn(s[i])
    BY <2>1
  <2>4. r \in [1..n -> Item]
    BY <1>0, <2>1
  <2>5. r \in Seq(Item)
    BY <1>0, <2>4, SeqDef
  <2> HIDE DEF r
  <2>6. NamesIn(r) \subseteq NamesIn(s)
    BY <2>2, <2>3, <2>5, ByPosition
  <2>7. NamesIn(s) \subseteq NamesIn(r)
    BY <2>2, <2>3, <2>5, ByPosition
  <2>8. Clean(s) /\ Ready(x) => Clean(r)
    BY <2>2, <2>5, ByPosition
  <2> QED
    BY <1>1, <2>5, <2>6, <2>7, <2>8 DEF r
<1>2. CASE NameIn(x) \notin NamesIn(s)
  <2>1. r = Append(s, x)
    BY <1>2 DEF Upsert
  <2>2. /\ r \in Seq(Item) /\ DOMAIN r = 1..n + 1 /\ r[n + 1] = x
        /\ \A i \in 1..n : r[i] = s[i]
    BY <1>0, <2>1, AppendProperties, LenProperties
  <2> HIDE DEF r, n
  <2>3. /\ n + 1 \in DOMAIN r /\ \A i \in DOMAIN s : i \in DOMAIN r /\ r[i] = s[i]
        /\ \A i \in DOMAIN r : r[i] = x \/ (i \in DOMAIN s /\ r[i] = s[i])
    BY <1>0, <2>2
  <2>4. NamesIn(r) \subseteq NamesIn(s) \cup {NameIn(x)}
    <3>1. ASSUME NEW i \in DOMAIN r PROVE NameIn(r[i]) \in NamesIn(s) \cup {NameIn(x)}
      BY <2>3, ByPosition
    <3>2. \A m \in NamesIn(r) : \E i \in DOMAIN r : m = NameIn(r[i])
      BY <2>2, ByPosition
    <3> QED
      BY <3>1, <3>2
  <2>5. NamesIn(s) \cup {NameIn(x)} \subseteq NamesIn(r)
    <3>1. NameIn(x) \in NamesIn(r)
      BY <2>2, <2>3, ByPosition
    <3>2. ASSUME NEW i \in DOMAIN s PROVE NameIn(s[i]) \in NamesIn(r)
      <4>1. i \in DOMAIN r /\ r[i] = s[i]
        BY <2>3
      <4> QED
        BY <2>2, <4>1, ByPosition
    <3> QED
      BY <3>1, <3>2, ByPosition
  <2>6. Clean(s) /\ Ready(x) => Clean(r)
    BY <2>2, <2>3, ByPosition
  <2> QED
    BY <2>2, <2>4, <2>5, <2>6 DEF r
<1> QED
  BY <1>1, <1>2

\* A listing of a finite set of numbers leaves none of them out.
LEMMA ListingFacts ==
  ASSUME NEW P \in SUBSET Nat, IsFiniteSet(P), NEW f \in Listings(P)
  PROVE  /\ Cardinality(P) \in Nat /\ f \in [1..Cardinality(P) -> P]
         /\ \A p \in P : \E k \in 1..Cardinality(P) : f[k] = p
<1> DEFINE n == Cardinality(P)
<1>1. n \in Nat /\ f \in [1..n -> P] /\ \A a, b \in 1..n : a < b => f[a] < f[b]
  BY FS_CardinalityType DEF Listings
<1> HIDE DEF n
<1>2. \A a, b \in 1..n : f[a] = f[b] => a = b
  <2> SUFFICES ASSUME NEW a \in 1..n, NEW b \in 1..n, a # b
               PROVE  f[a] # f[b]
    OBVIOUS
  <2>1. f[a] \in Nat /\ f[b] \in Nat
    BY <1>1
  <2>2. a < b \/ b < a
    BY <1>1
  <2> QED
    BY <1>1, <2>1, <2>2
<1>3. f \in Surjection(1..n, P)
  <2>1. f \in Injection(1..n, P)
    BY <1>1, <1>2 DEF Injection, IsInjective
  <2>2. Cardinality(1..n) = Cardinality(P) /\ IsFiniteSet(1..n)
    BY <1>1, FS_Interval DEF n
  <2> QED
    BY <2>1, <2>2, FS_Injection
<1> QED
  BY <1>1, <1>3 DEF Surjection, n

\* Every non-empty set of naturals has a least element.
LEMMA LeastNatural ==
  ASSUME NEW T \in SUBSET Nat, T # {}
  PROVE  \E x \in T : \A y \in T : x <= y
<1>1. IsWellFoundedOn({p \in Nat \X Nat : p[1] < p[2]}, Nat)
  BY NatLessThanWellFounded DEF OpToRel
<1>2. PICK x \in T : \A y \in T : ~(<<y, x>> \in {p \in Nat \X Nat : p[1] < p[2]})
  BY <1>1, WFMin
<1>3. \A y \in T : ~ (y < x)
  BY <1>2
<1> QED
  BY <1>3

\* deduplicateViews leaves no name out.
LEMMA DeduplicateFacts ==
  ASSUME NEW s \in Seq(Item), NEW r \in Deduplicate(s)
  PROVE  r \in Seq(Item) /\ NamesIn(r) = NamesIn(s)
<1> DEFINE P == Firsts(s)
           n == Cardinality(P)
<1>1. Len(s) \in Nat /\ DOMAIN s = 1..Len(s) /\ \A i \in DOMAIN s : s[i] \in Item
  BY ByPosition
<1>2. P \subseteq DOMAIN s /\ P \in SUBSET Nat
  BY <1>1 DEF Firsts
<1>3. IsFiniteSet(P)
  <2>1. IsFiniteSet(DOMAIN s)
    BY <1>1, FS_Interval
  <2> QED
    BY <1>2, <2>1, FS_Subset
<1>4. PICK f \in Listings(P) : r = [k \in DOMAIN f |-> s[f[k]]]
  BY DEF Deduplicate
<1>5. n \in Nat /\ f \in [1..n -> P] /\ \A p \in P : \E k \in 1..n : f[k] = p
  BY <1>2, <1>3, ListingFacts
<1> HIDE DEF P, n
<1>6. DOMAIN r = 1..n /\ \A k \in 1..n : r[k] = s[f[k]] /\ f[k] \in P /\ f[k] \in DOMAIN s
  BY <1>2, <1>4, <1>5
<1>7. r \in Seq(Item)
  <2>1. r \in [1..n -> Item]
    BY <1>1, <1>2, <1>4, <1>5
  <2> QED
    BY <1>5, <2>1, SeqDef
<1>8. NamesIn(r) \subseteq NamesIn(s)
  <2>1. ASSUME NEW k \in DOMAIN r PROVE NameIn(r[k]) \in NamesIn(s)
    BY <1>6, ByPosition
  <2>2. \A m \in NamesIn(r) : \E k \in DOMAIN r : m = NameIn(r[k])
    BY <1>7, ByPosition
  <2> QED
    BY <2>1, <2>2
<1>9. ASSUME NEW i \in DOMAIN s PROVE NameIn(s[i]) \in NamesIn(r)
  <2> DEFINE T == {j \in DOMAIN s : NameIn(s[j]) = NameIn(s[i])}
  <2>1. T \in SUBSET Nat /\ i \in T
    BY <1>1
  <2>2. PICK j \in T : \A k \in T : j <= k
    BY <2>1, LeastNatural
  <2>3. j \in DOMAIN s /\ NameIn(s[j]) = NameIn(s[i])
    BY <2>2
  <2>4. \A k \in 1..(j - 1) : NameIn(s[k]) # NameIn(s[j])
    <3> SUFFICES ASSUME NEW k \in 1..(j - 1), NameIn(s[k]) = NameIn(s[j]) PROVE FALSE
      OBVIOUS
    <3>1. k \in DOMAIN s /\ ~(j <= k)
      BY <1>1, <2>3
    <3> QED
      BY <2>2, <2>3, <3>1
  <2>5. j \in P
    BY <2>3, <2>4 DEF Firsts, P
  <2>6. PICK k \in 1..n : f[k] = j
    BY <1>5, <2>5
  <2>7. k \in DOMAIN r /\ NameIn(r[k]) = NameIn(s[i])
    BY <1>6, <2>3, <2>6
  <2> QED
    BY <1>7, <2>7, ByPosition
<1>10. \A m \in NamesIn(s) : \E i \in DOMAIN s : m = NameIn(s[i])
  BY ByPosition
<1> QED
  BY <1>7, <1>8, <1>9, <1>10

\* decodeLCDViews skips no view that decodes.
LEMMA DecodeFacts ==
  ASSUME NEW vs \in SUBSET View, NEW r \in DecodeLCDViews(vs)
  PROVE  /\ r \in Seq(Item)
         /\ \A v \in vs : Decodes(v) => NameOf[v] \in NamesIn(r)
<1> DEFINE P == {v \in vs : Decodes(v)}
           n == Cardinality(P)
<1>1. P \in SUBSET Nat /\ P \subseteq View /\ IsFiniteSet(P)
  BY ViewFacts, FS_Subset
<1>2. PICK f \in Listings(P) : r = [k \in DOMAIN f |-> Fetched(f[k])]
  BY DEF DecodeLCDViews
<1>3. n \in Nat /\ f \in [1..n -> P] /\ \A p \in P : \E k \in 1..n : f[k] = p
  BY <1>1, ListingFacts
<1>4. \A v \in vs : Decodes(v) => v \in P
  OBVIOUS
<1> HIDE DEF P, n
<1>5. DOMAIN r = 1..n /\ \A k \in 1..n : r[k] = Fetched(f[k]) /\ f[k] \in View
  BY <1>1, <1>2, <1>3
<1>6. r \in Seq(Item)
  <2>1. \A k \in 1..n : r[k] \in Item
    BY <1>5, ViewFacts
  <2>2. r \in [1..n -> Item]
    BY <1>2, <1>3, <2>1
  <2> QED
    BY <1>3, <2>2, SeqDef
<1>7. ASSUME NEW v \in vs, Decodes(v) PROVE NameOf[v] \in NamesIn(r)
  <2>1. PICK k \in 1..n : f[k] = v
    BY <1>3, <1>4, <1>7
  <2>2. k \in DOMAIN r /\ NameIn(r[k]) = NameOf[v]
    BY <1>5, <2>1, ViewFacts
  <2> QED
    BY <1>6, <2>2, ByPosition
<1> QED
  BY <1>6, <1>7

-----------------------------------------------------------------------------
(* Messages.                                                               *)

LEMMA AnnouncedEmpty == Announced(<<>>) = {}
BY DEF Announced

LEMMA AnnouncedOne ==
  ASSUME NEW m
  PROVE  Announced(<<m>>) = {m} \cap View
BY DEF Announced

LEMMA AnnouncedAppend ==
  ASSUME NEW s \in Seq(Msg), NEW m \in Msg
  PROVE  Append(s, m) \in Seq(Msg) /\ Announced(Append(s, m)) = Announced(s) \cup ({m} \cap View)
<1> DEFINE r == Append(s, m)
           n == Len(s)
<1>1. /\ n \in Nat /\ DOMAIN s = 1..n /\ r \in Seq(Msg) /\ DOMAIN r = 1..n + 1
      /\ r[n + 1] = m /\ \A i \in 1..n : r[i] = s[i]
  BY AppendProperties, LenProperties
<1> HIDE DEF r, n
<1>2. /\ n + 1 \in DOMAIN r /\ \A i \in DOMAIN s : i \in DOMAIN r /\ r[i] = s[i]
      /\ \A i \in DOMAIN r : r[i] = m \/ (i \in DOMAIN s /\ r[i] = s[i])
  BY <1>1
<1>3. \A v \in View : (\E i \in DOMAIN r : r[i] = v) <=> (v = m \/ \E i \in DOMAIN s : s[i] = v)
  BY <1>1, <1>2
<1> QED
  BY <1>1, <1>3 DEF Announced, r

LEMMA AnnouncedTail ==
  ASSUME NEW s \in Seq(Msg), s # <<>>
  PROVE  /\ Head(s) \in Msg /\ Tail(s) \in Seq(Msg)
         /\ Announced(s) = ({Head(s)} \cap View) \cup Announced(Tail(s))
<1> DEFINE r == Tail(s)
<1>1. /\ Head(s) \in Msg /\ r \in Seq(Msg) /\ Head(s) = s[1]
      /\ Len(r) = Len(s) - 1
      /\ \A k \in 1..Len(r) : r[k] = s[k + 1]
  BY HeadTailProperties
<1>2. Len(s) \in Nat /\ Len(s) # 0 /\ DOMAIN s = 1..Len(s) /\ DOMAIN r = 1..(Len(s) - 1)
  BY <1>1, LenProperties, EmptySeq
<1>3. 1 \in DOMAIN s /\ \A k \in DOMAIN r : k + 1 \in DOMAIN s /\ r[k] = s[k + 1]
  BY <1>1, <1>2
<1>4. \A k \in DOMAIN s : k = 1 \/ (k - 1 \in DOMAIN r /\ r[k - 1] = s[k])
  BY <1>1, <1>2
<1> HIDE DEF r
<1>5. \A v \in View :
        (\E i \in DOMAIN s : s[i] = v) <=> (v = Head(s) \/ \E i \in DOMAIN r : r[i] = v)
  BY <1>1, <1>3, <1>4
<1> QED
  BY <1>1, <1>5 DEF Announced, r

-----------------------------------------------------------------------------
(* Types.                                                                  *)

ConnState == {"none", "ask", "reply", "up", "cut", "expired"}
LoopPC == {"off", "read", "hydrate", "send", "backoff", "dialing", "dead"}
HostPhase == {"down", "fetch", "local", "wasm", "register", "dial", "running"}
Busy == {"check", "post", "posting", "lens", "insert", "load", "save", "saving"}

\* A goroutine that registers a view.
Work == [pc : Busy, x : Item, read : Seq(Item)]

ViewTypes ==
  /\ file \in Seq(Item) \cup {Torn}
  /\ wasm \in [View -> {"absent", "torn", "whole"}]
  /\ defs \in [Name -> View \cup {NoView}]
  /\ active \in [Name -> View \cup {NoView}]
  /\ task \in [Proc -> Work \cup {Idle, Gone}]
  /\ refused \subseteq View

HostTypes ==
  /\ hub \subseteq View /\ lost \subseteq hub /\ dropped \subseteq hub /\ urls \subseteq View
  /\ phase \in HostPhase
  /\ todo \in Seq(Item)

\* Only views of the hub are on their way.
SocketTypes ==
  /\ conn \in [st : ConnState, k : Nat]
  /\ wire \in Seq(Msg) /\ Announced(wire) \subseteq hub

LoopTypes ==
  /\ loop \in [pc : LoopPC, v : hub \cup {NoView}, try : Nat]
  /\ chan \in Seq(Msg) /\ Announced(chan) \subseteq hub
  /\ \A i \in DOMAIN chan : chan[i] \in View
  /\ Len(chan) <= Capacity

TypeInv == ViewTypes /\ HostTypes /\ SocketTypes /\ LoopTypes

\* Where the goroutines are in each phase: main registers views before the handler exists,
\* and the event loop runs only after both.
PhaseInv ==
  /\ phase # "register" => task["main"] = Idle
  /\ phase # "running" => task["handler"] = Gone /\ loop.pc = "off" /\ ~stopping
  /\ phase \in {"dial", "running"} => todo = <<>>
  /\ loop.pc \in {"hydrate", "send"} <=> loop.v # NoView

\* What has been done for a view on its way: its query is mended and its WASM written before
\* it is inserted, DefraDB has a definition of its name then, and it is active before it is
\* saved.
Mended(p, w, D, A) ==
  /\ w.pc = "lens" \/ (p = "main" /\ w.pc \in {"post", "posting"}) => "inputData" \notin w.x.flaws
  /\ w.pc = "lens" => ~Inline(w.x)
  /\ w.pc \in {"insert", "load", "save", "saving"} => Ready(w.x)
  /\ w.pc = "insert" => D[NameIn(w.x)] # NoView
  /\ w.pc \in {"load", "save", "saving"} => NameIn(w.x) \in A

WorkInv ==
  /\ \A p \in Proc : task[p] \in Work => Mended(p, task[p], defs, Active)
  /\ \A n \in Active : defs[n] # NoView

Base == TypeInv /\ PhaseInv /\ WorkInv

\* A connection owes no more answers than queries were sent on it, and there is a query left
\* to send as long as the host is about to send one.
SentInv ==
  /\ owed \in 0..Queries
  /\ owed <= conn.k
  /\ conn.st = "cut" => owed = 0
  /\ conn.st = "ask" => conn.k < Queries

LEMMA Apart ==
  /\ Idle \notin Work /\ Gone \notin Work /\ Idle # Gone
  /\ Torn \notin Seq(Item)
  /\ "main" # "handler" /\ "main" \in Proc /\ "handler" \in Proc
<1>1. Idle \notin Work /\ Gone \notin Work /\ Idle # Gone
  BY DEF Idle, Gone, Work, Busy
<1>2. Torn \notin Seq(Item)
  <2> SUFFICES ASSUME Torn \in Seq(Item) PROVE FALSE
    OBVIOUS
  <2>1. 1 \in DOMAIN Torn /\ Torn[1].id = NoView
    BY DEF Torn
  <2>2. Torn[1] \in Item
    BY <2>1, ElementOfSeq, LenProperties
  <2> QED
    BY <2>1, <2>2, ViewFacts DEF Item
<1> QED
  BY <1>1, <1>2 DEF Proc

LEMMA BaseTypes == Base /\ SentInv => TypeOK
<1> SUFFICES ASSUME Base, SentInv PROVE TypeOK
  OBVIOUS
<1>1. file = Torn \/ \A x \in Range(file) : x.id \in View
  <2>1. ASSUME file \in Seq(Item) PROVE \A x \in Range(file) : x.id \in View
    <3>1. \A i \in DOMAIN file : file[i] \in Item
      BY <2>1, ByPosition
    <3> QED
      BY <3>1 DEF Range, Item
  <2> QED
    BY <2>1 DEF Base, TypeInv, ViewTypes
<1>2. \A n \in Active : active[n] \in View /\ defs[n] # NoView
  BY DEF Base, TypeInv, ViewTypes, WorkInv, Active
<1> QED
  BY <1>1, <1>2 DEF Base, SentInv, TypeInv, ViewTypes, HostTypes, SocketTypes, LoopTypes, PhaseInv,
                      TypeOK, HostPhase, ConnState, LoopPC

LEMMA BaseInit == Init => Base
<1> SUFFICES ASSUME Init PROVE Base
  OBVIOUS
<1>1. <<>> \in Seq(Item) /\ <<>> \in Seq(Msg) /\ Len(<<>>) = 0 /\ DOMAIN <<>> = {}
  BY EmptySeq
<1>2. active = Unset /\ Active = {} /\ Unset \in [Name -> View \cup {NoView}]
  BY DEF Init, ViewsInit, Active, Unset
<1>3. /\ task \in [Proc -> Work \cup {Idle, Gone}]
      /\ task["main"] = Idle /\ task["handler"] = Gone
  BY DEF Init, ViewsInit, Proc
<1>4. /\ conn \in [st : ConnState, k : Nat]
      /\ loop \in [pc : LoopPC, v : hub \cup {NoView}, try : Nat]
      /\ loop.pc = "off" /\ loop.v = NoView
  BY DEF Init, NoConn, Off, ConnState, LoopPC
<1>a. /\ file = <<>> /\ todo = <<>> /\ wire = <<>> /\ chan = <<>>
      /\ wasm \in [View -> {"absent", "torn", "whole"}] /\ defs = Unset
      /\ hub = {} /\ lost = {} /\ dropped = {} /\ urls = {} /\ refused = {}
      /\ phase = "down" /\ stopping = FALSE /\ closed = FALSE
  BY DEF Init, ViewsInit
<1>b. 0 <= Capacity
  BY ViewFacts
<1>5. TypeInv
  BY <1>1, <1>2, <1>3, <1>4, <1>a, <1>b, AnnouncedEmpty
     DEF TypeInv, ViewTypes, HostTypes, SocketTypes, LoopTypes, HostPhase
<1>6. PhaseInv
  BY <1>3, <1>4, <1>a DEF PhaseInv
<1>7. \A p \in Proc : task[p] \notin Work
  BY <1>3, Apart DEF Proc
<1> QED
  BY <1>2, <1>5, <1>6, <1>7 DEF Base, WorkInv

-----------------------------------------------------------------------------
(* What a step of a registration comes to.                                 *)

\* Goroutine p goes on with its view, or is done with it: the view, or one of its name, is
\* active or was refused.  Nothing that was active, defined or refused stops being so.
Result(p, b) ==
  /\ task' = [task EXCEPT ![p] = b]
  /\ file' \in Seq(Item) \cup {Torn}
  /\ wasm' \in [View -> {"absent", "torn", "whole"}]
  /\ defs' \in [Name -> View \cup {NoView}] /\ \A n \in Name : defs[n] # NoView => defs'[n] # NoView
  /\ active' \in [Name -> View \cup {NoView}] /\ Active \subseteq Active'
  /\ \A n \in Active' : defs'[n] # NoView
  /\ refused \subseteq refused' /\ refused' \subseteq View
  /\ \/ b \in Work /\ b.x.id = task[p].x.id /\ Mended(p, b, defs', Active')
     \/ b = Idle /\ NameIn(task[p].x) \in Active' \cup RefusedNames'

LEMMA RegisterFacts ==
  ASSUME Base, NEW p \in Proc, RegisterStep(p)
  PROVE  task[p] \in Work /\ \E b : Result(p, b)
<1> DEFINE a == task[p]
<1>1. a \in Work \cup {Idle, Gone} /\ task \in [Proc -> Work \cup {Idle, Gone}]
  BY DEF Base, TypeInv, ViewTypes
<1>2. a.pc \in Busy
  BY DEF RegisterStep, Check, Post, Posted, Configure, RegistrationFails, Insert, Load,
         Truncate, Saved, SaveFails, At, Busy
<1>3. a \in Work /\ Mended(p, a, defs, Active)
  BY <1>1, <1>2 DEF Idle, Gone, Busy, Base, WorkInv
<1>4. /\ a.x \in Item /\ a.pc \in Busy /\ a.read \in Seq(Item) /\ a.x.id \in View
      /\ NameIn(a.x) = NameOf[a.x.id] /\ NameIn(a.x) \in Name /\ <<>> \in Seq(Item)
  BY <1>3, ViewFacts, EmptySeq DEF Work, Item
<1>5. /\ file \in Seq(Item) \cup {Torn} /\ wasm \in [View -> {"absent", "torn", "whole"}]
      /\ defs \in [Name -> View \cup {NoView}] /\ active \in [Name -> View \cup {NoView}]
      /\ refused \subseteq View /\ \A n \in Active : defs[n] # NoView
  BY DEF Base, TypeInv, ViewTypes, WorkInv
<1> SUFFICES \E b : Result(p, b)
  BY <1>3
<1> HIDE DEF a
<1>6. ASSUME UNCHANGED active PROVE Active' = Active
  BY <1>6 DEF Active
<1>7. \A pc \in Busy, x \in Item : [pc |-> pc, x |-> x, read |-> <<>>] \in Work
  BY <1>4 DEF Work
<1>g. ASSUME GiveUp(p), UNCHANGED <<file, defs, active>>,
             wasm' \in [View -> {"absent", "torn", "whole"}]
      PROVE  \E b : Result(p, b)
  <2>1. task' = [task EXCEPT ![p] = Idle] /\ refused' = refused \cup {a.x.id}
    BY <1>g DEF GiveUp, a
  <2>2. NameIn(a.x) \in RefusedNames'
    BY <1>4, <2>1 DEF RefusedNames
  <2>3. Result(p, Idle)
    BY <1>4, <1>5, <1>6, <1>g, <2>1, <2>2 DEF Result, a
  <2> QED
    BY <2>3
<1>d. ASSUME task' = [task EXCEPT ![p] = Idle], a.pc \in {"load", "save", "saving"},
             UNCHANGED <<wasm, defs, active, refused>>, file' \in Seq(Item) \cup {Torn}
      PROVE  \E b : Result(p, b)
  <2>1. NameIn(a.x) \in Active'
    BY <1>3, <1>6, <1>d DEF Mended
  <2>2. Result(p, Idle)
    BY <1>5, <1>6, <1>d, <2>1 DEF Result, a
  <2> QED
    BY <2>2
<1>10. CASE Check(p)
  <2> DEFINE x == Mend(a.x, "inputData")
             b == [pc |-> IF Inline(x) THEN "post" ELSE "lens", x |-> x, read |-> <<>>]
  <2>1. x \in Item /\ x.id = a.x.id /\ "inputData" \notin x.flaws
    BY <1>4 DEF Mend, Item
  <2>2. UNCHANGED <<file, wasm, defs, active>>
    BY <1>10 DEF Check
  <2>3. CASE GiveUp(p)
    BY <1>5, <1>g, <2>2, <2>3
  <2>4. CASE Goto(p, IF Inline(x) THEN "post" ELSE "lens", x) /\ refused' = refused
    <3>1. task' = [task EXCEPT ![p] = b]
      BY <2>4 DEF Goto
    <3>2. b \in Work /\ b.x = x /\ ((b.pc = "lens" /\ ~Inline(x)) \/ b.pc = "post")
      BY <1>7, <2>1 DEF Busy
    <3> HIDE DEF x, b
    <3>3. Mended(p, b, defs', Active')
      BY <2>1, <3>2 DEF Mended
    <3>4. Result(p, b)
      BY <1>5, <1>6, <2>1, <2>2, <2>4, <3>1, <3>2, <3>3 DEF Result, a
    <3> QED
      BY <3>4
  <2> QED
    BY <1>10, <2>3, <2>4 DEF Check, a
<1>11. CASE Post(p)
  <2>1. UNCHANGED <<file, defs, active>> /\ a.pc = "post"
    BY <1>11 DEF Post, At, a
  <2>2. CASE GiveUp(p) /\ wasm' = wasm
    BY <1>5, <1>g, <2>1, <2>2
  <2>3. CASE /\ wasm' = [wasm EXCEPT ![a.x.id] = "torn"]
             /\ Goto(p, "posting", a.x) /\ refused' = refused
    <3> DEFINE b == [pc |-> "posting", x |-> a.x, read |-> <<>>]
    <3>1. task' = [task EXCEPT ![p] = b] /\ wasm' \in [View -> {"absent", "torn", "whole"}]
      BY <1>4, <1>5, <2>3 DEF Goto
    <3>2. b \in Work /\ b.x = a.x /\ b.pc = "posting"
      BY <1>4, <1>7 DEF Busy
    <3> HIDE DEF b
    <3>3. Mended(p, b, defs', Active')
      BY <1>3, <2>1, <3>2 DEF Mended
    <3>4. Result(p, b)
      BY <1>5, <1>6, <2>1, <2>3, <3>1, <3>2, <3>3 DEF Result, a
    <3> QED
      BY <3>4
  <2> QED
    BY <1>11, <2>2, <2>3 DEF Post, a
<1>12. CASE Posted(p)
  <2> DEFINE x == [a.x EXCEPT !.lens = "file"]
             b == [pc |-> IF p = "handler" THEN "check" ELSE "lens", x |-> x, read |-> <<>>]
  <2>1. x \in Item /\ x.id = a.x.id /\ x.flaws = a.x.flaws /\ x.lens = "file"
    BY <1>4 DEF Item, Lens
  <2>2. /\ UNCHANGED <<file, defs, active, refused>> /\ a.pc = "posting"
        /\ wasm' = [wasm EXCEPT ![x.id] = "whole"] /\ task' = [task EXCEPT ![p] = b]
    BY <1>12 DEF Posted, At, Goto, a
  <2>3. b \in Work /\ b.x = x /\ b.pc = IF p = "handler" THEN "check" ELSE "lens"
    BY <1>7, <2>1 DEF Busy
  <2> HIDE DEF x, b
  <2>4. wasm' \in [View -> {"absent", "torn", "whole"}]
    BY <1>4, <1>5, <2>1, <2>2
  <2>5. Mended(p, b, defs', Active')
    <3>1. CASE p = "handler"
      BY <2>3, <3>1 DEF Mended
    <3>2. CASE p = "main"
      BY <1>3, <2>1, <2>2, <2>3, <3>2 DEF Mended, Inline
    <3> QED
      BY <3>1, <3>2 DEF Proc
  <2>6. Result(p, b)
    BY <1>5, <1>6, <2>1, <2>2, <2>3, <2>4, <2>5 DEF Result, a
  <2> QED
    BY <2>6
<1>13. CASE Configure(p)
  <2> DEFINE x == Configured(a.x)
             n == NameIn(x)
             b == [pc |-> "insert", x |-> x, read |-> <<>>]
  <2>1. /\ x \in Item /\ x.id = a.x.id /\ x.lens = a.x.lens
        /\ x.flaws = (a.x.flaws \ {"bare"}) \ {"typo"}
    BY <1>4 DEF Configured, Mend, Item
  <2>2. UNCHANGED <<file, wasm, active>> /\ a.pc = "lens"
    BY <1>13 DEF Configure, At, a
  <2>3. CASE GiveUp(p) /\ defs' = defs
    BY <1>5, <1>g, <2>2, <2>3
  <2>4. CASE /\ "unknown" \notin x.flaws
             /\ defs' = [defs EXCEPT ![n] = IF @ = NoView THEN x.id ELSE @]
             /\ Goto(p, "insert", x) /\ refused' = refused
    <3>1. task' = [task EXCEPT ![p] = b] /\ b \in Work /\ b.x = x /\ b.pc = "insert"
      BY <1>7, <2>1, <2>4 DEF Goto, Busy
    <3>2. n \in Name /\ x.id \in View /\ x.id # NoView
      BY <1>4, <2>1, ViewFacts
    <3> HIDE DEF b, n
    <3>3. /\ defs' \in [Name -> View \cup {NoView}] /\ defs'[n] # NoView
          /\ \A m \in Name : defs[m] # NoView => defs'[m] # NoView
      BY <1>5, <2>4, <3>2
    <3>4. Ready(x)
      <4>1. "inputData" \notin a.x.flaws /\ ~Inline(a.x) /\ a.x.flaws \subseteq Flaw
        BY <1>3, <1>4, <2>2 DEF Mended, Item
      <4>2. x.flaws = {}
        BY <2>1, <2>4, <4>1 DEF Flaw
      <4> QED
        BY <2>1, <4>1, <4>2 DEF Ready, Inline
    <3>5. Mended(p, b, defs', Active')
      BY <3>1, <3>3, <3>4 DEF Mended, n
    <3>6. \A m \in Active' : defs'[m] # NoView
      BY <1>5, <1>6, <2>2, <3>3 DEF Active
    <3> HIDE DEF x
    <3>7. Result(p, b)
      BY <1>5, <1>6, <2>1, <2>2, <2>4, <3>1, <3>3, <3>5, <3>6 DEF Result, a
    <3> QED
      BY <3>7
  <2> QED
    BY <1>13, <2>3, <2>4 DEF Configure, a
<1>14. CASE RegistrationFails(p)
  BY <1>5, <1>14, <1>g DEF RegistrationFails
<1>15. CASE Insert(p)
  <2> DEFINE b == [pc |-> "load", x |-> a.x, read |-> <<>>]
             n == NameIn(a.x)
  <2>1. /\ UNCHANGED <<file, wasm, defs, refused>> /\ a.pc = "insert"
        /\ active' = [active EXCEPT ![n] = a.x.id] /\ task' = [task EXCEPT ![p] = b]
    BY <1>15 DEF Insert, At, Goto, a
  <2>2. b \in Work /\ b.x = a.x /\ b.pc = "load"
    BY <1>4, <1>7 DEF Busy
  <2>3. a.x.id # NoView /\ n \in Name /\ defs[n] # NoView /\ Ready(a.x)
    BY <1>3, <1>4, <2>1, ViewFacts DEF Mended
  <2>4. active' \in [Name -> View \cup {NoView}] /\ Active' = Active \cup {n}
    BY <1>4, <1>5, <2>1, <2>3 DEF Active
  <2> HIDE DEF b
  <2>5. Mended(p, b, defs', Active')
    BY <2>2, <2>3, <2>4 DEF Mended
  <2>6. \A m \in Active' : defs'[m] # NoView
    BY <1>5, <2>1, <2>3, <2>4
  <2>7. Result(p, b)
    BY <1>5, <2>1, <2>2, <2>4, <2>5, <2>6 DEF Result, a
  <2> QED
    BY <2>7
<1>16. CASE Load(p)
  <2>1. UNCHANGED <<file, wasm, defs, active, refused>> /\ a.pc = "load"
    BY <1>16 DEF Load, At, a
  <2>2. CASE file = Torn
    BY <1>5, <1>16, <1>d, <2>1, <2>2 DEF Load
  <2>3. CASE file # Torn
    <3> DEFINE b == [pc |-> "save", x |-> a.x, read |-> file]
    <3>1. task' = [task EXCEPT ![p] = b]
      BY <1>16, <2>3 DEF Load, a
    <3>2. b \in Work /\ b.x = a.x /\ b.pc = "save"
      BY <1>4, <1>5, <2>3 DEF Work, Busy
    <3> HIDE DEF b
    <3>3. Mended(p, b, defs', Active')
      BY <1>3, <1>6, <2>1, <3>2 DEF Mended
    <3>4. Result(p, b)
      BY <1>5, <1>6, <2>1, <3>1, <3>2, <3>3 DEF Result, a
    <3> QED
      BY <3>4
  <2> QED
    BY <2>2, <2>3
<1>17. CASE Truncate(p)
  <2> DEFINE b == [a EXCEPT !.pc = "saving"]
  <2>1. UNCHANGED <<wasm, defs, active, refused>> /\ a.pc = "save" /\ file' = Torn
    BY <1>17 DEF Truncate, At, a
  <2>2. task' = [task EXCEPT ![p] = b]
    BY <1>1, <1>17 DEF Truncate, a
  <2>3. b \in Work /\ b.x = a.x /\ b.pc = "saving"
    BY <1>3 DEF Work, Busy
  <2> HIDE DEF b
  <2>4. Mended(p, b, defs', Active')
    BY <1>3, <1>6, <2>1, <2>3 DEF Mended
  <2>5. Result(p, b)
    BY <1>5, <1>6, <2>1, <2>2, <2>3, <2>4 DEF Result, a
  <2> QED
    BY <2>5
<1>18. CASE Saved(p)
  <2>1. Upsert(a.read, a.x) \in Seq(Item)
    BY <1>4, UpsertFacts
  <2> QED
    BY <1>18, <1>d, <2>1 DEF Saved, At, a
<1>19. CASE SaveFails(p)
  BY <1>5, <1>19, <1>d DEF SaveFails, a
<1> QED
  BY <1>10, <1>11, <1>12, <1>13, <1>14, <1>15, <1>16, <1>17, <1>18, <1>19
     DEF RegisterStep, a

-----------------------------------------------------------------------------
(* The base invariant is inductive.                                        *)

\* A step that leaves the views alone, but for the WASM files.
LEMMA ViewsKept ==
  ASSUME Base, UNCHANGED <<file, defs, active, task, refused>>,
         wasm' \in [View -> {"absent", "torn", "whole"}]
  PROVE  ViewTypes' /\ WorkInv' /\ Active' = Active /\ RefusedNames' = RefusedNames
<1>1. Active' = Active /\ RefusedNames' = RefusedNames
  BY DEF Active, RefusedNames
<1>2. ViewTypes'
  BY DEF Base, TypeInv, ViewTypes
<1>3. WorkInv'
  BY <1>1 DEF Base, WorkInv
<1> QED
  BY <1>1, <1>2, <1>3

\* A goroutine ends with its view, or ends.
LEMMA TaskEnds ==
  ASSUME Base, NEW p \in Proc, NEW b \in {Idle, Gone}, task' = [task EXCEPT ![p] = b],
         UNCHANGED <<file, wasm, defs, active>>, refused' \subseteq View
  PROVE  /\ ViewTypes' /\ WorkInv' /\ Active' = Active
         /\ task'[p] = b /\ \A q \in Proc : q # p => task'[q] = task[q]
<1>1. Active' = Active /\ task \in [Proc -> Work \cup {Idle, Gone}]
  BY DEF Active, Base, TypeInv, ViewTypes
<1>2. ViewTypes' /\ task'[p] = b /\ \A q \in Proc : q # p => task'[q] = task[q]
  BY <1>1 DEF Base, TypeInv, ViewTypes
<1>3. b \notin Work
  BY Apart
<1>4. WorkInv'
  BY <1>1, <1>2, <1>3 DEF Base, WorkInv
<1> QED
  BY <1>1, <1>2, <1>4

\* A goroutine begins with a view.
LEMMA TaskBegins ==
  ASSUME Base, NEW p \in Proc, NEW x \in Item, Begin(p, x),
         UNCHANGED <<file, wasm, defs, active, refused>>
  PROVE  /\ ViewTypes' /\ WorkInv' /\ Active' = Active /\ RefusedNames' = RefusedNames
         /\ task'[p] \in Work /\ task'[p].x = x /\ \A q \in Proc : q # p => task'[q] = task[q]
<1> DEFINE b == [pc |-> IF p = "handler" /\ Inline(x) THEN "post" ELSE "check",
                 x |-> x, read |-> <<>>]
<1>1. /\ Active' = Active /\ RefusedNames' = RefusedNames
      /\ task \in [Proc -> Work \cup {Idle, Gone}] /\ task' = [task EXCEPT ![p] = b]
  BY DEF Active, RefusedNames, Base, TypeInv, ViewTypes, Begin, Goto
<1>2. b \in Work /\ b.x = x /\ (b.pc = "check" \/ (b.pc = "post" /\ p = "handler"))
  BY EmptySeq DEF Work, Busy
<1> HIDE DEF b
<1>3. Mended(p, b, defs', Active')
  BY <1>2, Apart DEF Mended
<1>4. ViewTypes' /\ task'[p] = b /\ \A q \in Proc : q # p => task'[q] = task[q]
  BY <1>1, <1>2 DEF Base, TypeInv, ViewTypes
<1>5. WorkInv'
  BY <1>1, <1>3, <1>4 DEF Base, WorkInv
<1> QED
  BY <1>1, <1>2, <1>4, <1>5

LEMMA TopFacts ==
  ASSUME Top
  PROVE  /\ loop'.pc \in {"read", "dead"} /\ loop'.v = NoView
         /\ \A S : loop' \in [pc : LoopPC, v : S \cup {NoView}, try : Nat]
BY DEF Top, Dead, Off, LoopPC

\* The process ends.
LEMMA VanishFacts ==
  ASSUME Base, Vanish
  PROVE  Base'
<1>1. /\ phase' = "down" /\ todo' = <<>> /\ urls' = {} /\ wire' = <<>> /\ chan' = <<>>
      /\ conn' = NoConn /\ loop' = Off /\ stopping' = FALSE
      /\ active' = Unset /\ refused' = {} /\ task' = [main |-> Idle, handler |-> Gone]
      /\ lost' = hub /\ dropped' = {} /\ UNCHANGED <<file, wasm, defs, hub>>
  BY DEF Vanish
<1>2. <<>> \in Seq(Item) /\ <<>> \in Seq(Msg) /\ Len(<<>>) = 0 /\ DOMAIN <<>> = {}
  BY EmptySeq
<1>3. active' \in [Name -> View \cup {NoView}] /\ Active' = {}
  BY <1>1 DEF Active, Unset
<1>4. /\ task' \in [Proc -> Work \cup {Idle, Gone}]
      /\ task'["main"] = Idle /\ task'["handler"] = Gone
  BY <1>1 DEF Proc
<1>5. /\ conn' \in [st : ConnState, k : Nat]
      /\ loop' \in [pc : LoopPC, v : hub' \cup {NoView}, try : Nat]
      /\ loop'.pc = "off" /\ loop'.v = NoView
  BY <1>1 DEF NoConn, Off, ConnState, LoopPC
<1>6. 0 <= Capacity
  BY ViewFacts
<1>7. ViewTypes'
  BY <1>1, <1>3, <1>4 DEF ViewTypes, Base, TypeInv
<1>8. HostTypes'
  BY <1>1, <1>2 DEF HostTypes, Base, TypeInv, HostPhase
<1>9. SocketTypes' /\ LoopTypes'
  BY <1>1, <1>2, <1>5, <1>6, AnnouncedEmpty DEF SocketTypes, LoopTypes
<1>10. PhaseInv'
  BY <1>1, <1>4, <1>5 DEF PhaseInv
<1>11. \A p \in Proc : task'[p] \notin Work
  BY <1>4, Apart DEF Proc
<1>12. WorkInv'
  BY <1>3, <1>11 DEF WorkInv
<1> QED
  BY <1>7, <1>8, <1>9, <1>10, <1>12 DEF Base, TypeInv

\* The hub registers a view, the host starts, and main goes through its phases.
LEMMA MainBase ==
  ASSUME Base, (\E v \in View : HubRegisters(v)) \/ Start \/ MainStep
  PROVE  Base'
<1> USE DEF startVars, socketVars, loopVars, viewVars, viewRest
<1>0. /\ ViewTypes /\ HostTypes /\ SocketTypes /\ LoopTypes /\ PhaseInv
      /\ wasm \in [View -> {"absent", "torn", "whole"}]
  BY DEF Base, TypeInv, ViewTypes
<1>1. ASSUME NEW v \in View, HubRegisters(v) PROVE Base'
  <2>1. /\ UNCHANGED <<viewVars, startVars, conn, loopVars, stopping, dropped>>
        /\ hub' = hub \cup {v}
        /\ \/ wire' = Append(wire, v) /\ lost' = lost
           \/ wire' = wire /\ lost' = lost \cup {v}
    BY <1>1 DEF HubRegisters
  <2>2. ViewTypes' /\ WorkInv'
    BY <1>0, <2>1, ViewsKept
  <2>3. HostTypes' /\ PhaseInv'
    BY <1>0, <2>1 DEF HostTypes, PhaseInv
  <2>4. LoopTypes'
    BY <1>0, <2>1 DEF LoopTypes, Announced
  <2>5. SocketTypes'
    <3>1. CASE wire' = wire
      BY <1>0, <2>1, <3>1 DEF SocketTypes, Announced
    <3>2. CASE wire' = Append(wire, v)
      <4>1. wire' \in Seq(Msg) /\ Announced(wire') = Announced(wire) \cup ({v} \cap View)
        BY <1>0, <3>2, AnnouncedAppend DEF SocketTypes, Msg
      <4> QED
        BY <1>0, <2>1, <4>1 DEF SocketTypes
    <3> QED
      BY <2>1, <3>1, <3>2
  <2> QED
    BY <2>2, <2>3, <2>4, <2>5 DEF Base, TypeInv
\* What is left for the steps that leave the hub, the socket and the loop alone.
<1>2. ASSUME UNCHANGED <<hub, conn, wire, loop, chan>> PROVE SocketTypes' /\ LoopTypes'
  BY <1>0, <1>2 DEF SocketTypes, LoopTypes, Announced
<1>3. CASE Start
  <2>1. ViewTypes' /\ WorkInv'
    BY <1>0, <1>3, ViewsKept DEF Start
  <2>2. HostTypes' /\ PhaseInv' /\ SocketTypes' /\ LoopTypes'
    BY <1>0, <1>2, <1>3 DEF Start, HostTypes, HostPhase, PhaseInv
  <2> QED
    BY <2>1, <2>2 DEF Base, TypeInv
<1>4. CASE FetchPage
  <2>1. PICK views \in DecodeLCDViews(Page) : todo' = todo \o views
    BY <1>4 DEF FetchPage
  <2>2. Page \subseteq hub /\ Page \in SUBSET View
    BY <1>0 DEF Page, HostTypes
  <2>3. todo' \in Seq(Item)
    BY <1>0, <2>1, <2>2, DecodeFacts, NamesConcat DEF HostTypes
  <2>4. /\ lost' = lost \ Page /\ dropped' = dropped \cup {v \in Page : ~Decodes(v)}
        /\ phase = "fetch" /\ phase' \in {"fetch", "local"}
        /\ UNCHANGED <<viewVars, hub, urls, socketVars, loopVars, stopping>>
    BY <1>4 DEF FetchPage
  <2>5. ViewTypes' /\ WorkInv'
    BY <1>0, <2>4, ViewsKept
  <2> HIDE DEF viewVars
  <2>6. HostTypes'
    BY <1>0, <2>2, <2>3, <2>4 DEF HostTypes, HostPhase
  <2>7. PhaseInv'
    BY <1>0, <2>4 DEF PhaseInv, viewVars
  <2> QED
    BY <1>2, <2>4, <2>5, <2>6, <2>7 DEF Base, TypeInv
<1>5. CASE FetchFails
  <2>1. ViewTypes' /\ WorkInv'
    BY <1>0, <1>5, ViewsKept DEF FetchFails
  <2>2. HostTypes' /\ PhaseInv' /\ SocketTypes' /\ LoopTypes'
    BY <1>0, <1>2, <1>5 DEF FetchFails, HostTypes, HostPhase, PhaseInv
  <2> QED
    BY <2>1, <2>2 DEF Base, TypeInv
<1>6. CASE LoadLocal
  <2>1. /\ phase = "local" /\ phase' = "wasm"
        /\ todo' \in Deduplicate(todo \o LocalViews)
        /\ urls' = {x.id : x \in {y \in Range(todo') : y.lens = "http"}}
        /\ UNCHANGED <<viewVars, hub, socketVars, loopVars, stopping, lost, dropped>>
    BY <1>6 DEF LoadLocal
  <2>2. LocalViews \in Seq(Item)
    BY <1>0, EmptySeq DEF LocalViews, ViewTypes
  <2>3. todo' \in Seq(Item)
    BY <1>0, <2>1, <2>2, DeduplicateFacts, NamesConcat DEF HostTypes
  <2>4. urls' \subseteq View
    <3>1. \A i \in DOMAIN todo' : todo'[i] \in Item
      BY <2>3, ByPosition
    <3>2. Range(todo') \subseteq Item
      BY <3>1 DEF Range
    <3> QED
      BY <2>1, <3>2 DEF Item
  <2>5. ViewTypes' /\ WorkInv'
    BY <1>0, <2>1, ViewsKept
  <2>6. HostTypes' /\ PhaseInv'
    BY <1>0, <2>1, <2>3, <2>4 DEF HostTypes, HostPhase, PhaseInv
  <2> QED
    BY <1>2, <2>1, <2>5, <2>6 DEF Base, TypeInv
<1>7. ASSUME NEW v \in View, EnsureWASM(v) PROVE Base'
  <2>1. /\ phase = "wasm" /\ urls' = urls \ {v}
        /\ wasm' = [wasm EXCEPT ![v] = "whole"] \/ wasm' = wasm
        /\ UNCHANGED <<file, defs, active, task, refused, hub, phase, todo, socketVars,
                       loopVars, stopping, lost, dropped>>
    BY <1>7 DEF EnsureWASM
  <2>2. wasm' \in [View -> {"absent", "torn", "whole"}]
    BY <1>0, <2>1
  <2>3. ViewTypes' /\ WorkInv'
    BY <2>1, <2>2, ViewsKept
  <2>4. HostTypes' /\ PhaseInv'
    BY <1>0, <2>1 DEF HostTypes, PhaseInv
  <2> QED
    BY <1>2, <2>1, <2>3, <2>4 DEF Base, TypeInv
<1>8. CASE Ensured
  <2>1. ViewTypes' /\ WorkInv'
    BY <1>0, <1>8, ViewsKept DEF Ensured
  <2>2. HostTypes' /\ PhaseInv' /\ SocketTypes' /\ LoopTypes'
    BY <1>0, <1>2, <1>8 DEF Ensured, HostTypes, HostPhase, PhaseInv
  <2> QED
    BY <2>1, <2>2 DEF Base, TypeInv
<1>9. CASE LoadNext
  <2>1. /\ phase = "register" /\ todo # <<>> /\ todo' = Tail(todo)
        /\ Begin("main", Head(todo))
        /\ UNCHANGED <<file, wasm, defs, active, refused, hub, phase, urls, socketVars,
                       loopVars, stopping, lost, dropped>>
    BY <1>9 DEF LoadNext
  <2>2. Head(todo) \in Item /\ todo' \in Seq(Item)
    BY <1>0, <2>1, NamesTail DEF HostTypes
  <2>3. ViewTypes' /\ WorkInv' /\ task'["handler"] = task["handler"]
    BY <2>1, <2>2, TaskBegins, Apart
  <2>4. HostTypes' /\ PhaseInv'
    BY <1>0, <2>1, <2>2, <2>3 DEF HostTypes, PhaseInv
  <2> QED
    BY <1>2, <2>1, <2>3, <2>4 DEF Base, TypeInv
<1>10. CASE Loaded
  <2>1. /\ phase = "register" /\ todo = <<>> /\ At("main", "idle") /\ phase' = "dial"
        /\ UNCHANGED <<viewVars, hub, todo, urls, socketVars, loopVars, stopping, lost, dropped>>
    BY <1>10 DEF Loaded
  <2>2. task["main"] = Idle
    <3>1. task["main"] \in Work \cup {Idle, Gone}
      BY <1>0, Apart DEF ViewTypes
    <3> QED
      BY <2>1, <3>1 DEF At, Work, Busy, Gone
  <2>3. ViewTypes' /\ WorkInv'
    BY <1>0, <2>1, ViewsKept
  <2>4. HostTypes' /\ PhaseInv'
    BY <1>0, <2>1, <2>2 DEF HostTypes, HostPhase, PhaseInv
  <2> QED
    BY <1>2, <2>1, <2>3, <2>4 DEF Base, TypeInv
<1> QED
  BY <1>1, <1>3, <1>4, <1>5, <1>6, <1>7, <1>8, <1>9, <1>10 DEF MainStep

\* A step of a registration.
LEMMA RegisterBase ==
  ASSUME Base, NEW p \in Proc, RegisterStepOf(p)
  PROVE  Base'
<1> USE DEF startVars, socketVars, loopVars
<1>0. ViewTypes /\ HostTypes /\ SocketTypes /\ LoopTypes /\ PhaseInv /\ WorkInv
  BY DEF Base, TypeInv
<1>1. /\ RegisterStep(p)
      /\ UNCHANGED <<hub, phase, todo, urls, conn, wire, loop, chan, stopping, lost, dropped>>
  BY DEF RegisterStepOf
<1>2. PICK b : Result(p, b)
  BY <1>1, RegisterFacts
<1>3. task[p] \in Work /\ task' = [task EXCEPT ![p] = b] /\ b \in Work \cup {Idle}
  BY <1>1, <1>2, RegisterFacts DEF Result
<1>4. /\ task'[p] = b /\ \A q \in Proc : q # p => task'[q] = task[q]
      /\ task' \in [Proc -> Work \cup {Idle, Gone}]
  BY <1>0, <1>3 DEF ViewTypes
<1>5. ViewTypes'
  BY <1>2, <1>4 DEF Result, ViewTypes
<1>6. HostTypes' /\ SocketTypes' /\ LoopTypes'
  BY <1>0, <1>1 DEF HostTypes, SocketTypes, LoopTypes, Announced
<1>7. PhaseInv'
  <2>1. (p = "main" => phase = "register") /\ (p = "handler" => phase = "running")
    BY <1>0, <1>3, Apart DEF PhaseInv
  <2>2. p = "main" \/ p = "handler"
    BY DEF Proc
  <2> QED
    BY <1>0, <1>1, <1>4, <2>1, <2>2, Apart DEF PhaseInv
<1>8. WorkInv'
  <2>1. ASSUME NEW q \in Proc, task'[q] \in Work PROVE Mended(q, task'[q], defs', Active')
    <3>1. CASE q = p
      BY <1>2, <1>4, <2>1, <3>1, Apart DEF Result
    <3>2. CASE q # p
      <4> DEFINE w == task[q]
      <4>1. w \in Work /\ Mended(q, w, defs, Active) /\ task'[q] = w
        BY <1>0, <1>4, <2>1, <3>2 DEF WorkInv
      <4>2. NameIn(w.x) \in Name
        BY <4>1, ViewFacts DEF Work
      <4> HIDE DEF w
      <4>3. /\ Active \subseteq Active'
            /\ \A n \in Name : defs[n] # NoView => defs'[n] # NoView
        BY <1>2 DEF Result
      <4> QED
        BY <4>1, <4>2, <4>3 DEF Mended
    <3> QED
      BY <3>1, <3>2
  <2> QED
    BY <1>2, <2>1 DEF Result, WorkInv
<1> QED
  BY <1>5, <1>6, <1>7, <1>8 DEF Base, TypeInv

\* The socket and the event loop.
LEMMA LoopBase ==
  ASSUME Base, HubAnswers \/ DialFails \/ Breaks \/ Expires \/ Pong \/ LoopStep
  PROVE  Base'
<1> USE DEF startVars, socketVars, loopVars, viewVars, viewRest
<1>0. /\ ViewTypes /\ HostTypes /\ SocketTypes /\ LoopTypes /\ PhaseInv
      /\ wasm \in [View -> {"absent", "torn", "whole"}]
  BY DEF Base, TypeInv, ViewTypes
<1>e. <<>> \in Seq(Msg) /\ Announced(<<>>) = {} /\ Answer \in Msg
  BY EmptySeq, AnnouncedEmpty DEF Msg
<1>a. Announced(Append(wire, Answer)) = Announced(wire) /\ Append(wire, Answer) \in Seq(Msg)
  <2>1. wire \in Seq(Msg) /\ {Answer} \cap View = {}
    BY <1>0, ViewFacts DEF SocketTypes
  <2>2. /\ Append(wire, Answer) \in Seq(Msg)
        /\ Announced(Append(wire, Answer)) = Announced(wire) \cup ({Answer} \cap View)
    BY <1>e, <2>1, AnnouncedAppend
  <2> QED
    BY <2>1, <2>2
<1>t. ASSUME wire # <<>>
      PROVE  /\ Head(wire) \in Msg /\ Tail(wire) \in Seq(Msg)
             /\ Announced(wire) = ({Head(wire)} \cap View) \cup Announced(Tail(wire))
  BY <1>0, <1>t, AnnouncedTail DEF SocketTypes
\* The views are left alone, and what is left to show.
<1>v. ASSUME UNCHANGED <<file, wasm, defs, active, task, refused>>, HostTypes', SocketTypes',
             LoopTypes', PhaseInv'
      PROVE  Base'
  BY <1>0, <1>v, ViewsKept DEF Base, TypeInv
<1>h. ASSUME UNCHANGED <<hub, urls, phase, todo>>, lost' \subseteq hub, dropped' \subseteq hub
      PROVE  HostTypes'
  BY <1>0, <1>h DEF HostTypes
<1>s. ASSUME UNCHANGED <<hub, conn, wire>> PROVE SocketTypes'
  BY <1>0, <1>s DEF SocketTypes, Announced
<1>l. ASSUME UNCHANGED <<hub, chan>>, loop' \in [pc : LoopPC, v : hub \cup {NoView}, try : Nat]
      PROVE  LoopTypes'
  BY <1>0, <1>l DEF LoopTypes, Announced
<1>p. ASSUME UNCHANGED <<task, phase, todo, stopping>>, phase = "running" \/ loop' = loop,
             loop'.pc \in {"hydrate", "send"} <=> loop'.v # NoView
      PROVE  PhaseInv'
  BY <1>0, <1>p DEF PhaseInv
<1>r. loop.pc # "off" => phase = "running"
  BY <1>0 DEF PhaseInv
<1>k. /\ loop \in [pc : LoopPC, v : hub \cup {NoView}, try : Nat]
      /\ loop.pc \in {"hydrate", "send"} <=> loop.v # NoView
      /\ conn \in [st : ConnState, k : Nat]
      /\ lost \subseteq hub /\ dropped \subseteq hub /\ hub \subseteq View
  BY <1>0 DEF LoopTypes, PhaseInv, SocketTypes, HostTypes
<1>1. CASE Breaks
  <2>1. /\ UNCHANGED <<viewRest, hub, startVars, loopVars, stopping, dropped>>
        /\ conn' = [conn EXCEPT !.st = "cut"] /\ wire' = <<>>
        /\ lost' = lost \cup Announced(wire)
    BY <1>1 DEF Breaks
  <2>2. SocketTypes'
    BY <1>0, <1>e, <2>1 DEF SocketTypes, ConnState
  <2>3. HostTypes' /\ LoopTypes' /\ PhaseInv'
    BY <1>0, <1>h, <1>l, <1>p, <1>k, <2>1 DEF SocketTypes
  <2> QED
    BY <1>v, <2>1, <2>2, <2>3
<1>2. CASE Expires
  <2>1. /\ UNCHANGED <<viewRest, hub, startVars, wire, loopVars, stopping, lost, dropped>>
        /\ conn' = [st |-> "expired", k |-> 0]
    BY <1>2 DEF Expires
  <2>2. SocketTypes'
    BY <1>0, <2>1 DEF SocketTypes, ConnState, Announced
  <2>3. HostTypes' /\ LoopTypes' /\ PhaseInv'
    BY <1>h, <1>l, <1>p, <1>k, <2>1
  <2> QED
    BY <1>v, <2>1, <2>2, <2>3
<1>3. CASE Pong
  <2>1. /\ UNCHANGED <<viewVars, hub, startVars, conn, loopVars, stopping, lost, dropped>>
        /\ wire' = <<Answer>>
    BY <1>3 DEF Pong
  <2>2. wire' \in Seq(Msg) /\ Announced(wire') = {}
    BY <1>e, <2>1, AnnouncedOne, ViewFacts
  <2>3. SocketTypes'
    BY <1>0, <2>1, <2>2 DEF SocketTypes
  <2>4. HostTypes' /\ LoopTypes' /\ PhaseInv'
    BY <1>h, <1>l, <1>p, <1>k, <2>1
  <2> QED
    BY <1>v, <2>1, <2>3, <2>4
<1>4. CASE Dial
  <2>1. /\ UNCHANGED <<viewVars, hub, startVars, wire, loopVars, stopping, lost, dropped>>
        /\ conn' = [st |-> "ask", k |-> 0]
    BY <1>4 DEF Dial
  <2>2. SocketTypes'
    BY <1>0, <2>1 DEF SocketTypes, ConnState, Announced
  <2>3. HostTypes' /\ LoopTypes' /\ PhaseInv'
    BY <1>h, <1>l, <1>p, <1>k, <2>1
  <2> QED
    BY <1>v, <2>1, <2>2, <2>3
<1>5. CASE Ask
  <2>1. /\ UNCHANGED <<viewVars, hub, startVars, loopVars, stopping, lost, dropped>>
        /\ conn' = [st |-> "reply", k |-> conn.k + 1] /\ wire' = wire
    BY <1>5 DEF Ask
  <2>2. SocketTypes'
    BY <1>0, <2>1 DEF SocketTypes, ConnState, Announced
  <2>3. HostTypes' /\ LoopTypes' /\ PhaseInv'
    BY <1>h, <1>l, <1>p, <1>k, <2>1
  <2> QED
    BY <1>v, <2>1, <2>2, <2>3
<1>6. CASE Reply
  <2>1. /\ Dialing /\ wire # <<>> /\ wire' = Tail(wire)
        /\ lost' = lost \cup Announced(<<Head(wire)>>)
        /\ UNCHANGED <<file, wasm, defs, active, refused, hub, todo, urls, chan, stopping, dropped>>
    BY <1>6 DEF Reply
  <2>2. conn' = [conn EXCEPT !.st = "ask"] \/ conn' = [conn EXCEPT !.st = "up"]
    BY <1>6 DEF Reply
  <2>3. Announced(<<Head(wire)>>) \subseteq Announced(wire) /\ Announced(wire') \subseteq Announced(wire)
    BY <1>t, <2>1, AnnouncedOne
  <2>4. SocketTypes'
    BY <1>0, <1>t, <2>1, <2>2, <2>3 DEF SocketTypes, ConnState
  <2>5. lost' \subseteq hub
    BY <1>0, <1>k, <2>1, <2>3 DEF SocketTypes
  <2>6. CASE UNCHANGED <<loop, phase, task>>
    <3>1. HostTypes' /\ LoopTypes' /\ PhaseInv'
      BY <1>h, <1>l, <1>p, <1>k, <2>1, <2>5, <2>6
    <3> QED
      BY <1>v, <2>1, <2>4, <2>6, <3>1
  <2>7. CASE /\ Top /\ phase' = "running"
             /\ task' = IF phase = "dial" THEN [task EXCEPT !.handler = Idle] ELSE task
    <3>1. phase \in {"dial", "running"} /\ todo' = <<>>
      BY <1>0, <1>r, <2>1 DEF Dialing, PhaseInv
    <3>2. HostTypes'
      BY <1>0, <1>k, <2>1, <2>5, <2>7 DEF HostTypes, HostPhase
    <3>3. LoopTypes'
      BY <1>l, <2>1, <2>7, TopFacts
    <3>4. ViewTypes' /\ WorkInv' /\ task'["main"] = task["main"]
      <4>1. CASE task' = task
        BY <1>0, <2>1, <4>1, ViewsKept
      <4>2. CASE task' = [task EXCEPT !["handler"] = Idle]
        BY <1>0, <2>1, <4>2, TaskEnds, Apart DEF ViewTypes
      <4> QED
        BY <2>7, <4>1, <4>2
    <3>5. PhaseInv'
      <4>1. task["main"] = Idle
        BY <1>0, <3>1 DEF PhaseInv
      <4>2. loop'.pc \in {"read", "dead"} /\ loop'.v = NoView
        BY <2>7, TopFacts
      <4> QED
        BY <2>7, <3>1, <3>4, <4>1, <4>2 DEF PhaseInv
    <3> QED
      BY <2>4, <3>2, <3>3, <3>4, <3>5 DEF Base, TypeInv
  <2> QED
    BY <1>6, <2>6, <2>7 DEF Reply
<1>7. CASE DialFails
  <2>1. CASE phase = "dial"
    BY <1>7, <2>1, VanishFacts DEF DialFails
  <2>2. CASE phase # "dial"
    <3>1. /\ loop.pc = "dialing" /\ conn' = NoConn /\ wire' = <<>>
          /\ lost' = lost \cup Announced(wire) /\ loop' = [Off EXCEPT !.pc = "backoff"]
          /\ UNCHANGED <<viewRest, hub, startVars, chan, stopping, dropped>>
      BY <1>7, <2>2 DEF DialFails, Dialing
    <3>2. SocketTypes'
      BY <1>e, <3>1 DEF SocketTypes, ConnState, NoConn
    <3>3. loop' \in [pc : LoopPC, v : hub \cup {NoView}, try : Nat] /\ loop'.v = NoView
          /\ loop'.pc = "backoff"
      BY <3>1 DEF Off, LoopPC
    <3>4. HostTypes' /\ LoopTypes' /\ PhaseInv'
      BY <1>0, <1>h, <1>l, <1>p, <1>k, <1>r, <3>1, <3>3 DEF SocketTypes
    <3> QED
      BY <1>v, <3>1, <3>2, <3>4
  <2> QED
    BY <2>1, <2>2
<1>8. CASE Read
  <2>1. /\ loop.pc = "read" /\ wire # <<>> /\ wire' = Tail(wire)
        /\ UNCHANGED <<viewVars, hub, startVars, conn, chan, stopping, lost, dropped>>
    BY <1>8 DEF Read
  <2>2. SocketTypes'
    BY <1>0, <1>t, <2>1 DEF SocketTypes
  <2>3. /\ loop' \in [pc : LoopPC, v : hub \cup {NoView}, try : Nat]
        /\ loop'.pc \in {"hydrate", "send"} <=> loop'.v # NoView
    <3>1. CASE Top
      BY <3>1, TopFacts
    <3>2. CASE Head(wire) # Answer /\ loop' = [pc |-> "hydrate", v |-> Head(wire), try |-> 1]
      <4>1. Head(wire) \in hub /\ Head(wire) # NoView
        BY <1>0, <1>t, <1>k, <2>1, <3>2, ViewFacts DEF Msg, SocketTypes
      <4> QED
        BY <3>2, <4>1 DEF LoopPC
    <3> QED
      BY <1>8, <3>1, <3>2 DEF Read
  <2>4. HostTypes' /\ LoopTypes' /\ PhaseInv'
    BY <1>h, <1>l, <1>p, <1>k, <1>r, <2>1, <2>3
  <2> QED
    BY <1>v, <2>1, <2>2, <2>4
<1>9. CASE Hydrate \/ HydrateFails
  <2>1. /\ loop.pc = "hydrate"
        /\ dropped' = dropped \/ dropped' = dropped \cup {loop.v}
        /\ UNCHANGED <<viewRest, hub, startVars, socketVars, chan, stopping, lost>>
        /\ \/ loop' = [loop EXCEPT !.pc = "send"] /\ dropped' = dropped
           \/ loop' = [loop EXCEPT !.try = @ + 1] /\ dropped' = dropped
           \/ Top
    BY <1>9 DEF Hydrate, HydrateFails
  <2>2. /\ loop' \in [pc : LoopPC, v : hub \cup {NoView}, try : Nat]
        /\ loop'.pc \in {"hydrate", "send"} <=> loop'.v # NoView
    <3>1. CASE Top
      BY <3>1, TopFacts
    <3>2. CASE loop' = [loop EXCEPT !.pc = "send"] \/ loop' = [loop EXCEPT !.try = @ + 1]
      BY <1>k, <2>1, <3>2 DEF LoopPC
    <3> QED
      BY <2>1, <3>1, <3>2
  <2>3. LoopTypes' /\ PhaseInv' /\ SocketTypes'
    BY <1>l, <1>p, <1>r, <1>s, <2>1, <2>2
  <2>4. HostTypes'
    BY <1>h, <1>k, <2>1
  <2> QED
    BY <1>v, <2>1, <2>3, <2>4
<1>10. CASE Send
  <2>1. /\ loop.pc = "send"
        /\ UNCHANGED <<viewVars, hub, startVars, socketVars, stopping, lost, dropped>>
        /\ \/ Len(chan) < Capacity /\ chan' = Append(chan, loop.v) /\ Top
           \/ stopping /\ loop' = Dead /\ chan' = chan
    BY <1>10 DEF Send
  <2>2. /\ loop' \in [pc : LoopPC, v : hub \cup {NoView}, try : Nat]
        /\ loop'.pc \in {"read", "dead"} /\ loop'.v = NoView
    BY <2>1, TopFacts DEF Dead, LoopPC
  <2>3. LoopTypes'
    <3>1. CASE chan' = chan
      BY <1>l, <2>1, <2>2, <3>1
    <3>2. CASE chan' = Append(chan, loop.v) /\ Len(chan) < Capacity
      <4>1. loop.v \in hub /\ loop.v \in View /\ loop.v \in Msg /\ chan \in Seq(Msg)
        BY <1>0, <1>k, <2>1 DEF Msg, LoopTypes
      <4>2. chan' \in Seq(Msg) /\ Announced(chan') = Announced(chan) \cup ({loop.v} \cap View)
        BY <3>2, <4>1, AnnouncedAppend
      <4>3. /\ Len(chan') = Len(chan) + 1 /\ Len(chan) \in Nat
            /\ DOMAIN chan = 1..Len(chan) /\ DOMAIN chan' = 1..Len(chan) + 1
            /\ chan'[Len(chan) + 1] = loop.v /\ \A i \in 1..Len(chan) : chan'[i] = chan[i]
        BY <3>2, <4>1, AppendProperties, LenProperties
      <4>4. Len(chan') <= Capacity
        BY <3>2, <4>3, ViewFacts
      <4>5. ASSUME NEW i \in DOMAIN chan' PROVE chan'[i] \in View
        <5>1. i = Len(chan) + 1 \/ (i \in DOMAIN chan /\ i \in 1..Len(chan))
          BY <4>3
        <5> QED
          BY <1>0, <4>1, <4>3, <5>1 DEF LoopTypes
      <4> QED
        BY <1>0, <2>1, <2>2, <4>1, <4>2, <4>4, <4>5 DEF LoopTypes
    <3> QED
      BY <2>1, <3>1, <3>2
  <2>4. HostTypes' /\ PhaseInv' /\ SocketTypes'
    BY <1>h, <1>k, <1>p, <1>r, <1>s, <2>1, <2>2
  <2> QED
    BY <1>v, <2>1, <2>3, <2>4
<1>11. CASE LoopStops \/ Redial
  <2>1. /\ loop.pc \in {"read", "backoff"} /\ (loop' = Dead \/ loop' = [Off EXCEPT !.pc = "dialing"])
        /\ UNCHANGED <<viewVars, hub, startVars, socketVars, chan, stopping, lost, dropped>>
    BY <1>11 DEF LoopStops, Redial
  <2>2. /\ loop' \in [pc : LoopPC, v : hub \cup {NoView}, try : Nat]
        /\ loop'.pc \in {"dead", "dialing"} /\ loop'.v = NoView
    BY <2>1 DEF Dead, Off, LoopPC
  <2>3. HostTypes' /\ PhaseInv' /\ SocketTypes' /\ LoopTypes'
    BY <1>h, <1>k, <1>l, <1>p, <1>r, <1>s, <2>1, <2>2
  <2> QED
    BY <1>v, <2>1, <2>3
<1>12. CASE ReadFails
  <2>1. /\ loop.pc = "read" /\ conn' = NoConn /\ loop' = [Off EXCEPT !.pc = "backoff"]
        /\ UNCHANGED <<viewVars, hub, startVars, wire, chan, stopping, lost, dropped>>
    BY <1>12 DEF ReadFails
  <2>2. /\ loop' \in [pc : LoopPC, v : hub \cup {NoView}, try : Nat]
        /\ loop'.pc = "backoff" /\ loop'.v = NoView
    BY <2>1 DEF Off, LoopPC
  <2>3. SocketTypes'
    BY <1>0, <2>1 DEF SocketTypes, ConnState, NoConn, Announced
  <2>4. HostTypes' /\ PhaseInv' /\ LoopTypes'
    BY <1>h, <1>k, <1>l, <1>p, <1>r, <2>1, <2>2
  <2> QED
    BY <1>v, <2>1, <2>3, <2>4
<1>13. CASE ReadAgain
  <2>1. /\ loop.pc = "read" /\ conn' = [conn EXCEPT !.k = @ + 1] /\ (loop' = loop \/ loop' = Dead)
        /\ UNCHANGED <<viewVars, hub, startVars, wire, chan, stopping, lost, dropped>>
    BY <1>13 DEF ReadAgain
  <2>2. /\ loop' \in [pc : LoopPC, v : hub \cup {NoView}, try : Nat]
        /\ loop'.pc \in {"read", "dead"} /\ loop'.v = NoView
    BY <1>k, <2>1 DEF Dead, LoopPC
  <2>3. SocketTypes'
    BY <1>0, <2>1 DEF SocketTypes, Announced
  <2>4. HostTypes' /\ PhaseInv' /\ LoopTypes'
    BY <1>h, <1>k, <1>l, <1>p, <1>r, <2>1, <2>2
  <2> QED
    BY <1>v, <2>1, <2>3, <2>4
<1>14. CASE HubAnswers
  <2>1. /\ UNCHANGED <<viewVars, hub, startVars, conn, loopVars, stopping, lost, dropped>>
        /\ wire' = Append(wire, Answer)
    BY <1>14 DEF HubAnswers
  <2>2. SocketTypes'
    BY <1>0, <1>a, <2>1 DEF SocketTypes
  <2>3. HostTypes' /\ LoopTypes' /\ PhaseInv'
    BY <1>h, <1>l, <1>p, <1>k, <2>1
  <2> QED
    BY <1>v, <2>1, <2>2, <2>3
<1> QED
  BY <1>1, <1>2, <1>3, <1>4, <1>5, <1>6, <1>7, <1>8, <1>9, <1>10, <1>11, <1>12, <1>13, <1>14 DEF LoopStep

\* The handler, Close, and a crash.
LEMMA HandlerBase ==
  ASSUME Base, HandlerStep \/ Close \/ Exit
  PROVE  Base'
<1> USE DEF startVars, socketVars, loopVars, viewVars, viewRest
<1>0. /\ ViewTypes /\ HostTypes /\ SocketTypes /\ LoopTypes /\ PhaseInv
      /\ wasm \in [View -> {"absent", "torn", "whole"}]
      /\ task \in [Proc -> Work \cup {Idle, Gone}]
  BY DEF Base, TypeInv, ViewTypes
<1>1. ASSUME UNCHANGED <<hub, lost, dropped, urls, phase, todo, conn, wire, loop>>
      PROVE  HostTypes' /\ SocketTypes'
  BY <1>0, <1>1 DEF HostTypes, SocketTypes, Announced
<1>r. task["handler"] # Gone => phase = "running"
  BY <1>0 DEF PhaseInv
<1>2. CASE Take
  <2>1. /\ At("handler", "idle") /\ chan # <<>> /\ chan' = Tail(chan)
        /\ Begin("handler", Fetched(Head(chan)))
        /\ UNCHANGED <<file, wasm, defs, active, refused, hub, startVars, socketVars, loop,
                       stopping, lost, dropped>>
    BY <1>2 DEF Take
  <2>2. /\ chan \in Seq(Msg) /\ Len(chan) \in Nat /\ Len(chan) # 0 /\ DOMAIN chan = 1..Len(chan)
        /\ Head(chan) = chan[1] /\ Len(chan') = Len(chan) - 1
        /\ \A k \in 1..Len(chan') : chan'[k] = chan[k + 1]
        /\ chan' \in Seq(Msg)
    BY <1>0, <2>1, HeadTailProperties, LenProperties, EmptySeq DEF LoopTypes
  <2>3. Head(chan) \in View
    BY <1>0, <2>2 DEF LoopTypes
  <2>4. /\ ViewTypes' /\ WorkInv' /\ task'["main"] = task["main"]
    BY <2>1, <2>3, TaskBegins, ViewFacts, Apart
  <2>5. Announced(chan') \subseteq Announced(chan)
    BY <2>1, <2>2, AnnouncedTail
  <2>6. \A i \in DOMAIN chan' : chan'[i] \in View
    <3>1. DOMAIN chan' = 1..Len(chan')
      BY <2>2, LenProperties
    <3>2. \A i \in DOMAIN chan' : i + 1 \in DOMAIN chan /\ chan'[i] = chan[i + 1]
      BY <2>2, <3>1
    <3> QED
      BY <1>0, <3>2 DEF LoopTypes
  <2>7. Len(chan') <= Capacity
    BY <1>0, <2>2, ViewFacts DEF LoopTypes
  <2>8. LoopTypes'
    BY <1>0, <2>1, <2>2, <2>5, <2>6, <2>7 DEF LoopTypes
  <2>9. phase = "running"
    BY <1>r, <2>1 DEF At, Gone
  <2>10. PhaseInv'
    BY <1>0, <2>1, <2>4, <2>9 DEF PhaseInv
  <2> QED
    BY <1>1, <2>1, <2>4, <2>8, <2>10 DEF Base, TypeInv
<1>3. CASE HandlerExit \/ Cancelled
  <2>1. PICK b \in {Idle, Gone} : task' = [task EXCEPT !["handler"] = b]
    BY <1>3 DEF HandlerExit, Cancelled, GiveUp
  <2>2. /\ task["handler"].pc \in {"idle", "lens"}
        /\ UNCHANGED <<file, wasm, defs, active, hub, startVars, socketVars, loop, chan,
                       stopping, lost, dropped>>
    BY <1>3 DEF HandlerExit, Cancelled, At
  <2>3. refused' \subseteq View
    <3>1. CASE HandlerExit
      BY <1>0, <3>1 DEF HandlerExit, ViewTypes
    <3>2. CASE Cancelled
      <4>1. task["handler"] \in Work
        BY <1>0, <3>2, Apart DEF Cancelled, At, Idle, Gone
      <4>2. task["handler"].x.id \in View
        BY <4>1 DEF Work, Item
      <4> QED
        BY <1>0, <3>2, <4>2 DEF Cancelled, GiveUp, ViewTypes
    <3> QED
      BY <1>3, <3>1, <3>2
  <2>4. ViewTypes' /\ WorkInv' /\ task'["main"] = task["main"]
    BY <2>1, <2>2, <2>3, TaskEnds, Apart
  <2>5. LoopTypes'
    BY <1>0, <2>2 DEF LoopTypes, Announced
  <2>6. phase = "running"
    BY <1>r, <2>2 DEF Gone
  <2>7. PhaseInv'
    BY <1>0, <2>2, <2>4, <2>6 DEF PhaseInv
  <2> QED
    BY <1>1, <2>2, <2>4, <2>5, <2>7 DEF Base, TypeInv
<1>4. CASE Close
  <2>1. /\ phase = "running" /\ UNCHANGED <<viewVars, hub, startVars, socketVars, loopVars, lost, dropped>>
    BY <1>4 DEF Close
  <2>2. ViewTypes' /\ WorkInv' /\ LoopTypes' /\ PhaseInv'
    BY <1>0, <2>1, ViewsKept DEF LoopTypes, Announced, PhaseInv
  <2> QED
    BY <1>1, <2>1, <2>2 DEF Base, TypeInv
<1>5. CASE Exit
  BY <1>5, VanishFacts DEF Exit
<1> QED
  BY <1>2, <1>3, <1>4, <1>5 DEF HandlerStep

LEMMA BaseStep == Base /\ [Next]_vars => Base'
<1> SUFFICES ASSUME Base, [Next]_vars PROVE Base'
  OBVIOUS
<1>1. CASE UNCHANGED vars
  <2>1. UNCHANGED <<file, wasm, defs, active, task, refused, hub, phase, todo, urls, conn, wire,
                    loop, chan, stopping, lost, dropped>>
    BY <1>1 DEF vars, viewVars, startVars, socketVars, loopVars
  <2>2. ViewTypes' /\ WorkInv'
    BY <2>1, ViewsKept DEF Base, TypeInv, ViewTypes
  <2>3. HostTypes' /\ SocketTypes' /\ LoopTypes' /\ PhaseInv'
    BY <2>1 DEF Base, TypeInv, HostTypes, SocketTypes, LoopTypes, PhaseInv, Announced
  <2> QED
    BY <2>2, <2>3 DEF Base, TypeInv
<1> QED
  BY <1>1, MainBase, RegisterBase, LoopBase, HandlerBase DEF Next

LEMMA SentInit == Init => SentInv
BY HubAssumption DEF Init, SentInv, NoConn

LEMMA SentStep == Base /\ SentInv /\ [Next]_vars => SentInv'
<1> SUFFICES ASSUME Base, SentInv, [Next]_vars PROVE SentInv'
  OBVIOUS
<1>0. /\ conn \in [st : ConnState, k : Nat] /\ owed \in Nat /\ Queries \in Nat \ {0}
      /\ owed <= Queries /\ owed <= conn.k
      /\ conn.st = "cut" => owed = 0
      /\ conn.st = "ask" => conn.k < Queries
  BY HubAssumption DEF Base, TypeInv, SocketTypes, SentInv
<1>u. ASSUME UNCHANGED <<conn, owed>> PROVE SentInv'
  BY <1>u DEF SentInv
<1>n. ASSUME owed' = 0, conn' = NoConn PROVE SentInv'
  BY <1>0, <1>n DEF SentInv, NoConn
<1>v. ASSUME Vanish PROVE SentInv'
  BY <1>n, <1>v DEF Vanish
<1>1. CASE Dial
  <2>1. conn' = [st |-> "ask", k |-> 0] /\ owed' = owed /\ conn = NoConn
    BY <1>1 DEF Dial
  <2> QED
    BY <1>0, <2>1 DEF SentInv, NoConn
<1>2. CASE Ask
  <2>1. conn' = [st |-> "reply", k |-> conn.k + 1] /\ owed' = owed + 1 /\ conn.st = "ask"
    BY <1>2 DEF Ask
  <2> QED
    BY <1>0, <2>1 DEF SentInv
<1>3. CASE Reply
  <2>1. /\ owed' = owed
        /\ \/ conn.k < Queries /\ conn' = [conn EXCEPT !.st = "ask"]
           \/ conn' = [conn EXCEPT !.st = "up"]
    BY <1>3 DEF Reply
  <2> QED
    BY <1>0, <2>1 DEF SentInv
<1>4. CASE HubAnswers
  <2>1. conn' = conn /\ owed' = owed - 1 /\ owed > 0
    BY <1>4 DEF HubAnswers
  <2> QED
    BY <1>0, <2>1 DEF SentInv
<1>5. CASE Breaks
  <2>1. conn' = [conn EXCEPT !.st = "cut"] /\ owed' = 0
    BY <1>5 DEF Breaks
  <2> QED
    BY <1>0, <2>1 DEF SentInv
<1>6. CASE Expires
  <2>1. conn' = [st |-> "expired", k |-> 0] /\ owed' = 0
    BY <1>6 DEF Expires
  <2> QED
    BY <1>0, <2>1 DEF SentInv
<1>7. CASE ReadFails
  <2>1. conn' = NoConn /\ owed' = 0
    BY <1>0, <1>7 DEF ReadFails
  <2> QED
    BY <1>n, <2>1
<1>8. CASE ReadAgain
  <2>1. conn' = [conn EXCEPT !.k = @ + 1] /\ owed' = owed /\ conn.st = "expired"
    BY <1>8 DEF ReadAgain
  <2> QED
    BY <1>0, <2>1 DEF SentInv
<1>9. CASE DialFails
  <2>1. Vanish \/ (conn' = NoConn /\ owed' = 0)
    BY <1>9 DEF DialFails
  <2> QED
    BY <1>n, <1>v, <2>1
<1>10. CASE Exit
  BY <1>10, <1>v DEF Exit
<1> USE DEF socketVars
<1>11. CASE (\E v \in View : HubRegisters(v)) \/ Start \/ Close \/ Pong \/ UNCHANGED vars
  BY <1>11, <1>u DEF HubRegisters, Start, Close, Pong, vars
<1>12. CASE MainStep
  BY <1>12, <1>u DEF MainStep, FetchPage, FetchFails, LoadLocal, EnsureWASM, Ensured, LoadNext, Loaded
<1>13. CASE HandlerStep \/ \E p \in Proc : RegisterStepOf(p)
  BY <1>13, <1>u DEF HandlerStep, Take, HandlerExit, Cancelled, RegisterStepOf
<1>14. CASE Read \/ Hydrate \/ HydrateFails \/ Send \/ LoopStops \/ Redial
  BY <1>14, <1>u DEF Read, Hydrate, HydrateFails, Send, LoopStops, Redial
<1> QED
  BY <1>1, <1>2, <1>3, <1>4, <1>5, <1>6, <1>7, <1>8, <1>9, <1>10, <1>11, <1>12, <1>13, <1>14
     DEF Next, LoopStep

\* The type invariant of the host and its subscription, for any views and sizes.
THEOREM TypeCorrect == Spec => []TypeOK
<1>1. Init => Base /\ SentInv
  BY BaseInit, SentInit
<1>2. Base /\ SentInv /\ [Next]_vars => (Base /\ SentInv)'
  BY BaseStep, SentStep
<1> QED
  BY <1>1, <1>2, BaseTypes, PTL DEF Spec

-----------------------------------------------------------------------------
(* The registry file.                                                      *)

\* main and the handler never register views at the same time.
LEMMA OneRegisters ==
  ASSUME Base, NEW p \in Proc, NEW q \in Proc, p # q, task[p] \in Work
  PROVE  task[q] \notin Work
<1>1. PhaseInv /\ Proc = {"main", "handler"}
  BY DEF Base, Proc
<1>2. CASE p = "main"
  BY <1>1, <1>2, Apart DEF PhaseInv
<1>3. CASE p = "handler"
  BY <1>1, <1>3, Apart DEF PhaseInv
<1> QED
  BY <1>1, <1>2, <1>3

\* What a save has read is what it may write back: nobody else saves in between.
ReadInv ==
  \A p \in Proc : task[p].pc \in {"save", "saving"} =>
    saved \subseteq NamesIn(task[p].read) /\ Clean(task[p].read)

SaveInv == RegistryKeeps /\ ReadInv

LEMMA KeepsClean == RegistryKeeps <=> (file # Torn => saved \subseteq NamesIn(file) /\ Clean(file))
BY DEF RegistryKeeps, Clean, Ready

\* A step that saves nothing and begins no save.
LEMMA SaveQuiet ==
  ASSUME SaveInv, file' = file, saved' = saved,
         \A q \in Proc : task'[q] = task[q] \/ task'[q].pc \notin {"save", "saving"}
  PROVE  SaveInv'
<1>1. RegistryKeeps'
  BY DEF SaveInv, RegistryKeeps, NamesIn, NameIn
<1>2. ReadInv'
  BY DEF SaveInv, ReadInv
<1> QED
  BY <1>1, <1>2 DEF SaveInv

LEMMA SaveRegister ==
  ASSUME Base, SaveInv, NEW p \in Proc, RegisterStep(p)
  PROVE  SaveInv'
<1> DEFINE a == task[p]
<1>1. PICK b : Result(p, b)
  BY RegisterFacts
<1>2. /\ task' = [task EXCEPT ![p] = b] /\ a \in Work
      /\ task \in [Proc -> Work \cup {Idle, Gone}]
  BY <1>1, RegisterFacts DEF Result, Base, TypeInv, ViewTypes
<1>3. task'[p] = b /\ \A q \in Proc : q # p => task'[q] = task[q]
  BY <1>2
<1>4. a.x \in Item /\ a.read \in Seq(Item)
  BY <1>2 DEF Work
<1>5. ASSUME UNCHANGED <<file, saved>>, b.pc \notin {"save", "saving"} PROVE SaveInv'
  BY <1>3, <1>5, SaveQuiet
<1>i. Idle.pc \notin {"save", "saving"}
  BY DEF Idle
<1>6. CASE Check(p) \/ Post(p) \/ Posted(p) \/ Configure(p) \/ RegistrationFails(p) \/ Insert(p)
           \/ SaveFails(p)
  <2>1. UNCHANGED <<file, saved>>
    BY <1>6 DEF Check, Post, Posted, Configure, RegistrationFails, Insert, SaveFails
  <2>2. task'[p] = Idle \/ task'[p].pc \in {"post", "lens", "posting", "check", "insert", "load"}
    BY <1>2, <1>6 DEF Check, Post, Posted, Configure, RegistrationFails, Insert, SaveFails,
                      GiveUp, Goto
  <2> QED
    BY <1>3, <1>5, <1>i, <2>1, <2>2
<1>7. CASE Load(p)
  <2>1. UNCHANGED <<file, saved>>
    BY <1>7 DEF Load
  <2>2. CASE file = Torn
    BY <1>2, <1>3, <1>5, <1>7, <1>i, <2>1, <2>2 DEF Load
  <2>3. CASE file # Torn
    <3>1. task'[p].read = file
      BY <1>2, <1>7, <2>3 DEF Load
    <3>2. saved \subseteq NamesIn(file) /\ Clean(file)
      BY <2>3, KeepsClean DEF SaveInv
    <3>3. ReadInv'
      <4>1. ASSUME NEW q \in Proc, task'[q].pc \in {"save", "saving"}
            PROVE  saved' \subseteq NamesIn(task'[q].read) /\ Clean(task'[q].read)
        BY <1>3, <2>1, <3>1, <3>2, <4>1 DEF SaveInv, ReadInv
      <4> QED
        BY <4>1 DEF ReadInv
    <3>4. RegistryKeeps'
      BY <2>1 DEF SaveInv, RegistryKeeps, NamesIn, NameIn
    <3> QED
      BY <3>3, <3>4 DEF SaveInv
  <2> QED
    BY <2>2, <2>3
<1>8. CASE Truncate(p)
  <2>1. file' = Torn /\ saved' = saved /\ a.pc = "save"
    BY <1>8 DEF Truncate, At
  <2>2. task'[p].read = a.read
    BY <1>2, <1>8 DEF Truncate, Work
  <2>3. ReadInv'
    <3>1. ASSUME NEW q \in Proc, task'[q].pc \in {"save", "saving"}
          PROVE  saved' \subseteq NamesIn(task'[q].read) /\ Clean(task'[q].read)
      <4>1. CASE q = p
        BY <2>1, <2>2, <4>1 DEF SaveInv, ReadInv
      <4>2. CASE q # p
        BY <1>3, <2>1, <3>1, <4>2 DEF SaveInv, ReadInv
      <4> QED
        BY <4>1, <4>2
    <3> QED
      BY <3>1 DEF ReadInv
  <2>4. RegistryKeeps'
    BY <2>1 DEF RegistryKeeps
  <2> QED
    BY <2>3, <2>4 DEF SaveInv
<1>9. CASE Saved(p)
  <2> DEFINE u == Upsert(a.read, a.x)
  <2>1. /\ a.pc = "saving" /\ file' = u /\ saved' = saved \cup {NameIn(a.x)}
        /\ task'[p] = Idle
    BY <1>2, <1>9 DEF Saved, At
  <2>2. saved \subseteq NamesIn(a.read) /\ Clean(a.read) /\ Ready(a.x)
    BY <1>2, <2>1 DEF SaveInv, ReadInv, Base, WorkInv, Mended
  <2>3. u \in Seq(Item) /\ NamesIn(u) = NamesIn(a.read) \cup {NameIn(a.x)} /\ Clean(u)
    BY <1>4, <2>2, UpsertFacts
  <2> HIDE DEF u
  <2>4. saved' \subseteq NamesIn(file') /\ Clean(file')
    BY <2>1, <2>2, <2>3
  <2>5. RegistryKeeps'
    BY <2>4 DEF RegistryKeeps, Clean, Ready
  <2>6. \A q \in Proc : task'[q].pc \notin {"save", "saving"}
    <3>1. ASSUME NEW q \in Proc, q # p PROVE task[q] \in {Idle, Gone}
      BY <1>2, <3>1, OneRegisters
    <3> QED
      BY <1>3, <2>1, <3>1 DEF Idle, Gone
  <2> QED
    BY <2>5, <2>6 DEF SaveInv, ReadInv
<1> QED
  BY <1>6, <1>7, <1>8, <1>9 DEF RegisterStep

\* The steps other than those of a registration.
Elsewhere ==
  \/ \E v \in View : HubRegisters(v)
  \/ Start \/ Exit \/ MainStep
  \/ HubAnswers \/ DialFails \/ Breaks \/ Expires \/ Pong \/ LoopStep
  \/ HandlerStep \/ Close \/ UNCHANGED vars

LEMMA Steps == [Next]_vars => Elsewhere \/ \E p \in Proc : RegisterStepOf(p)
BY DEF Next, Elsewhere

\* They leave the file alone and no goroutine begins to save in them.
LEMMA ElsewhereQuiet ==
  ASSUME Base, Elsewhere
  PROVE  /\ UNCHANGED <<file, saved>>
         /\ \A q \in Proc : task'[q] = task[q] \/ task'[q].pc \notin {"save", "saving"}
<1> USE DEF startVars, socketVars, loopVars, viewVars, viewRest
<1>0. task \in [Proc -> Work \cup {Idle, Gone}] /\ HostTypes /\ LoopTypes
  BY DEF Base, TypeInv, ViewTypes
<1>i. Idle.pc \notin {"save", "saving"} /\ Gone.pc \notin {"save", "saving"}
  BY DEF Idle, Gone
<1>v. ASSUME Vanish PROVE /\ UNCHANGED <<file, saved>>
                          /\ \A q \in Proc : task'[q].pc \notin {"save", "saving"}
  <2>1. task' = [main |-> Idle, handler |-> Gone] /\ UNCHANGED <<file, saved>>
    BY <1>v DEF Vanish
  <2>2. \A q \in Proc : task'[q] = Idle \/ task'[q] = Gone
    BY <2>1 DEF Proc
  <2> QED
    BY <1>i, <2>1, <2>2
<1>1. CASE (\E v \in View : HubRegisters(v)) \/ HubAnswers \/ Start \/ Breaks \/ Expires \/ Pong
           \/ Close \/ UNCHANGED vars
  BY <1>1 DEF HubRegisters, HubAnswers, Start, Breaks, Expires, Pong, Close, vars
<1>2. CASE FetchPage \/ FetchFails \/ LoadLocal \/ (\E v \in View : EnsureWASM(v)) \/ Ensured \/ Loaded
  BY <1>2 DEF FetchPage, FetchFails, LoadLocal, EnsureWASM, Ensured, Loaded
<1>3. ASSUME NEW p \in Proc, NEW x, Begin(p, x)
      PROVE  \A q \in Proc : task'[q] = task[q] \/ task'[q].pc \notin {"save", "saving"}
  <2>1. \A q \in Proc : task'[q] = task[q] \/ task'[q].pc \in {"post", "check"}
    BY <1>0, <1>3 DEF Begin, Goto
  <2> QED
    BY <2>1
<1>4. CASE LoadNext
  BY <1>3, <1>4, Apart DEF LoadNext
<1>5. CASE Take
  BY <1>3, <1>5, Apart DEF Take
<1>6. ASSUME NEW b \in {Idle, Gone}, task' = [task EXCEPT !["handler"] = b]
      PROVE  \A q \in Proc : task'[q] = task[q] \/ task'[q].pc \notin {"save", "saving"}
  BY <1>0, <1>6, <1>i, Apart
<1>7. CASE HandlerExit \/ Cancelled
  BY <1>6, <1>7 DEF HandlerExit, Cancelled, GiveUp
<1>8. CASE Exit
  BY <1>8, <1>v DEF Exit
<1>9. CASE Reply
  <2>1. UNCHANGED <<file, saved>> /\ (task' = task \/ task' = [task EXCEPT !["handler"] = Idle])
    BY <1>9 DEF Reply
  <2> QED
    BY <1>6, <2>1
<1>10. CASE DialFails
  BY <1>10, <1>v DEF DialFails
<1>11. CASE Dial \/ Ask \/ Read \/ Hydrate \/ HydrateFails \/ Send \/ LoopStops \/ ReadFails
            \/ Redial \/ ReadAgain
  BY <1>11 DEF Dial, Ask, Read, Hydrate, HydrateFails, Send, LoopStops, ReadFails, Redial, ReadAgain
<1> QED
  BY <1>1, <1>2, <1>4, <1>5, <1>7, <1>8, <1>9, <1>10, <1>11
     DEF Elsewhere, MainStep, LoopStep, HandlerStep

LEMMA SaveStep == Base /\ SaveInv /\ [Next]_vars => SaveInv'
BY Steps, ElsewhereQuiet, SaveQuiet, SaveRegister DEF RegisterStepOf

\* However views are registered, saved, interrupted and registered again, views.json loses
\* no name that a save has put in, and each of its entries can be registered as it is.
THEOREM RegistryKeepsCorrect == Spec => []RegistryKeeps
<1>1. Init => SaveInv
  <2> SUFFICES ASSUME Init PROVE SaveInv
    OBVIOUS
  <2>1. file = <<>> /\ saved = {} /\ \A p \in Proc : task[p] \in {Idle, Gone}
    BY DEF Init, ViewsInit, Proc
  <2>2. RegistryKeeps
    BY <2>1, NamesEmpty, KeepsClean
  <2>3. ReadInv
    BY <2>1 DEF ReadInv, Idle, Gone
  <2> QED
    BY <2>2, <2>3 DEF SaveInv
<1>2. Base /\ SaveInv /\ [Next]_vars => (Base /\ SaveInv)'
  BY BaseStep, SaveStep
<1>3. SaveInv => RegistryKeeps
  BY DEF SaveInv
<1> QED
  BY <1>1, <1>2, <1>3, BaseInit, PTL DEF Spec

-----------------------------------------------------------------------------
(* What becomes of the views.                                              *)

\* The names that main has yet to register or is registering, and those settled.
MainNames == IF task["main"] \in Work THEN {NameIn(task["main"].x)} ELSE {}
Covered == NamesIn(todo) \cup MainNames \cup Active \cup RefusedNames

\* The views between the hub and the manager, and those that did not make it.
HandlerViews == IF task["handler"] \in Work THEN {task["handler"].x.id} ELSE {}
OnWay == Announced(wire) \cup Announced(chan) \cup {loop.v} \cup HandlerViews \cup dropped \cup lost

Settled(v) == NameOf[v] \in Covered \/ v \in OnWay

\* No view of the hub is forgotten, in any phase of the host.
AllInv == ~stopping => \A v \in hub : Settled(v)

\* The names the file had at the start are still to be read from it, or are covered.
KeptInv ==
  /\ phase \in {"fetch", "local"} => kept \subseteq NamesIn(LocalViews)
  /\ phase \in {"wasm", "register", "dial", "running"} => kept \subseteq Covered

\* A step of a running process: no name is uncovered, and a view that comes to the hub or was
\* on its way stays settled while the host is not being closed.
Onward ==
  /\ Covered \subseteq Covered'
  /\ stopping => stopping'
  /\ \A v \in hub' : (v \notin hub \/ v \in OnWay) => stopping' \/ Settled(v)'

LEMMA CoverSame ==
  ASSUME UNCHANGED <<todo, active, refused>>, task'["main"] = task["main"]
  PROVE  Covered' = Covered
BY DEF Covered, MainNames, Active, RefusedNames, NamesIn, NameIn

\* A step outside the manager that passes on what is on its way.
LEMMA Passes ==
  ASSUME UNCHANGED <<hub, todo, active, refused, task, stopping>>,
         \A v \in View : v \in OnWay => stopping \/ v \in OnWay',
         hub \subseteq View
  PROVE  Onward
<1>1. Covered' = Covered
  BY CoverSame
<1>2. \A v \in hub' : (v \notin hub \/ v \in OnWay) => stopping' \/ Settled(v)'
  BY DEF Settled
<1> QED
  BY <1>1, <1>2 DEF Onward

\* The hub, and main before and after it registers views.
LEMMA MainOnward ==
  ASSUME Base, (\E v \in View : HubRegisters(v)) \/ Start \/ MainStep
  PROVE  Onward
<1> USE DEF startVars, socketVars, loopVars, viewVars, viewRest
<1>0. /\ ViewTypes /\ HostTypes /\ SocketTypes /\ hub \subseteq View /\ todo \in Seq(Item)
      /\ task \in [Proc -> Work \cup {Idle, Gone}]
  BY DEF Base, TypeInv, ViewTypes, HostTypes
\* Views stay on their way when nothing but todo and the task of main changes.
<1>w. ASSUME UNCHANGED <<hub, wire, chan, loop, dropped, lost, stopping>>,
             task'["handler"] = task["handler"], Covered \subseteq Covered'
      PROVE  Onward
  <2>1. OnWay' = OnWay
    BY <1>w DEF OnWay, HandlerViews
  <2> QED
    BY <1>w, <2>1 DEF Onward, Settled
<1>1. ASSUME NEW v \in View, HubRegisters(v) PROVE Onward
  <2>1. /\ hub' = hub \cup {v}
        /\ UNCHANGED <<todo, active, refused, task, chan, loop, dropped, stopping>>
        /\ \/ wire' = Append(wire, v) /\ lost' = lost
           \/ wire' = wire /\ lost' = lost \cup {v}
    BY <1>1 DEF HubRegisters
  <2>2. Covered' = Covered /\ HandlerViews' = HandlerViews
    BY <2>1, CoverSame DEF HandlerViews
  <2>3. Announced(wire) \cup lost \cup {v} \subseteq Announced(wire') \cup lost'
    <3>1. CASE wire' = wire /\ lost' = lost \cup {v}
      BY <3>1
    <3>2. CASE wire' = Append(wire, v) /\ lost' = lost
      <4>1. Announced(wire') = Announced(wire) \cup ({v} \cap View)
        BY <1>0, <3>2, AnnouncedAppend DEF SocketTypes, Msg
      <4> QED
        BY <3>2, <4>1
    <3> QED
      BY <2>1, <3>1, <3>2
  <2>4. OnWay \cup {v} \subseteq OnWay'
    BY <2>1, <2>2, <2>3 DEF OnWay
  <2> QED
    BY <2>1, <2>2, <2>4 DEF Onward, Settled
<1>2. CASE Start \/ FetchFails \/ (\E v \in View : EnsureWASM(v)) \/ Ensured \/ Loaded
  <2>1. UNCHANGED <<todo, active, refused, task, hub, wire, chan, loop, dropped, lost, stopping>>
    BY <1>2 DEF Start, FetchFails, EnsureWASM, Ensured, Loaded
  <2>2. Covered' = Covered
    BY <2>1, CoverSame
  <2> QED
    BY <1>w, <2>1, <2>2
<1>3. CASE FetchPage
  <2>1. PICK views \in DecodeLCDViews(Page) : todo' = todo \o views
    BY <1>3 DEF FetchPage
  <2>2. /\ lost' = lost \ Page /\ dropped' = dropped \cup {v \in Page : ~Decodes(v)}
        /\ UNCHANGED <<active, refused, task, hub, wire, chan, loop, stopping>>
    BY <1>3 DEF FetchPage
  <2>3. Page \in SUBSET View
    BY <1>0 DEF Page
  <2>4. /\ views \in Seq(Item) /\ NamesIn(todo') = NamesIn(todo) \cup NamesIn(views)
        /\ \A v \in Page : Decodes(v) => NameOf[v] \in NamesIn(views)
    BY <1>0, <2>1, <2>3, DecodeFacts, NamesConcat
  <2>5. /\ MainNames' = MainNames /\ HandlerViews' = HandlerViews
        /\ Active' = Active /\ RefusedNames' = RefusedNames
    BY <2>2 DEF MainNames, HandlerViews, Active, RefusedNames
  <2>6. Covered \subseteq Covered' /\ NamesIn(views) \subseteq Covered'
    BY <2>4, <2>5 DEF Covered
  <2>7. \A v \in OnWay : v \in OnWay' \/ v \in Page
    BY <2>2, <2>5 DEF OnWay
  <2>8. \A v \in Page : NameOf[v] \in Covered' \/ v \in OnWay'
    BY <2>2, <2>4, <2>6 DEF OnWay
  <2> QED
    BY <2>2, <2>6, <2>7, <2>8 DEF Onward, Settled
<1>4. CASE LoadLocal
  <2>1. /\ todo' \in Deduplicate(todo \o LocalViews)
        /\ UNCHANGED <<active, refused, task, hub, wire, chan, loop, stopping, lost, dropped>>
    BY <1>4 DEF LoadLocal
  <2>2. LocalViews \in Seq(Item)
    BY <1>0, EmptySeq DEF LocalViews, ViewTypes
  <2>3. NamesIn(todo') = NamesIn(todo) \cup NamesIn(LocalViews)
    BY <1>0, <2>1, <2>2, DeduplicateFacts, NamesConcat
  <2>4. MainNames' = MainNames /\ Active' = Active /\ RefusedNames' = RefusedNames
    BY <2>1 DEF MainNames, Active, RefusedNames
  <2>5. Covered \subseteq Covered'
    BY <2>3, <2>4 DEF Covered
  <2> QED
    BY <1>w, <2>1, <2>5
<1>5. CASE LoadNext
  <2>1. /\ todo # <<>> /\ todo' = Tail(todo) /\ At("main", "idle")
        /\ Begin("main", Head(todo))
        /\ UNCHANGED <<file, wasm, defs, active, refused, hub, wire, chan, loop, stopping, lost,
                       dropped>>
    BY <1>5 DEF LoadNext
  <2>2. Head(todo) \in Item /\ NamesIn(todo) = {NameIn(Head(todo))} \cup NamesIn(todo')
    BY <1>0, <2>1, NamesTail
  <2>3. /\ task'["handler"] = task["handler"] /\ Active' = Active /\ RefusedNames' = RefusedNames
        /\ task'["main"] \in Work /\ task'["main"].x = Head(todo)
    BY <2>1, <2>2, TaskBegins, Apart
  <2>4. MainNames = {} /\ MainNames' = {NameIn(Head(todo))}
    BY <2>1, <2>3 DEF MainNames, At, Work, Busy
  <2>5. Covered \subseteq Covered'
    BY <2>2, <2>3, <2>4 DEF Covered
  <2> QED
    BY <1>w, <2>1, <2>3, <2>5
<1> QED
  BY <1>1, <1>2, <1>3, <1>4, <1>5 DEF MainStep

\* A step of a registration: who is done with a view leaves it active or refused.
LEMMA RegisterOnward ==
  ASSUME Base, NEW p \in Proc, RegisterStepOf(p)
  PROVE  Onward
<1> USE DEF startVars, socketVars, loopVars
<1>1. /\ RegisterStep(p)
      /\ UNCHANGED <<hub, todo, wire, chan, loop, stopping, lost, dropped>>
  BY DEF RegisterStepOf
<1>2. PICK b : Result(p, b)
  BY <1>1, RegisterFacts
<1>3. /\ task[p] \in Work /\ task' = [task EXCEPT ![p] = b] /\ task[p].x \in Item
      /\ task \in [Proc -> Work \cup {Idle, Gone}]
      /\ Active \subseteq Active' /\ refused \subseteq refused'
  BY <1>1, <1>2, RegisterFacts DEF Result, Work, Base, TypeInv, ViewTypes
<1>4. task'[p] = b /\ \A q \in Proc : q # p => task'[q] = task[q]
  BY <1>3
<1>5. RefusedNames \subseteq RefusedNames'
  BY <1>3 DEF RefusedNames
\* The view goes on, or its name is settled.
<1>6. \/ task'[p] \in Work /\ task'[p].x.id = task[p].x.id /\ NameIn(task'[p].x) = NameIn(task[p].x)
      \/ NameIn(task[p].x) \in Active' \cup RefusedNames'
  BY <1>2, <1>4 DEF Result, NameIn
<1>7. NamesIn(todo') = NamesIn(todo) /\ NameIn(task[p].x) = NameOf[task[p].x.id]
  BY <1>1 DEF NameIn
<1>8. \A n \in MainNames : n \in Covered'
  <2>1. CASE p = "main"
    BY <1>3, <1>6, <2>1 DEF MainNames, Covered
  <2>2. CASE p # "main"
    BY <1>4, <2>2, Apart DEF MainNames, Covered
  <2> QED
    BY <2>1, <2>2
<1>9. Covered \subseteq Covered'
  BY <1>3, <1>5, <1>7, <1>8 DEF Covered
<1>10. \A v \in HandlerViews : NameOf[v] \in Covered' \/ v \in OnWay'
  <2>1. CASE p = "handler"
    BY <1>3, <1>6, <1>7, <2>1 DEF HandlerViews, Covered, OnWay
  <2>2. CASE p # "handler"
    BY <1>4, <2>2, Apart DEF HandlerViews, OnWay
  <2> QED
    BY <2>1, <2>2
<1>11. \A v \in OnWay : NameOf[v] \in Covered' \/ v \in OnWay'
  BY <1>1, <1>10 DEF OnWay
<1> QED
  BY <1>1, <1>9, <1>11 DEF Onward, Settled

\* The socket and the event loop.
LEMMA LoopOnward ==
  ASSUME Base, HubAnswers \/ DialFails \/ Breaks \/ Expires \/ Pong \/ LoopStep
  PROVE  Vanish \/ Onward
<1> USE DEF startVars, socketVars, loopVars, viewVars, viewRest
<1>0. /\ hub \subseteq View /\ wire \in Seq(Msg) /\ chan \in Seq(Msg) /\ PhaseInv
      /\ loop \in [pc : LoopPC, v : hub \cup {NoView}, try : Nat]
      /\ task \in [Proc -> Work \cup {Idle, Gone}]
  BY DEF Base, TypeInv, ViewTypes, HostTypes, SocketTypes, LoopTypes
<1>n. NoView \notin View
  BY ViewFacts
<1>v. loop.v # NoView => loop.pc \in {"hydrate", "send"}
  BY <1>0 DEF PhaseInv
<1>t. wire # <<>> => Announced(wire) = ({Head(wire)} \cap View) \cup Announced(Tail(wire))
  BY <1>0, AnnouncedTail
\* The manager is left alone.
<1>p. ASSUME UNCHANGED <<hub, todo, active, refused, task, stopping>>,
             \A v \in View : v \in Announced(wire) \cup Announced(chan) \cup {loop.v} \cup dropped \cup lost
               => stopping \/ v \in Announced(wire') \cup Announced(chan') \cup {loop'.v} \cup dropped' \cup lost'
      PROVE  Onward
  <2>1. HandlerViews' = HandlerViews
    BY <1>p DEF HandlerViews
  <2>2. \A v \in View : v \in OnWay => stopping \/ v \in OnWay'
    BY <1>p, <2>1 DEF OnWay
  <2> QED
    BY <1>0, <1>p, <2>2, Passes
<1>1. CASE Breaks \/ Expires \/ Dial \/ Redial \/ LoopStops \/ ReadFails \/ ReadAgain
  <2>1. /\ UNCHANGED <<hub, todo, active, refused, task, stopping, chan, dropped>>
        /\ loop' = loop \/ loop.v = NoView
        /\ \/ wire' = wire /\ lost' = lost
           \/ lost' = lost \cup Announced(wire)
    BY <1>1, <1>v DEF Breaks, Expires, Dial, Redial, LoopStops, ReadFails, ReadAgain
  <2> QED
    BY <1>n, <1>p, <2>1
<1>2. CASE Pong \/ HubAnswers \/ Ask
  <2>1. /\ UNCHANGED <<hub, todo, active, refused, task, stopping, chan, dropped, lost, loop>>
        /\ wire = <<>> \/ wire' = Append(wire, Answer) \/ wire' = wire
    BY <1>2 DEF Pong, HubAnswers, Ask
  <2>2. Announced(wire) \subseteq Announced(wire')
    BY <1>0, <2>1, AnnouncedEmpty, AnnouncedAppend DEF Msg
  <2> QED
    BY <1>p, <2>1, <2>2
<1>3. CASE Reply
  <2>1. /\ wire # <<>> /\ wire' = Tail(wire) /\ lost' = lost \cup Announced(<<Head(wire)>>)
        /\ UNCHANGED <<hub, todo, active, refused, chan, dropped, stopping>>
        /\ \/ UNCHANGED <<loop, task>>
           \/ task' = IF phase = "dial" THEN [task EXCEPT !.handler = Idle] ELSE task
        /\ Dialing
    BY <1>3 DEF Reply
  <2>2. Announced(<<Head(wire)>>) = {Head(wire)} \cap View
    BY AnnouncedOne
  <2>3. loop.v = NoView
    BY <1>0, <1>v, <2>1 DEF Dialing, PhaseInv
  <2>4. HandlerViews \subseteq HandlerViews' /\ task'["main"] = task["main"]
    <3>1. CASE task' = task
      BY <3>1 DEF HandlerViews
    <3>2. CASE phase = "dial" /\ task' = [task EXCEPT !["handler"] = Idle]
      <4>1. task["handler"] = Gone
        BY <1>0, <3>2 DEF PhaseInv
      <4> QED
        BY <1>0, <3>2, <4>1, Apart DEF HandlerViews
    <3> QED
      BY <2>1, <3>1, <3>2
  <2>5. Covered' = Covered
    BY <2>1, <2>4, CoverSame
  <2>6. \A v \in View : v \in OnWay => v \in OnWay'
    BY <1>n, <1>t, <2>1, <2>2, <2>3, <2>4 DEF OnWay
  <2> QED
    BY <1>0, <2>1, <2>5, <2>6 DEF Onward, Settled
<1>4. CASE DialFails
  <2>1. CASE phase = "dial"
    BY <1>4, <2>1 DEF DialFails
  <2>2. CASE phase # "dial"
    <3>1. /\ loop.pc = "dialing" /\ lost' = lost \cup Announced(wire)
          /\ UNCHANGED <<viewRest, hub, startVars, chan, stopping, dropped>>
      BY <1>4, <2>2 DEF DialFails, Dialing
    <3>2. loop.v = NoView
      BY <1>v, <3>1
    <3> QED
      BY <1>n, <1>p, <3>1, <3>2
  <2> QED
    BY <2>1, <2>2
<1>5. CASE Read
  <2>1. /\ loop.pc = "read" /\ wire # <<>> /\ wire' = Tail(wire)
        /\ UNCHANGED <<hub, todo, active, refused, task, stopping, chan, lost, dropped>>
        /\ Head(wire) = Answer \/ loop'.v = Head(wire)
    BY <1>5 DEF Read
  <2>2. loop.v = NoView /\ Answer \notin View
    BY <1>v, <2>1, ViewFacts
  <2> QED
    BY <1>n, <1>p, <1>t, <2>1, <2>2
<1>6. CASE Hydrate \/ HydrateFails
  <2>1. /\ UNCHANGED <<viewRest, hub, startVars, socketVars, chan, stopping, lost>>
        /\ \/ loop' = [loop EXCEPT !.pc = "send"] /\ dropped' = dropped
           \/ loop' = [loop EXCEPT !.try = @ + 1] /\ dropped' = dropped
           \/ dropped' = dropped \cup {loop.v}
    BY <1>6 DEF Hydrate, HydrateFails
  <2>2. dropped \subseteq dropped' /\ loop.v \in {loop'.v} \cup dropped'
    BY <1>0, <2>1
  <2> QED
    BY <1>p, <2>1, <2>2
<1>7. CASE Send
  <2>1. /\ UNCHANGED <<viewVars, hub, startVars, socketVars, stopping, lost, dropped>>
        /\ loop.pc = "send"
        /\ chan' = Append(chan, loop.v) \/ (stopping /\ chan' = chan)
    BY <1>7 DEF Send
  <2>2. loop.v # NoView /\ loop.v \in View /\ loop.v \in Msg
    BY <1>0, <2>1 DEF PhaseInv, Msg
  <2>3. CASE stopping
    BY <1>p, <2>1, <2>3
  <2>4. CASE chan' = Append(chan, loop.v)
    <3>1. Announced(chan') = Announced(chan) \cup ({loop.v} \cap View)
      BY <1>0, <2>2, <2>4, AnnouncedAppend
    <3> QED
      BY <1>p, <2>1, <2>2, <3>1
  <2> QED
    BY <2>1, <2>3, <2>4
<1> QED
  BY <1>1, <1>2, <1>3, <1>4, <1>5, <1>6, <1>7 DEF LoopStep

\* The handler and Close.
LEMMA HandlerOnward ==
  ASSUME Base, HandlerStep \/ Close
  PROVE  Onward
<1> USE DEF startVars, socketVars, loopVars, viewVars, viewRest
<1>0. /\ hub \subseteq View /\ chan \in Seq(Msg) /\ \A i \in DOMAIN chan : chan[i] \in View
      /\ task \in [Proc -> Work \cup {Idle, Gone}]
  BY DEF Base, TypeInv, ViewTypes, HostTypes, LoopTypes
<1>i. At("handler", "idle") => task["handler"] \notin Work
  BY DEF At, Work, Busy
<1>1. CASE Take
  <2>1. /\ At("handler", "idle") /\ chan # <<>> /\ chan' = Tail(chan)
        /\ Begin("handler", Fetched(Head(chan)))
        /\ UNCHANGED <<file, wasm, defs, active, refused, todo, hub, wire, loop, stopping, lost, dropped>>
    BY <1>1 DEF Take
  <2>2. /\ Announced(chan) = ({Head(chan)} \cap View) \cup Announced(chan')
    BY <1>0, <2>1, AnnouncedTail
  <2>3. Head(chan) \in View
    <3>1. Head(chan) = chan[1] /\ 1 \in DOMAIN chan
      BY <1>0, <2>1, HeadTailProperties, LenProperties, EmptySeq
    <3> QED
      BY <1>0, <3>1
  <2>4. /\ task'["main"] = task["main"] /\ task'["handler"] \in Work
        /\ task'["handler"].x = Fetched(Head(chan))
    BY <2>1, <2>3, TaskBegins, ViewFacts, Apart
  <2>5. HandlerViews = {} /\ HandlerViews' = {Head(chan)}
    BY <1>i, <2>1, <2>4 DEF HandlerViews, Fetched
  <2>6. Covered' = Covered
    BY <2>1, <2>4, CoverSame
  <2>7. OnWay \subseteq OnWay'
    BY <2>1, <2>2, <2>5 DEF OnWay
  <2> QED
    BY <2>1, <2>6, <2>7 DEF Onward, Settled
<1>2. CASE HandlerExit
  <2>1. /\ At("handler", "idle") /\ task' = [task EXCEPT !["handler"] = Gone]
        /\ UNCHANGED <<active, refused, todo, hub, wire, chan, loop, stopping, lost, dropped>>
    BY <1>2 DEF HandlerExit
  <2>2. task'["main"] = task["main"] /\ HandlerViews = {}
    BY <1>0, <1>i, <2>1, Apart DEF HandlerViews
  <2>3. Covered' = Covered
    BY <2>1, <2>2, CoverSame
  <2>4. OnWay \subseteq OnWay'
    BY <2>1, <2>2 DEF OnWay
  <2> QED
    BY <2>1, <2>3, <2>4 DEF Onward, Settled
<1>3. CASE Cancelled
  <2>1. /\ stopping /\ task' = [task EXCEPT !["handler"] = Idle] /\ refused \subseteq refused'
        /\ UNCHANGED <<active, todo, hub, stopping>>
    BY <1>3 DEF Cancelled, GiveUp
  <2>2. task'["main"] = task["main"]
    BY <1>0, <2>1, Apart
  <2>3. /\ MainNames' = MainNames /\ Active' = Active /\ RefusedNames \subseteq RefusedNames'
        /\ NamesIn(todo') = NamesIn(todo)
    BY <2>1, <2>2 DEF MainNames, Active, RefusedNames
  <2>4. Covered \subseteq Covered'
    BY <2>3 DEF Covered
  <2> QED
    BY <2>1, <2>4 DEF Onward
<1>4. CASE Close
  <2>1. stopping' /\ UNCHANGED <<active, refused, todo, task>>
    BY <1>4 DEF Close
  <2>2. Covered' = Covered
    BY <2>1, CoverSame
  <2> QED
    BY <2>1, <2>2 DEF Onward
<1> QED
  BY <1>1, <1>2, <1>3, <1>4 DEF HandlerStep

LEMMA EveryStep ==
  ASSUME Base, [Next]_vars
  PROVE  Vanish \/ Onward
<1>1. CASE UNCHANGED vars
  <2>1. UNCHANGED <<hub, todo, active, refused, task, stopping, wire, chan, loop, dropped, lost>>
    BY <1>1 DEF vars, viewVars, startVars, socketVars, loopVars
  <2>2. OnWay' = OnWay /\ hub \subseteq View
    BY <2>1 DEF OnWay, HandlerViews, Base, TypeInv, HostTypes
  <2> QED
    BY <2>1, <2>2, Passes
<1>2. CASE Exit
  BY <1>2 DEF Exit
<1> QED
  BY <1>1, <1>2, MainOnward, RegisterOnward, LoopOnward, HandlerOnward DEF Next

LEMMA AllStep == Base /\ AllInv /\ [Next]_vars => AllInv'
<1> SUFFICES ASSUME Base, AllInv, [Next]_vars PROVE AllInv'
  OBVIOUS
<1>1. CASE Vanish
  BY <1>1 DEF Vanish, AllInv, Settled, OnWay
<1>2. CASE Onward
  BY <1>2 DEF Onward, AllInv, Settled
<1> QED
  BY <1>1, <1>2, EveryStep

\* What main has still to do is done when the subscription is up, and what the handler is
\* registering is in flight.
LEMMA WhenRunning ==
  ASSUME Base, phase \in {"dial", "running"}
  PROVE  /\ Covered = Active \cup RefusedNames
         /\ OnWay \subseteq InFlight \cup dropped \cup lost
<1>1. todo = <<>> /\ task["main"] = Idle
  BY DEF Base, PhaseInv
<1>2. Covered = Active \cup RefusedNames
  BY <1>1, NamesEmpty, Apart DEF Covered, MainNames
<1>3. HandlerViews \subseteq {task[p].x.id : p \in {q \in Proc : task[q].x # <<>>}}
  <2>1. ASSUME task["handler"] \in Work PROVE task["handler"].x # <<>>
    <3>1. task["handler"].x \in Item
      BY <2>1 DEF Work
    <3> QED
      BY <3>1 DEF Item
  <2> QED
    BY <2>1, Apart DEF HandlerViews
<1> QED
  BY <1>2, <1>3 DEF OnWay, InFlight

\* However announcements, listings, registrations and failures interleave, a view of the hub
\* is active, in flight, given up, dropped or was never told to this process.
THEOREM AccountedCorrect == Spec => []Accounted
<1>1. Init => AllInv
  BY DEF Init, AllInv
<1>2. Base /\ AllInv /\ [Next]_vars => (Base /\ AllInv)'
  BY BaseStep, AllStep
<1>3. Base /\ AllInv => Accounted
  BY WhenRunning DEF AllInv, Settled, Accounted
<1> QED
  BY <1>1, <1>2, <1>3, BaseInit, PTL DEF Spec

\* The phases in which main has not yet read the file.
Early == {"fetch", "local"}

\* How a step that does not end the process changes the phase: the file is what it was at the
\* start until main has read it.
LEMMA PhaseSteps ==
  ASSUME Base, [Next]_vars
  PROVE  \/ Vanish
         \/ Start
         \/ LoadLocal
         \/ /\ kept' = kept
            /\ phase' \in Early => phase \in Early /\ file' = file
            /\ phase' \in {"wasm", "register", "dial", "running"} =>
                 phase \in {"wasm", "register", "dial", "running"}
<1> USE DEF startVars, socketVars, loopVars, viewVars, viewRest
<1>0. PhaseInv /\ HostTypes
  BY DEF Base, TypeInv
<1>1. CASE (\E v \in View : HubRegisters(v)) \/ HubAnswers \/ Breaks \/ Expires \/ Pong \/ Close
           \/ UNCHANGED vars
  BY <1>1 DEF HubRegisters, HubAnswers, Breaks, Expires, Pong, Close, vars
<1>2. CASE FetchPage \/ FetchFails \/ (\E v \in View : EnsureWASM(v)) \/ Ensured \/ LoadNext \/ Loaded
  BY <1>2 DEF FetchPage, FetchFails, EnsureWASM, Ensured, LoadNext, Loaded, Early
<1>3. ASSUME NEW p \in Proc, RegisterStepOf(p)
      PROVE  kept' = kept /\ phase' = phase /\ phase \notin Early
  <2>1. UNCHANGED <<kept, phase>> /\ task[p] \in Work
    BY <1>3, RegisterFacts DEF RegisterStepOf
  <2>2. p = "main" \/ p = "handler"
    BY DEF Proc
  <2>3. phase \in {"register", "running"}
    BY <1>0, <2>1, <2>2, Apart DEF PhaseInv
  <2> QED
    BY <2>1, <2>3 DEF Early
<1>4. CASE HandlerStep
  BY <1>4 DEF HandlerStep, Take, HandlerExit, Cancelled
<1>5. CASE LoopStep
  <2>1. CASE Reply
    <3>1. phase \in {"dial", "running"}
      BY <1>0, <2>1 DEF Reply, Dialing, PhaseInv
    <3> QED
      BY <2>1, <3>1 DEF Reply, Early
  <2>2. CASE Dial \/ Ask \/ Read \/ Hydrate \/ HydrateFails \/ Send \/ LoopStops \/ ReadFails
             \/ Redial \/ ReadAgain
    BY <2>2 DEF Dial, Ask, Read, Hydrate, HydrateFails, Send, LoopStops, ReadFails, Redial, ReadAgain
  <2> QED
    BY <1>5, <2>1, <2>2 DEF LoopStep
<1>6. CASE Exit
  BY <1>6 DEF Exit
<1>7. CASE DialFails
  BY <1>7 DEF DialFails
<1> QED
  BY <1>1, <1>2, <1>3, <1>4, <1>5, <1>6, <1>7 DEF Next, MainStep

LEMMA KeptStep == Base /\ KeptInv /\ [Next]_vars => KeptInv'
<1> SUFFICES ASSUME Base, KeptInv, [Next]_vars PROVE KeptInv'
  OBVIOUS
<1>1. CASE Vanish
  BY <1>1 DEF Vanish, KeptInv
<1>2. CASE Start
  <2>1. /\ phase' = "fetch" /\ file' = file
        /\ kept' = IF file = Torn THEN {} ELSE NamesIn(file)
    BY <1>2 DEF Start, viewVars
  <2>2. LocalViews' = IF file = Torn THEN <<>> ELSE file
    BY <2>1 DEF LocalViews
  <2>3. kept' \subseteq NamesIn(LocalViews')
    BY <2>1, <2>2
  <2> QED
    BY <2>1, <2>3 DEF KeptInv
<1>3. CASE LoadLocal
  <2>1. /\ phase = "local" /\ phase' = "wasm" /\ kept' = kept
        /\ todo' \in Deduplicate(todo \o LocalViews)
    BY <1>3 DEF LoadLocal
  <2>2. LocalViews \in Seq(Item) /\ todo \in Seq(Item)
    BY EmptySeq DEF LocalViews, Base, TypeInv, ViewTypes, HostTypes
  <2>3. NamesIn(todo') = NamesIn(todo) \cup NamesIn(LocalViews)
    BY <2>1, <2>2, DeduplicateFacts, NamesConcat
  <2>4. kept' \subseteq Covered'
    BY <2>1, <2>3 DEF KeptInv, Covered
  <2> QED
    BY <2>1, <2>4 DEF KeptInv
<1>4. CASE /\ Onward /\ kept' = kept
           /\ phase' \in Early => phase \in Early /\ file' = file
           /\ phase' \in {"wasm", "register", "dial", "running"} =>
                phase \in {"wasm", "register", "dial", "running"}
  <2>1. file' = file => LocalViews' = LocalViews
    BY DEF LocalViews
  <2>2. Covered \subseteq Covered'
    BY <1>4 DEF Onward
  <2> QED
    BY <1>4, <2>1, <2>2 DEF KeptInv, Early
<1> QED
  BY <1>1, <1>2, <1>3, <1>4, EveryStep, PhaseSteps

\* Whatever the hub lists and however the start was interrupted before, a host that has loaded
\* its views has every view of the registry file active, or has given it up.
THEOREM RecoveredCorrect == Spec => []Recovered
<1>1. Init => KeptInv
  BY DEF Init, KeptInv
<1>2. Base /\ KeptInv /\ [Next]_vars => (Base /\ KeptInv)'
  BY BaseStep, KeptStep
<1>3. Base /\ KeptInv => Recovered
  BY WhenRunning DEF KeptInv, Recovered
<1> QED
  BY <1>1, <1>2, <1>3, BaseInit, PTL DEF Spec
=============================================================================
