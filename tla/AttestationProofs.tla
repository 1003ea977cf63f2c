-------------------------- MODULE AttestationProofs --------------------------
(***************************************************************************)
(* Theorems about module Attestation, for any signatures, any number of    *)
(* workers and any sizes of the queue and the cache.                       *)
(***************************************************************************)
EXTENDS Attestation, TLAPS, SequenceTheorems, FiniteSetTheorems, NaturalsInduction

-----------------------------------------------------------------------------
(* Facts about the values.                                                 *)

\* An event is no placeholder, and a record field never hides one.
LEMMA EventFacts ==
  ASSUME NEW e \in Event
  PROVE  e # <<>> /\ e.sig \in Sig /\ e.at \in Nat
<1>1. e.sig \in Sig /\ e.at \in Nat
  BY DEF Event
<1>2. DOMAIN e = {"sig", "at"}
  BY DEF Event
<1>3. DOMAIN <<>> = {}
  OBVIOUS
<1> QED
  BY <1>1, <1>2, <1>3

\* What the content of a signature gives a record: its ID names the block and the root.
LEMMA SigFacts ==
  ASSUME NEW s \in Sig
  PROVE  /\ Attested(s) \in AttestedDoc /\ SignerOf(s) \in Signer
         /\ CidsOf(s) \subseteq Cid
         /\ NewDocID(s) \in DocID /\ NewDocID(s)[1] = Attested(s)
         /\ BlockOf(s) \in Int
<1>1. CidsOf(s) \subseteq Cid
  BY DEF Cid
<1>2. BlockOf(s) \in Int
  BY SigAssumption DEF BlockOf
<1>3. NewDocID(s)[1] = Attested(s)
  BY DEF NewDocID
<1> QED
  BY <1>1, <1>2, <1>3 DEF AttestedDoc, Signer, DocID

LEMMA DocIDFacts ==
  ASSUME NEW id \in DocID, NEW src, NEW cs
  PROVE  [id |-> id, sources |-> src, cids |-> cs] # NoDoc
<1>1. PICK s \in Sig : id = NewDocID(s)
  BY DEF DocID
<1>2. id # <<>>
  BY <1>1 DEF NewDocID
<1> QED
  BY <1>2 DEF NoDoc

\* What a lookup returned is nothing, or a document ID with lists.
LEMMA FoundFacts ==
  ASSUME NEW f \in Found
  PROVE  /\ f.sources \subseteq Signer /\ f.cids \subseteq Cid
         /\ f # NoDoc => f.id \in DocID
         /\ f = NoDoc => f.sources = {} /\ f.cids = {}
BY DEF Found, NoDoc

-----------------------------------------------------------------------------
(* The variables keep their types.                                         *)

LEMMA TypeInit == Init => TypeOK
<1> SUFFICES ASSUME Init PROVE TypeOK
  OBVIOUS
<1>1. docQueue \in Seq(Event) /\ Len(docQueue) <= QueueSize
  BY SizeAssumption DEF Init
<1>2. found \in [Worker -> Found]
  BY DEF Init, Found
<1>3. attempt \in [Worker -> 0..(MaxAttempts - 1)]
  BY SizeAssumption DEF Init
<1>4. stale \in [Worker -> BOOLEAN] /\ verifierSet \in BOOLEAN /\ stopped \in BOOLEAN
  BY Zenon DEF Init
<1>5. DOMAIN records = {} /\ DOMAIN cache = {}
  BY DEF Init
<1>6. /\ hand \in Event \cup {<<>>}
      /\ lpc \in {"recv", "send", "drop", "gone"}
      /\ wpc \in [Worker -> {"idle", "fetch", "lookup", "save", "gone"}]
      /\ job \in [Worker -> Event \cup {<<>>}]
      /\ arrivals \in Nat /\ faults \in Nat
      /\ dropped = {} /\ accepted = {} /\ posted = {} /\ raced = {}
  BY DEF Init
<1> QED
  BY <1>1, <1>2, <1>3, <1>4, <1>5, <1>6 DEF TypeOK

\* A worker has an event exactly while it is at work on one.
BusyHaveJobs ==
  \A w \in Worker : job[w] # <<>> <=> wpc[w] \in {"fetch", "lookup", "save"}

\* The listener holds an event exactly while it is enqueueing it.
HandHeld == hand # <<>> <=> lpc \in {"send", "drop"}

TypeInv == TypeOK /\ BusyHaveJobs /\ HandHeld

\* A worker at work has a signature in hand.
LEMMA JobFacts ==
  ASSUME TypeInv, NEW w \in Worker, wpc[w] \in {"fetch", "lookup", "save"}
  PROVE  job[w] \in Event /\ job[w].sig \in Sig /\ job[w].at \in Nat
<1>1. job[w] \in Event
  BY DEF TypeInv, TypeOK, BusyHaveJobs
<1> QED
  BY <1>1, EventFacts

LEMMA DoneFacts ==
  ASSUME TypeInv, NEW w \in Worker, Done(w)
  PROVE  /\ wpc' \in [Worker -> {"idle", "fetch", "lookup", "save", "gone"}]
         /\ job' \in [Worker -> Event \cup {<<>>}]
         /\ attempt' \in [Worker -> 0..(MaxAttempts - 1)]
         /\ found' \in [Worker -> Found]
         /\ BusyHaveJobs'
         /\ wpc'[w] = "idle" /\ job'[w] = <<>>
         /\ \A v \in Worker \ {w} : wpc'[v] = wpc[v] /\ job'[v] = job[v] /\ found'[v] = found[v]
<1>1. NoDoc \in Found /\ 0 \in 0..(MaxAttempts - 1)
  BY SizeAssumption DEF Found
<1>2. BusyHaveJobs'
  BY DEF TypeInv, TypeOK, Done, Goto, BusyHaveJobs
<1> QED
  BY <1>1, <1>2 DEF TypeInv, TypeOK, Done, Goto

\* The queue after an event was put at its end or taken from its front.
LEMMA QueueFacts ==
  ASSUME docQueue \in Seq(Event)
  PROVE  /\ Len(docQueue) \in Nat /\ DOMAIN docQueue = 1..Len(docQueue)
         /\ \A i \in DOMAIN docQueue : docQueue[i] \in Event
         /\ docQueue # <<>> =>
              /\ Head(docQueue) \in Event /\ Head(docQueue) = docQueue[1]
              /\ 1 \in DOMAIN docQueue
              /\ Tail(docQueue) \in Seq(Event)
              /\ Len(Tail(docQueue)) = Len(docQueue) - 1
              /\ DOMAIN Tail(docQueue) = 1..(Len(docQueue) - 1)
              /\ \A i \in DOMAIN Tail(docQueue) :
                   i + 1 \in DOMAIN docQueue /\ Tail(docQueue)[i] = docQueue[i + 1]
<1>1. Len(docQueue) \in Nat /\ DOMAIN docQueue = 1..Len(docQueue)
      /\ \A i \in DOMAIN docQueue : docQueue[i] \in Event
  BY LenProperties, ElementOfSeq
<1>2. ASSUME docQueue # <<>>
      PROVE  /\ Head(docQueue) \in Event /\ Head(docQueue) = docQueue[1]
             /\ 1 \in DOMAIN docQueue
             /\ Tail(docQueue) \in Seq(Event)
             /\ Len(Tail(docQueue)) = Len(docQueue) - 1
             /\ DOMAIN Tail(docQueue) = 1..(Len(docQueue) - 1)
             /\ \A i \in DOMAIN Tail(docQueue) :
                  i + 1 \in DOMAIN docQueue /\ Tail(docQueue)[i] = docQueue[i + 1]
  <2>1. Len(docQueue) > 0
    BY <1>1, <1>2, EmptySeq
  <2>2. /\ Head(docQueue) \in Event /\ Tail(docQueue) \in Seq(Event)
        /\ Len(Tail(docQueue)) = Len(docQueue) - 1
        /\ \A i \in 1..Len(Tail(docQueue)) : Tail(docQueue)[i] = docQueue[i + 1]
    BY <1>2, HeadTailProperties
  <2>3. Head(docQueue) = docQueue[1]
    BY <1>2
  <2>4. DOMAIN Tail(docQueue) = 1..(Len(docQueue) - 1)
    BY <2>2, LenProperties
  <2> QED
    BY <1>1, <2>1, <2>2, <2>3, <2>4
<1> QED
  BY <1>1, <1>2

LEMMA AppendFacts ==
  ASSUME docQueue \in Seq(Event), NEW e \in Event
  PROVE  LET q == Append(docQueue, e) IN
         /\ q \in Seq(Event) /\ Len(q) = Len(docQueue) + 1
         /\ DOMAIN q = 1..(Len(docQueue) + 1)
         /\ \A i \in DOMAIN docQueue : q[i] = docQueue[i]
         /\ q[Len(docQueue) + 1] = e
<1> DEFINE q == Append(docQueue, e)
<1>1. /\ q \in Seq(Event) /\ Len(q) = Len(docQueue) + 1
      /\ \A i \in 1..Len(docQueue) : q[i] = docQueue[i]
      /\ q[Len(docQueue) + 1] = e
  BY AppendProperties
<1>2. DOMAIN q = 1..Len(q) /\ DOMAIN docQueue = 1..Len(docQueue)
  BY <1>1, LenProperties
<1> QED
  BY <1>1, <1>2

\* BlockSignatureCache.Add: the signature is in, or its block was evicted at once.
LEMMA CacheAddFacts ==
  ASSUME TypeOK, NEW s \in Sig, CacheAdd(s)
  PROVE  LET all == DOMAIN cache \cup {BlockOf(s)} IN
         /\ \E out \in IF Cardinality(all) > CacheSize THEN Evict(all) ELSE {{}} :
              DOMAIN cache' = all \ out
         /\ \A b \in DOMAIN cache' : cache'[b] \in Sig
         /\ DOMAIN cache' \subseteq {BlockOf(t) : t \in Sig}
<1> DEFINE all == DOMAIN cache \cup {BlockOf(s)}
           outs == IF Cardinality(all) > CacheSize THEN Evict(all) ELSE {{}}
<1>1. PICK out \in outs :
             cache' = [b \in all \ out |-> IF b = BlockOf(s) THEN s ELSE cache[b]]
  BY DEF CacheAdd
<1> HIDE DEF outs
<1>2. DOMAIN cache' = all \ out /\ \A b \in DOMAIN cache' : cache'[b] \in Sig
  BY <1>1 DEF TypeOK
<1>3. all \subseteq {BlockOf(t) : t \in Sig}
  BY DEF TypeOK
<1> QED
  BY <1>1, <1>2, <1>3 DEF outs

\* A committed save: what it writes and what it leaves.
LEMMA SaveFacts ==
  ASSUME TypeInv, NEW w \in Worker, Save(w)
  PROVE  LET s == job[w].sig
             id == Target(w)
         IN  /\ s \in Sig /\ job[w].at \in Nat
             /\ id \in DocID
             /\ DOMAIN records' = DOMAIN records \cup {id}
             /\ records'[id] = Merged(w)
             /\ \A i \in DOMAIN records \ {id} : records'[i] = records[i]
             /\ Merged(w) \in Record
             /\ Merged(w).attested = Attested(s)
             /\ Merged(w).sources = found[w].sources \cup {SignerOf(s)}
             /\ Merged(w).cids = found[w].cids \cup CidsOf(s)
             /\ Merged(w).votes = VotesNow(w) + 1
             /\ VotesNow(w) \in Nat
             /\ posted' = posted \cup {[at |-> job[w].at, sig |-> s, id |-> id]}
<1> DEFINE s == job[w].sig
           id == Target(w)
<1>1. s \in Sig /\ job[w].at \in Nat
  BY JobFacts DEF Save
<1>2. found[w] \in Found
  BY DEF TypeInv, TypeOK
<1>3. id \in DocID
  BY <1>1, <1>2, SigFacts, FoundFacts DEF Target
<1>4. VotesNow(w) \in Nat
  BY DEF VotesNow, TypeInv, TypeOK, Record
<1>5. Merged(w) = [attested |-> Attested(s), sources |-> found[w].sources \cup {SignerOf(s)},
                   cids |-> found[w].cids \cup CidsOf(s), votes |-> VotesNow(w) + 1]
  BY DEF Merged
<1>6. Merged(w) \in Record
  BY <1>1, <1>2, <1>4, <1>5, SigFacts, FoundFacts DEF Record
<1>7. records' = [i \in DOMAIN records \cup {id} |-> IF i = id THEN Merged(w) ELSE records[i]]
      /\ posted' = posted \cup {[at |-> job[w].at, sig |-> s, id |-> id]}
  BY DEF Save
<1> HIDE DEF s, id
<1>8. /\ DOMAIN records' = DOMAIN records \cup {id}
      /\ records'[id] = Merged(w)
      /\ \A i \in DOMAIN records \ {id} : records'[i] = records[i]
  BY <1>7
<1>9. /\ Merged(w).attested = Attested(s)
      /\ Merged(w).sources = found[w].sources \cup {SignerOf(s)}
      /\ Merged(w).cids = found[w].cids \cup CidsOf(s)
      /\ Merged(w).votes = VotesNow(w) + 1
  BY <1>5
<1> QED
  BY <1>1, <1>3, <1>4, <1>6, <1>7, <1>8, <1>9 DEF s, id

LEMMA TypeStep == TypeInv /\ [Next]_vars => TypeInv'
<1> SUFFICES ASSUME TypeInv, [Next]_vars PROVE TypeInv'
  OBVIOUS
<1> USE DEF listenerVars, workerVars, dbVars
<1>0. /\ TypeOK /\ BusyHaveJobs /\ HandHeld
      /\ MaxAttempts \in Nat /\ QueueSize \in Nat /\ Len(docQueue) \in Nat
  BY SizeAssumption, QueueFacts DEF TypeInv, TypeOK
\* A step of the listener leaves the workers and the store alone.
<1>l. ASSUME UNCHANGED <<workerVars, dbVars, verifierSet, stopped, cache, faults, accepted>>,
             hand' \in Event \cup {<<>>}, lpc' \in {"recv", "send", "drop", "gone"},
             docQueue' \in Seq(Event), Len(docQueue') <= QueueSize,
             arrivals' \in Nat, dropped' \subseteq Nat, HandHeld'
      PROVE  TypeInv'
  BY <1>0, <1>l DEF TypeInv, TypeOK, BusyHaveJobs
\* A step of a worker that touches neither the queue nor the store.
<1>w. ASSUME UNCHANGED <<listenerVars, dbVars, verifierSet, stopped, cache, accepted>>,
             faults' \in Nat, stale' \in [Worker -> BOOLEAN],
             wpc' \in [Worker -> {"idle", "fetch", "lookup", "save", "gone"}],
             job' \in [Worker -> Event \cup {<<>>}],
             attempt' \in [Worker -> 0..(MaxAttempts - 1)],
             found' \in [Worker -> Found], BusyHaveJobs'
      PROVE  TypeInv'
  BY <1>0, <1>w DEF TypeInv, TypeOK, HandHeld
<1>1. ASSUME NEW s \in Sig, Receive(s) PROVE TypeInv'
  <2>1. hand' \in Event /\ arrivals' \in Nat
    BY <1>0, <1>1 DEF Receive, Event, TypeOK
  <2>2. HandHeld'
    BY <1>1, <2>1, EventFacts DEF Receive, HandHeld
  <2> QED
    BY <1>0, <1>1, <1>l, <2>1, <2>2 DEF Receive, TypeOK
<1>2. CASE Enqueue
  <2>1. hand \in Event
    BY <1>0, <1>2 DEF Enqueue, HandHeld, TypeOK
  <2>2. CASE Len(docQueue) < QueueSize
    <3>1. docQueue' \in Seq(Event) /\ Len(docQueue') <= QueueSize
      <4>1. docQueue' = Append(docQueue, hand) /\ docQueue \in Seq(Event)
        BY <1>0, <1>2, <2>2 DEF Enqueue, TypeOK
      <4> QED
        BY <1>0, <2>1, <2>2, <4>1, AppendFacts
    <3>2. HandHeld'
      BY <1>2, <2>2 DEF Enqueue, HandHeld
    <3> QED
      BY <1>0, <1>2, <1>l, <2>2, <3>1, <3>2 DEF Enqueue, TypeOK
  <2>3. CASE ~(Len(docQueue) < QueueSize)
    <3>1. HandHeld'
      BY <1>0, <1>2, <2>3 DEF Enqueue, HandHeld
    <3> QED
      BY <1>0, <1>2, <1>l, <2>3, <3>1 DEF Enqueue, TypeOK
  <2> QED
    BY <2>2, <2>3
<1>3. CASE DropOldest
  <2>1. HandHeld'
    BY <1>0, <1>3 DEF DropOldest, HandHeld
  <2>2. CASE docQueue = <<>>
    BY <1>0, <1>3, <1>l, <2>1, <2>2 DEF DropOldest, TypeOK
  <2>3. CASE docQueue # <<>>
    <3>1. docQueue' \in Seq(Event) /\ Len(docQueue') <= QueueSize /\ Head(docQueue).at \in Nat
      <4>1. docQueue' = Tail(docQueue) /\ docQueue \in Seq(Event) /\ Len(docQueue) <= QueueSize
        BY <1>0, <1>3, <2>3 DEF DropOldest, TypeOK
      <4> QED
        BY <1>0, <2>3, <4>1, QueueFacts, EventFacts
    <3> QED
      BY <1>0, <1>3, <1>l, <2>1, <2>3, <3>1 DEF DropOldest, TypeOK
  <2> QED
    BY <2>2, <2>3
<1>4. CASE ListenerExit
  <2>1. HandHeld'
    BY <1>0, <1>4 DEF ListenerExit, HandHeld
  <2> QED
    BY <1>0, <1>4, <1>l, <2>1 DEF ListenerExit, TypeOK
<1>5. ASSUME NEW w \in Worker, Take(w) PROVE TypeInv'
  <2>1. /\ docQueue' \in Seq(Event) /\ Len(docQueue') <= QueueSize
        /\ Head(docQueue) \in Event /\ Head(docQueue) # <<>>
    BY <1>0, <1>5, QueueFacts, EventFacts DEF Take, TypeOK
  <2>2. /\ wpc' \in [Worker -> {"idle", "fetch", "lookup", "save", "gone"}]
        /\ job' \in [Worker -> Event \cup {<<>>}]
    BY <1>0, <1>5, <2>1 DEF Take, Goto, TypeOK
  <2>3. BusyHaveJobs'
    BY <1>0, <1>5, <2>1 DEF Take, Goto, TypeOK, BusyHaveJobs
  <2> QED
    BY <1>0, <1>5, <2>1, <2>2, <2>3 DEF Take, TypeOK, TypeInv, HandHeld
<1>6. ASSUME NEW w \in Worker, WorkerExit(w) PROVE TypeInv'
  <2>1. BusyHaveJobs'
    BY <1>0, <1>6 DEF WorkerExit, Goto, TypeOK, BusyHaveJobs
  <2> QED
    BY <1>0, <1>6, <1>w, <2>1 DEF WorkerExit, Goto, TypeOK
<1>7. ASSUME NEW w \in Worker, Process(w) PROVE TypeInv'
  <2>1. job[w].sig \in Sig
    BY <1>7, JobFacts DEF Process
  <2>2. /\ wpc' \in [Worker -> {"idle", "fetch", "lookup", "save", "gone"}]
        /\ job' \in [Worker -> Event \cup {<<>>}]
        /\ attempt' \in [Worker -> 0..(MaxAttempts - 1)]
        /\ found' \in [Worker -> Found]
        /\ BusyHaveJobs'
    <3>1. CASE Done(w)
      BY <3>1, DoneFacts
    <3>2. CASE Goto(w, "lookup") /\ UNCHANGED <<job, attempt, found>>
      BY <1>0, <1>7, <3>2 DEF Process, Goto, TypeOK, BusyHaveJobs
    <3> QED
      BY <1>7, <3>1, <3>2 DEF Process
  <2>3. /\ DOMAIN cache' \subseteq {BlockOf(t) : t \in Sig}
        /\ \A b \in DOMAIN cache' : cache'[b] \in Sig
        /\ accepted' \subseteq Sig
    <3>1. CASE CacheAdd(job[w].sig) /\ accepted' = accepted \cup {job[w].sig}
      BY <1>0, <2>1, <3>1, CacheAddFacts DEF TypeOK
    <3>2. CASE UNCHANGED <<cache, accepted>>
      BY <1>0, <3>2 DEF TypeOK
    <3> QED
      BY <1>7, <3>1, <3>2 DEF Process
  <2> QED
    BY <1>0, <1>7, <2>2, <2>3 DEF Process, TypeInv, TypeOK, HandHeld
<1>8. ASSUME NEW w \in Worker, FetchFails(w) PROVE TypeInv'
  <2>1. faults' \in Nat
    BY <1>0, <1>8 DEF FetchFails, TypeOK
  <2> QED
    BY <1>0, <1>8, <1>w, <2>1, DoneFacts DEF FetchFails, TypeOK
<1>9. ASSUME NEW w \in Worker, Lookup(w) PROVE TypeInv'
  <2>1. found' \in [Worker -> Found]
    <3>1. CASE found' = [found EXCEPT ![w] = NoDoc]
      BY <1>0, <3>1 DEF TypeOK, Found
    <3>2. ASSUME NEW id \in Matching(job[w].sig),
                 found' = [found EXCEPT ![w] = [id |-> id, sources |-> records[id].sources,
                                                cids |-> records[id].cids]]
          PROVE  found' \in [Worker -> Found]
      <4>1. id \in DocID /\ records[id] \in Record
        BY <1>0, <3>2 DEF Matching, RecordsOf, TypeOK
      <4>2. [id |-> id, sources |-> records[id].sources, cids |-> records[id].cids] \in Found
        BY <4>1 DEF Record, Found
      <4> QED
        BY <1>0, <3>2, <4>2 DEF TypeOK
    <3> QED
      BY <1>9, <3>1, <3>2 DEF Lookup
  <2>2. BusyHaveJobs' /\ wpc' \in [Worker -> {"idle", "fetch", "lookup", "save", "gone"}]
    BY <1>0, <1>9 DEF Lookup, Goto, TypeOK, BusyHaveJobs
  <2>3. stale' \in [Worker -> BOOLEAN]
    BY <1>0, <1>9 DEF Lookup, Fresh, TypeOK
  <2>4. /\ UNCHANGED <<listenerVars, dbVars, verifierSet, stopped, cache, accepted>>
        /\ UNCHANGED <<faults, job, attempt>>
    BY <1>9 DEF Lookup
  <2> QED
    BY <1>0, <1>w, <2>1, <2>2, <2>3, <2>4 DEF TypeOK
<1>10. ASSUME NEW w \in Worker, LookupBlind(w) PROVE TypeInv'
  <2>1. found' \in [Worker -> Found]
    BY <1>0, <1>10 DEF LookupBlind, TypeOK, Found
  <2>2. BusyHaveJobs' /\ wpc' \in [Worker -> {"idle", "fetch", "lookup", "save", "gone"}]
    BY <1>0, <1>10 DEF LookupBlind, Goto, TypeOK, BusyHaveJobs
  <2>3. stale' \in [Worker -> BOOLEAN]
    BY <1>0, <1>10 DEF LookupBlind, TypeOK
  <2> QED
    BY <1>0, <1>10, <1>w, <2>1, <2>2, <2>3 DEF LookupBlind, TypeOK
<1>11. ASSUME NEW w \in Worker, Save(w) PROVE TypeInv'
  <2>1. /\ wpc' \in [Worker -> {"idle", "fetch", "lookup", "save", "gone"}]
        /\ job' \in [Worker -> Event \cup {<<>>}]
        /\ attempt' \in [Worker -> 0..(MaxAttempts - 1)]
        /\ found' \in [Worker -> Found]
        /\ BusyHaveJobs'
    BY <1>11, DoneFacts DEF Save
  <2>2. stale' \in [Worker -> BOOLEAN]
    BY <1>0, <1>11 DEF Save, TypeOK
  <2>3. /\ DOMAIN records' \subseteq DocID
        /\ \A id \in DOMAIN records' : records'[id] \in Record
    <3>1. /\ DOMAIN records \subseteq DocID
          /\ \A id \in DOMAIN records : records[id] \in Record
      BY <1>0 DEF TypeOK
    <3>2. /\ DOMAIN records' = DOMAIN records \cup {Target(w)} /\ Target(w) \in DocID
          /\ records'[Target(w)] \in Record
          /\ \A i \in DOMAIN records \ {Target(w)} : records'[i] = records[i]
      BY <1>11, SaveFacts, Zenon
    <3> QED
      BY <3>1, <3>2, Zenon
  <2>4. posted' \subseteq [at : Nat, sig : Sig, id : DocID]
    <3>1. /\ posted' = posted \cup {[at |-> job[w].at, sig |-> job[w].sig, id |-> Target(w)]}
          /\ job[w].at \in Nat /\ job[w].sig \in Sig /\ Target(w) \in DocID
      BY <1>11, SaveFacts, Zenon
    <3> QED
      BY <1>0, <3>1 DEF TypeOK
  <2>5. raced' \subseteq AttestedDoc
    <3>1. Attested(job[w].sig) \in AttestedDoc
      BY <1>11, SaveFacts, SigFacts
    <3> QED
      BY <1>0, <1>11, <3>1 DEF Save, TypeOK
  <2>6. UNCHANGED <<listenerVars, verifierSet, stopped, cache, faults, accepted>>
    BY <1>11 DEF Save
  <2> QED
    BY <1>0, <2>1, <2>2, <2>3, <2>4, <2>5, <2>6 DEF TypeInv, TypeOK, HandHeld
<1>12. ASSUME NEW w \in Worker, Conflict(w) PROVE TypeInv'
  <2>1. stale' \in [Worker -> BOOLEAN]
    BY <1>0, <1>12 DEF Conflict, Fresh, TypeOK
  <2>2. CASE attempt[w] + 1 < MaxAttempts
    <3>1. attempt' \in [Worker -> 0..(MaxAttempts - 1)]
      <4>1. attempt[w] + 1 \in 0..(MaxAttempts - 1)
        BY <1>0, <2>2 DEF TypeOK
      <4> QED
        BY <1>0, <1>12, <2>2, <4>1 DEF Conflict, TypeOK
    <3>2. found' \in [Worker -> Found]
      BY <1>0, <1>12, <2>2 DEF Conflict, TypeOK, Found
    <3>3. BusyHaveJobs' /\ wpc' \in [Worker -> {"idle", "fetch", "lookup", "save", "gone"}]
      BY <1>0, <1>12, <2>2 DEF Conflict, Goto, TypeOK, BusyHaveJobs
    <3> QED
      BY <1>0, <1>12, <1>w, <2>1, <2>2, <3>1, <3>2, <3>3 DEF Conflict, TypeOK
  <2>3. CASE ~(attempt[w] + 1 < MaxAttempts)
    BY <1>0, <1>12, <1>w, <2>1, <2>3, DoneFacts DEF Conflict, TypeOK
  <2> QED
    BY <2>2, <2>3
<1>13. ASSUME NEW w \in Worker, PostFails(w) PROVE TypeInv'
  <2>1. stale' \in [Worker -> BOOLEAN] /\ faults' \in Nat
    BY <1>0, <1>13 DEF PostFails, Fresh, TypeOK
  <2> QED
    BY <1>0, <1>13, <1>w, <2>1, DoneFacts DEF PostFails
<1>14. CASE SetVerifier \/ Stop
  <2>1. verifierSet' \in BOOLEAN /\ stopped' \in BOOLEAN
    BY <1>0, <1>14 DEF SetVerifier, Stop, TypeOK
  <2>2. UNCHANGED <<listenerVars, workerVars, dbVars, cache, faults, accepted>>
    BY <1>14 DEF SetVerifier, Stop
  <2> QED
    BY <1>0, <2>1, <2>2 DEF TypeInv, TypeOK, BusyHaveJobs, HandHeld
<1>15. CASE UNCHANGED vars
  BY <1>0, <1>15 DEF vars, TypeInv, TypeOK, BusyHaveJobs, HandHeld
<1> QED
  BY <1>1, <1>2, <1>3, <1>4, <1>5, <1>6, <1>7, <1>8, <1>9, <1>10, <1>11, <1>12, <1>13, <1>14, <1>15
     DEF Next, ListenerStep, WorkerStep

\* Every variable of the listener, the workers, the records and the cache keeps its type:
\* the queue stays within its size and no worker tries a post too often.
THEOREM TypeCorrect == Spec => []TypeOK
<1>1. Init => TypeInv
  BY TypeInit DEF Init, TypeInv, BusyHaveJobs, HandHeld
<1>2. TypeInv => TypeOK
  BY DEF TypeInv
<1> QED
  BY <1>1, <1>2, TypeStep, PTL DEF Spec

-----------------------------------------------------------------------------
(* The queue is in order and drops its oldest.                             *)

\* The arrival numbers that have left the queue.
Past ==
  dropped \cup {job[w].at : w \in {v \in Worker : job[v] # <<>>}} \cup {p.at : p \in posted}

\* The strengthening of OldestDropped: not only what was dropped but everything that left
\* the queue is older than what is queued, and that is older than what is being enqueued.
InOrder ==
  /\ \A a \in Past :
       /\ a \in Nat /\ a < arrivals
       /\ \A i \in DOMAIN docQueue : a < docQueue[i].at
       /\ hand # <<>> => a < hand.at
  /\ \A i \in DOMAIN docQueue :
       /\ docQueue[i].at < arrivals
       /\ \A j \in 1..(i - 1) : docQueue[j].at < docQueue[i].at
       /\ hand # <<>> => docQueue[i].at < hand.at
  /\ hand # <<>> => hand.at < arrivals

\* No arrival is processed twice: jobs and posts carry different arrival numbers.
Distinct ==
  \A w \in Worker : job[w] # <<>> =>
    /\ \A v \in Worker : v # w /\ job[v] # <<>> => job[v].at # job[w].at
    /\ \A p \in posted : p.at # job[w].at

OrderInv == InOrder /\ Distinct

LEMMA OrderInit == Init => OrderInv
<1> SUFFICES ASSUME Init PROVE OrderInv
  OBVIOUS
<1>1. /\ hand = <<>> /\ DOMAIN docQueue = {}
      /\ \A w \in Worker : job[w] = <<>>
      /\ dropped = {} /\ posted = {}
  BY DEF Init
<1>2. Past = {}
  BY <1>1 DEF Past
<1> QED
  BY <1>1, <1>2 DEF OrderInv, InOrder, Distinct

\* The front of the queue was dropped or taken.
LEMMA FrontLeaves ==
  ASSUME TypeInv, InOrder, docQueue # <<>>, docQueue' = Tail(docQueue),
         hand' = hand, arrivals' = arrivals, Past' \subseteq Past \cup {Head(docQueue).at}
  PROVE  InOrder'
<1> DEFINE n == Len(docQueue)
           h == Head(docQueue).at
<1>1. /\ n \in Nat /\ DOMAIN docQueue = 1..n /\ 1 \in DOMAIN docQueue
      /\ h = docQueue[1].at /\ h \in Nat
      /\ DOMAIN docQueue' = 1..(n - 1)
      /\ \A i \in 1..(n - 1) : docQueue'[i] = docQueue[i + 1] /\ i + 1 \in 1..n
  BY QueueFacts, EventFacts DEF TypeInv, TypeOK
<1>2. /\ \A a \in Past :
           /\ a \in Nat /\ a < arrivals
           /\ \A i \in 1..n : a < docQueue[i].at
           /\ hand # <<>> => a < hand.at
      /\ \A i \in 1..n :
           /\ docQueue[i].at < arrivals
           /\ \A j \in 1..(i - 1) : docQueue[j].at < docQueue[i].at
           /\ hand # <<>> => docQueue[i].at < hand.at
      /\ hand # <<>> => hand.at < arrivals
  BY <1>1 DEF InOrder
<1> HIDE DEF n, h
<1>3. \A i \in 1..(n - 1) :
         /\ docQueue'[i].at < arrivals
         /\ hand # <<>> => docQueue'[i].at < hand.at
         /\ h < docQueue'[i].at
  <2> SUFFICES ASSUME NEW i \in 1..(n - 1)
               PROVE  /\ docQueue'[i].at < arrivals
                      /\ hand # <<>> => docQueue'[i].at < hand.at
                      /\ h < docQueue'[i].at
    OBVIOUS
  <2>1. docQueue'[i] = docQueue[i + 1] /\ i + 1 \in 1..n /\ 1 \in 1..((i + 1) - 1)
    BY <1>1
  <2> QED
    BY <1>1, <1>2, <2>1
<1>4. \A i \in 1..(n - 1) : \A j \in 1..(i - 1) : docQueue'[j].at < docQueue'[i].at
  <2> SUFFICES ASSUME NEW i \in 1..(n - 1), NEW j \in 1..(i - 1)
               PROVE  docQueue'[j].at < docQueue'[i].at
    OBVIOUS
  <2>1. /\ docQueue'[i] = docQueue[i + 1] /\ docQueue'[j] = docQueue[j + 1]
        /\ i + 1 \in 1..n /\ j + 1 \in 1..((i + 1) - 1)
    BY <1>1
  <2> QED
    BY <1>2, <2>1
<1>5. \A a \in Past' :
         /\ a \in Nat /\ a < arrivals
         /\ \A i \in 1..(n - 1) : a < docQueue'[i].at
         /\ hand # <<>> => a < hand.at
  <2>1. ASSUME NEW a \in Past
        PROVE  \A i \in 1..(n - 1) : a < docQueue'[i].at
    BY <1>1, <1>2, <2>1
  <2>2. h < arrivals /\ (hand # <<>> => h < hand.at)
    BY <1>1, <1>2
  <2>3. \A a \in Past' : a \in Past \/ a = h
    BY DEF h
  <2> QED
    BY <1>1, <1>2, <1>3, <2>1, <2>2, <2>3
<1> QED
  BY <1>1, <1>2, <1>3, <1>4, <1>5 DEF InOrder

LEMMA OrderStep == TypeInv /\ OrderInv /\ [Next]_vars => OrderInv'
<1> SUFFICES ASSUME TypeInv, OrderInv, [Next]_vars PROVE OrderInv'
  OBVIOUS
<1> USE DEF listenerVars, workerVars, dbVars
<1>0. TypeOK /\ InOrder /\ Distinct /\ docQueue \in Seq(Event) /\ arrivals \in Nat
  BY DEF TypeInv, TypeOK, OrderInv
\* A step of a worker on its own event.
<1>w. ASSUME UNCHANGED listenerVars, posted' = posted,
             \A v \in Worker : job'[v] = <<>> \/ job'[v] = job[v]
      PROVE  OrderInv'
  <2>1. Past' \subseteq Past
    BY <1>w DEF Past
  <2>2. InOrder'
    BY <1>0, <1>w, <2>1 DEF InOrder
  <2>3. Distinct'
    BY <1>0, <1>w DEF Distinct
  <2> QED
    BY <2>2, <2>3 DEF OrderInv
<1>d. ASSUME NEW w \in Worker, Done(w) PROVE \A v \in Worker : job'[v] = <<>> \/ job'[v] = job[v]
  BY <1>d, DoneFacts
<1>1. ASSUME NEW s \in Sig, Receive(s) PROVE OrderInv'
  <2>1. /\ hand' = [sig |-> s, at |-> arrivals] /\ hand'.at = arrivals
        /\ arrivals' = arrivals + 1 /\ docQueue' = docQueue
        /\ UNCHANGED <<dropped, job, posted>>
    BY <1>1 DEF Receive
  <2>2. Past' = Past
    BY <2>1 DEF Past
  <2>3. \A i \in DOMAIN docQueue : docQueue[i].at \in Nat
    BY <1>0, QueueFacts, EventFacts
  <2>4. InOrder'
    BY <1>0, <2>1, <2>2, <2>3 DEF InOrder
  <2>5. Distinct'
    BY <1>0, <2>1 DEF Distinct
  <2> QED
    BY <2>4, <2>5 DEF OrderInv
<1>2. CASE Enqueue
  <2>1. hand \in Event /\ hand # <<>> /\ hand.at \in Nat
    BY <1>2, EventFacts DEF TypeInv, TypeOK, HandHeld, Enqueue
  <2>2. UNCHANGED <<arrivals, dropped, job, posted>>
    BY <1>2 DEF Enqueue
  <2>3. Past' = Past /\ Distinct'
    BY <1>0, <2>2 DEF Past, Distinct
  <2>4. CASE Len(docQueue) < QueueSize
    <3> DEFINE n == Len(docQueue)
    <3>1. docQueue' = Append(docQueue, hand) /\ hand' = <<>>
      BY <1>2, <2>4 DEF Enqueue
    <3>2. /\ n \in Nat /\ DOMAIN docQueue = 1..n /\ DOMAIN docQueue' = 1..(n + 1)
          /\ \A i \in 1..n : docQueue'[i] = docQueue[i]
          /\ docQueue'[n + 1] = hand
      BY <1>0, <2>1, <3>1, AppendFacts, QueueFacts
    <3> HIDE DEF n
    <3>3. ASSUME NEW i \in 1..(n + 1)
          PROVE  /\ docQueue'[i].at < arrivals
                 /\ \A a \in Past : a < docQueue'[i].at
                 /\ \A j \in 1..(i - 1) : docQueue'[j].at < docQueue'[i].at
      <4>1. CASE i = n + 1
        BY <1>0, <2>1, <3>2, <4>1 DEF InOrder
      <4>2. CASE i \in 1..n
        <5>1. \A j \in 1..(i - 1) : j \in 1..n
          BY <3>2, <4>2
        <5> QED
          BY <1>0, <3>2, <4>2, <5>1 DEF InOrder
      <4> QED
        BY <3>2, <4>1, <4>2
    <3> QED
      BY <1>0, <2>2, <2>3, <3>1, <3>2, <3>3 DEF OrderInv, InOrder
  <2>5. CASE ~(Len(docQueue) < QueueSize)
    BY <1>0, <1>2, <2>2, <2>3, <2>5 DEF Enqueue, OrderInv, InOrder
  <2> QED
    BY <2>4, <2>5
<1>3. CASE DropOldest
  <2>1. UNCHANGED <<hand, arrivals, job, posted>>
    BY <1>3 DEF DropOldest
  <2>2. Distinct'
    BY <1>0, <2>1 DEF Distinct
  <2>3. CASE docQueue = <<>>
    BY <1>0, <1>3, <2>1, <2>2, <2>3 DEF DropOldest, OrderInv, InOrder, Past
  <2>4. CASE docQueue # <<>>
    <3>1. docQueue' = Tail(docQueue) /\ dropped' = dropped \cup {Head(docQueue).at}
      BY <1>3, <2>4 DEF DropOldest
    <3>2. Past' \subseteq Past \cup {Head(docQueue).at}
      BY <2>1, <3>1 DEF Past
    <3> QED
      BY <1>0, <2>1, <2>2, <2>4, <3>1, <3>2, FrontLeaves DEF OrderInv
  <2> QED
    BY <2>3, <2>4
<1>4. CASE ListenerExit
  BY <1>0, <1>4 DEF ListenerExit, OrderInv, InOrder, Distinct, Past
<1>5. ASSUME NEW w \in Worker, Take(w) PROVE OrderInv'
  <2> DEFINE h == Head(docQueue)
  <2>1. /\ docQueue # <<>> /\ docQueue' = Tail(docQueue)
        /\ UNCHANGED <<hand, arrivals, dropped, posted>>
    BY <1>5 DEF Take
  <2>2. h \in Event /\ h # <<>> /\ h.at \in Nat /\ h = docQueue[1] /\ 1 \in DOMAIN docQueue
    BY <1>0, <2>1, QueueFacts, EventFacts
  <2>3. job'[w] = h /\ \A v \in Worker \ {w} : job'[v] = job[v]
    BY <1>0, <1>5 DEF Take, TypeOK
  <2> HIDE DEF h
  <2>4. Past' \subseteq Past \cup {h.at}
    BY <2>1, <2>3 DEF Past
  <2>5. InOrder'
    BY <1>0, <2>1, <2>4, FrontLeaves DEF h
  <2>6. \A a \in Past : a < h.at
    BY <1>0, <2>2 DEF InOrder
  <2>7. \A v \in Worker : job[v] # <<>> => job[v].at \in Past
    BY DEF Past
  <2>8. \A p \in posted : p.at \in Past
    BY DEF Past
  <2>9. \A a \in Past : a # h.at /\ a \in Nat
    BY <1>0, <2>2, <2>6 DEF InOrder
  <2>10. Distinct'
    BY <1>0, <2>1, <2>3, <2>7, <2>8, <2>9 DEF Distinct
  <2> QED
    BY <2>5, <2>10 DEF OrderInv
<1>6. ASSUME NEW w \in Worker, WorkerExit(w) PROVE OrderInv'
  BY <1>6, <1>w DEF WorkerExit
<1>7. ASSUME NEW w \in Worker, Process(w) PROVE OrderInv'
  BY <1>7, <1>w, <1>d DEF Process
<1>8. ASSUME NEW w \in Worker, FetchFails(w) PROVE OrderInv'
  BY <1>8, <1>w, <1>d DEF FetchFails
<1>9. ASSUME NEW w \in Worker, Lookup(w) \/ LookupBlind(w) PROVE OrderInv'
  BY <1>9, <1>w DEF Lookup, LookupBlind
<1>11. ASSUME NEW w \in Worker, Save(w) PROVE OrderInv'
  <2> DEFINE p == [at |-> job[w].at, sig |-> job[w].sig, id |-> Target(w)]
  <2>1. posted' = posted \cup {p} /\ UNCHANGED listenerVars /\ p.at = job[w].at
    BY <1>11 DEF Save
  <2>2. job'[w] = <<>> /\ \A v \in Worker \ {w} : job'[v] = job[v]
    BY <1>11, DoneFacts DEF Save
  <2>3. job[w] # <<>>
    BY <1>11 DEF Save, TypeInv, BusyHaveJobs
  <2> HIDE DEF p
  <2>4. Past' \subseteq Past
    BY <2>1, <2>2, <2>3 DEF Past
  <2>5. InOrder'
    BY <1>0, <2>1, <2>4 DEF InOrder
  <2>6. Distinct'
    BY <1>0, <2>1, <2>2, <2>3 DEF Distinct
  <2> QED
    BY <2>5, <2>6 DEF OrderInv
<1>12. ASSUME NEW w \in Worker, Conflict(w) PROVE OrderInv'
  BY <1>12, <1>w, <1>d DEF Conflict
<1>13. ASSUME NEW w \in Worker, PostFails(w) PROVE OrderInv'
  BY <1>13, <1>w, <1>d DEF PostFails
<1>14. CASE SetVerifier \/ Stop \/ UNCHANGED vars
  BY <1>14, <1>w DEF SetVerifier, Stop, vars
<1> QED
  BY <1>1, <1>2, <1>3, <1>4, <1>5, <1>6, <1>7, <1>8, <1>9, <1>11, <1>12, <1>13, <1>14
     DEF Next, ListenerStep, WorkerStep

\* enqueueDoc drops the oldest: whatever is queued or being enqueued is newer than
\* everything dropped, although workers take from the queue between its two selects.
THEOREM OldestDroppedCorrect == Spec => []OldestDropped
<1>1. Init => TypeInv /\ OrderInv
  BY TypeInit, OrderInit DEF Init, TypeInv, BusyHaveJobs, HandHeld
<1>2. TypeInv /\ OrderInv /\ [Next]_vars => (TypeInv /\ OrderInv)'
  BY TypeStep, OrderStep
<1>3. OrderInv => OldestDropped
  BY DEF OrderInv, InOrder, Past, OldestDropped
<1> QED
  BY <1>1, <1>2, <1>3, PTL DEF Spec

-----------------------------------------------------------------------------
(* The records.                                                            *)

\* A step that neither looks a record up nor saves one: the records stand, and whoever is
\* about to save is where it was with what it found.
Quiet ==
  /\ UNCHANGED dbVars
  /\ accepted \subseteq accepted'
  /\ \A w \in Worker :
       /\ wpc'[w] \in {"lookup", "save"} =>
            \/ wpc[w] \in {"lookup", "save"} /\ job'[w] = job[w]
            \/ job'[w].sig \in accepted' /\ VerifyBlockSignature(job'[w].sig)
       /\ wpc'[w] = "save" =>
            wpc[w] = "save" /\ UNCHANGED <<job[w], found[w], stale[w]>>

\* The verified signatures of a block and root.
Verified(a) == {s \in accepted : VerifyBlockSignature(s) /\ Attested(s) = a}

\* The strengthening of RecordsTrace: whoever looks up or saves has verified its
\* signature, and what it found traces to verified signatures of the same block and root.
TraceInv ==
  /\ \A id \in DOMAIN records :
       /\ records[id].sources \subseteq {SignerOf(s) : s \in Verified(records[id].attested)}
       /\ records[id].cids \subseteq UNION {CidsOf(s) : s \in Verified(records[id].attested)}
  /\ \A w \in Worker :
       /\ wpc[w] \in {"lookup", "save"} => job[w].sig \in Verified(Attested(job[w].sig))
       /\ wpc[w] = "save" =>
            LET S == Verified(Attested(job[w].sig)) IN
              /\ found[w].sources \subseteq {SignerOf(s) : s \in S}
              /\ found[w].cids \subseteq UNION {CidsOf(s) : s \in S}

SignersTo(id) == {SignerOf(p.sig) : p \in PostsTo(id)}

\* The strengthening of VotesExact: a document exists if it was posted to, its signers and
\* those a worker found in it are signers of posts to it.
VotesInv ==
  /\ IsFiniteSet(posted)
  /\ \A p \in posted : p.id \in DOMAIN records
  /\ \A id \in DOMAIN records :
       /\ records[id].votes = Cardinality(PostsTo(id))
       /\ records[id].sources \subseteq SignersTo(id)
  /\ \A w \in Worker : wpc[w] = "save" /\ found[w] # NoDoc =>
       found[w].id \in DOMAIN records /\ found[w].sources \subseteq SignersTo(found[w].id)

\* A document's ID names its block and root, and a document that a worker found is one of
\* its block and root.
IdsInv ==
  /\ \A id \in DOMAIN records : records[id].attested = id[1]
  /\ \A w \in Worker : wpc[w] = "save" /\ found[w] # NoDoc =>
       found[w].id[1] = Attested(job[w].sig)

\* What the worker found is still what the store has.
Current(w) ==
  IF found[w] = NoDoc
    THEN RecordsOf(Attested(job[w].sig)) = {}
    ELSE /\ found[w].id \in DOMAIN records
         /\ found[w].sources = records[found[w].id].sources
         /\ found[w].cids = records[found[w].id].cids

\* The strengthening of MergedUnlessRaced: a worker whose lookup is not stale has found
\* the current record.
MergeInv ==
  /\ MergedUnlessRaced
  /\ \A w \in Worker : wpc[w] = "save" /\ ~stale[w] => Current(w)

LEMMA StepKinds ==
  ASSUME TypeInv, [Next]_vars
  PROVE  \/ Quiet
         \/ \E w \in Worker : Lookup(w) \/ LookupBlind(w) \/ Save(w)
<1> USE DEF listenerVars, workerVars, dbVars
<1>0. TypeOK
  BY DEF TypeInv
\* The workers are not concerned.
<1>n. ASSUME UNCHANGED <<workerVars, dbVars, accepted>> PROVE Quiet
  BY <1>n DEF Quiet
\* The worker ends its event.
<1>d. ASSUME NEW w \in Worker, Done(w), UNCHANGED dbVars, accepted \subseteq accepted',
             \A v \in Worker \ {w} : stale'[v] = stale[v]
      PROVE  Quiet
  <2>1. /\ wpc'[w] = "idle"
        /\ \A v \in Worker \ {w} : wpc'[v] = wpc[v] /\ job'[v] = job[v] /\ found'[v] = found[v]
    BY <1>d, DoneFacts
  <2> QED
    BY <1>d, <2>1 DEF Quiet
<1>f. ASSUME NEW w \in Worker, Fresh(w) PROVE \A v \in Worker \ {w} : stale'[v] = stale[v]
  BY <1>0, <1>f DEF Fresh, TypeOK
<1>1. ASSUME NEW s \in Sig, Receive(s) PROVE Quiet
  BY <1>1, <1>n DEF Receive
<1>2. CASE ListenerStep
  BY <1>2, <1>n DEF ListenerStep, Enqueue, DropOldest, ListenerExit
<1>3. ASSUME NEW w \in Worker, Take(w) PROVE Quiet
  BY <1>0, <1>3 DEF Take, Goto, Quiet, TypeOK
<1>4. ASSUME NEW w \in Worker, WorkerExit(w) PROVE Quiet
  BY <1>0, <1>4 DEF WorkerExit, Goto, Quiet, TypeOK
<1>5. ASSUME NEW w \in Worker, Process(w) PROVE Quiet
  <2>1. CASE Done(w)
    <3>1. accepted \subseteq accepted'
      BY <1>5 DEF Process
    <3> QED
      BY <1>5, <2>1, <3>1, <1>d DEF Process
  <2>2. CASE ~Done(w)
    <3>1. /\ Goto(w, "lookup") /\ UNCHANGED <<job, attempt, found, stale, dbVars>>
          /\ accepted' = accepted \cup {job[w].sig} /\ VerifyBlockSignature(job[w].sig)
      BY <1>5, <2>2 DEF Process, Accepts
    <3> QED
      BY <1>0, <3>1 DEF Quiet, Goto, TypeOK
  <2> QED
    BY <2>1, <2>2
<1>6. ASSUME NEW w \in Worker, FetchFails(w) PROVE Quiet
  BY <1>6, <1>d DEF FetchFails
<1>7. ASSUME NEW w \in Worker, Conflict(w) PROVE Quiet
  <2>1. CASE Done(w)
    BY <1>7, <1>d, <1>f, <2>1 DEF Conflict
  <2>2. CASE ~Done(w)
    <3>1. /\ wpc[w] = "save" /\ Goto(w, "lookup") /\ job' = job /\ UNCHANGED <<dbVars, accepted>>
          /\ found' = [found EXCEPT ![w] = NoDoc] /\ Fresh(w)
      BY <1>7, <2>2 DEF Conflict
    <3> QED
      BY <1>0, <3>1 DEF Quiet, Goto, Fresh, TypeOK
  <2> QED
    BY <2>1, <2>2
<1>8. ASSUME NEW w \in Worker, PostFails(w) PROVE Quiet
  BY <1>8, <1>d, <1>f DEF PostFails
<1>9. CASE SetVerifier \/ Stop \/ UNCHANGED vars
  BY <1>9, <1>n DEF SetVerifier, Stop, vars
<1> QED
  BY <1>1, <1>2, <1>3, <1>4, <1>5, <1>6, <1>7, <1>8, <1>9 DEF Next, WorkerStep

\* A lookup leaves everything but the worker's own place and finding; it found a document
\* of the block and root, or none.
LEMMA LookupFacts ==
  ASSUME TypeInv, NEW w \in Worker, Lookup(w) \/ LookupBlind(w)
  PROVE  /\ UNCHANGED <<job, records, posted, raced, accepted>>
         /\ wpc[w] = "lookup" /\ wpc'[w] = "save"
         /\ \A v \in Worker \ {w} :
              wpc'[v] = wpc[v] /\ found'[v] = found[v] /\ stale'[v] = stale[v]
         /\ \/ found'[w] = NoDoc /\ (~stale'[w] => RecordsOf(Attested(job[w].sig)) = {})
            \/ /\ found'[w] # NoDoc
               /\ found'[w].id \in RecordsOf(Attested(job[w].sig))
               /\ found'[w].sources = records[found'[w].id].sources
               /\ found'[w].cids = records[found'[w].id].cids
<1> USE DEF listenerVars, workerVars, dbVars
<1>0. TypeOK
  BY DEF TypeInv
<1>1. /\ UNCHANGED <<job, records, posted, raced, accepted>>
      /\ wpc[w] = "lookup" /\ wpc'[w] = "save"
      /\ \A v \in Worker \ {w} : wpc'[v] = wpc[v] /\ stale'[v] = stale[v]
  BY <1>0 DEF Lookup, LookupBlind, Goto, Fresh, TypeOK
<1>2. \A v \in Worker \ {w} : found'[v] = found[v]
  BY <1>0 DEF Lookup, LookupBlind, TypeOK
<1>3. CASE Matching(job[w].sig) = {} \/ LookupBlind(w)
  <2>1. found'[w] = NoDoc
    BY <1>0, <1>3 DEF Lookup, LookupBlind, TypeOK
  <2>2. ~stale'[w] => Matching(job[w].sig) = {}
    BY <1>0, <1>3 DEF LookupBlind, TypeOK
  <2> QED
    BY <1>1, <1>2, <2>1, <2>2 DEF Matching
<1>4. CASE Matching(job[w].sig) # {} /\ Lookup(w)
  <2>1. PICK id \in Matching(job[w].sig) :
          found' = [found EXCEPT ![w] = [id |-> id, sources |-> records[id].sources,
                                         cids |-> records[id].cids]]
    BY <1>4 DEF Lookup
  <2>2. found'[w] = [id |-> id, sources |-> records[id].sources, cids |-> records[id].cids]
    BY <1>0, <2>1 DEF TypeOK
  <2>3. id \in DocID
    BY <1>0, <2>1 DEF Matching, RecordsOf, TypeOK
  <2>4. found'[w] # NoDoc
    BY <2>2, <2>3, DocIDFacts
  <2> QED
    BY <1>1, <1>2, <2>1, <2>2, <2>4 DEF Matching
<1> QED
  BY <1>3, <1>4

-----------------------------------------------------------------------------
(* Records come from verified signatures.                                  *)

LEMMA TraceInit == Init => TraceInv
BY DEF Init, TraceInv

LEMMA TraceStep == TypeInv /\ TraceInv /\ [Next]_vars => TraceInv'
<1> SUFFICES ASSUME TypeInv, TraceInv, [Next]_vars PROVE TraceInv'
  OBVIOUS
<1> DEFINE Signers(a) == {SignerOf(s) : s \in Verified(a)}
           Cids(a) == UNION {CidsOf(s) : s \in Verified(a)}
           Later(a) == {s \in accepted' : VerifyBlockSignature(s) /\ Attested(s) = a}
           Signers2(a) == {SignerOf(s) : s \in Later(a)}
           Cids2(a) == UNION {CidsOf(s) : s \in Later(a)}
<1>0. /\ \A id \in DOMAIN records : /\ records[id].sources \subseteq Signers(records[id].attested)
                                    /\ records[id].cids \subseteq Cids(records[id].attested)
      /\ \A w \in Worker :
           wpc[w] \in {"lookup", "save"} => job[w].sig \in Verified(Attested(job[w].sig))
      /\ \A w \in Worker : wpc[w] = "save" =>
           /\ found[w].sources \subseteq Signers(Attested(job[w].sig))
           /\ found[w].cids \subseteq Cids(Attested(job[w].sig))
  BY DEF TraceInv
\* Signatures are never un-accepted.
<1>a. ASSUME accepted \subseteq accepted', NEW a
      PROVE  Verified(a) \subseteq Later(a) /\ Signers(a) \subseteq Signers2(a)
             /\ Cids(a) \subseteq Cids2(a)
  BY <1>a DEF Verified
<1> DEFINE Fine == /\ \A id \in DOMAIN records' :
                        /\ records'[id].sources \subseteq Signers2(records'[id].attested)
                        /\ records'[id].cids \subseteq Cids2(records'[id].attested)
                   /\ \A w \in Worker :
                        wpc'[w] \in {"lookup", "save"} => job'[w].sig \in Later(Attested(job'[w].sig))
                   /\ \A w \in Worker : wpc'[w] = "save" =>
                        /\ found'[w].sources \subseteq Signers2(Attested(job'[w].sig))
                        /\ found'[w].cids \subseteq Cids2(Attested(job'[w].sig))
<1>b. SUFFICES Fine
  BY DEF TraceInv, Verified
<1> HIDE DEF Later, Signers, Cids, Signers2, Cids2
<1>1. CASE Quiet
  <2>1. accepted \subseteq accepted' /\ records' = records
    BY <1>1 DEF Quiet, dbVars
  <2>2. ASSUME NEW w \in Worker, wpc'[w] \in {"lookup", "save"}
        PROVE  job'[w].sig \in Later(Attested(job'[w].sig))
    <3>1. CASE wpc[w] \in {"lookup", "save"} /\ job'[w] = job[w]
      BY <1>0, <1>a, <2>1, <3>1
    <3>2. CASE job'[w].sig \in accepted' /\ VerifyBlockSignature(job'[w].sig)
      BY <3>2 DEF Later
    <3> QED
      BY <1>1, <2>2, <3>1, <3>2 DEF Quiet
  <2>3. ASSUME NEW w \in Worker, wpc'[w] = "save"
        PROVE  /\ found'[w].sources \subseteq Signers2(Attested(job'[w].sig))
               /\ found'[w].cids \subseteq Cids2(Attested(job'[w].sig))
    <3>1. wpc[w] = "save" /\ job'[w] = job[w] /\ found'[w] = found[w]
      BY <1>1, <2>3 DEF Quiet
    <3> QED
      BY <1>0, <1>a, <2>1, <3>1
  <2>4. ASSUME NEW id \in DOMAIN records
        PROVE  /\ records[id].sources \subseteq Signers2(records[id].attested)
               /\ records[id].cids \subseteq Cids2(records[id].attested)
    BY <1>0, <1>a, <2>1
  <2> QED
    BY <2>1, <2>2, <2>3, <2>4
<1>2. ASSUME NEW w \in Worker, Lookup(w) \/ LookupBlind(w) PROVE Fine
  <2>1. accepted' = accepted /\ records' = records /\ job' = job
        /\ wpc[w] = "lookup"
        /\ \A v \in Worker \ {w} : wpc'[v] = wpc[v] /\ found'[v] = found[v]
    BY <1>2, LookupFacts
  <2>2. \A a : Later(a) = Verified(a) /\ Signers2(a) = Signers(a) /\ Cids2(a) = Cids(a)
    BY <2>1 DEF Verified, Later, Signers, Cids, Signers2, Cids2
  <2> DEFINE a == Attested(job[w].sig)
  <2>3. found'[w].sources \subseteq Signers(a) /\ found'[w].cids \subseteq Cids(a)
    <3>1. CASE found'[w] = NoDoc
      BY <3>1 DEF NoDoc
    <3>2. CASE found'[w] # NoDoc
      <4>1. /\ found'[w].id \in RecordsOf(a)
            /\ found'[w].sources = records[found'[w].id].sources
            /\ found'[w].cids = records[found'[w].id].cids
        BY <1>2, <3>2, LookupFacts
      <4> QED
        BY <1>0, <4>1 DEF RecordsOf
    <3> QED
      BY <3>1, <3>2
  <2> QED
    BY <1>0, <2>1, <2>2, <2>3
<1>3. ASSUME NEW w \in Worker, Save(w) PROVE Fine
  <2>1. /\ accepted' = accepted
        /\ wpc'[w] = "idle"
        /\ \A v \in Worker \ {w} : wpc'[v] = wpc[v] /\ job'[v] = job[v] /\ found'[v] = found[v]
    BY <1>3, DoneFacts DEF Save
  <2>2. \A a : Later(a) = Verified(a) /\ Signers2(a) = Signers(a) /\ Cids2(a) = Cids(a)
    BY <2>1 DEF Verified, Later, Signers, Cids, Signers2, Cids2
  <2> DEFINE s == job[w].sig
             id == Target(w)
             r == Merged(w)
  <2>3. /\ DOMAIN records' = DOMAIN records \cup {id}
        /\ records'[id] = r
        /\ \A i \in DOMAIN records \ {id} : records'[i] = records[i]
        /\ r.attested = Attested(s)
        /\ r.sources = found[w].sources \cup {SignerOf(s)}
        /\ r.cids = found[w].cids \cup CidsOf(s)
    BY <1>3, SaveFacts
  <2>4. wpc[w] = "save"
    BY <1>3 DEF Save
  <2> HIDE DEF s, id, r
  <2>5. s \in Verified(Attested(s))
    BY <1>0, <2>4 DEF s
  <2>6. SignerOf(s) \in Signers(Attested(s)) /\ CidsOf(s) \subseteq Cids(Attested(s))
    BY <2>5 DEF Signers, Cids
  <2>7. r.sources \subseteq Signers(r.attested) /\ r.cids \subseteq Cids(r.attested)
    BY <1>0, <2>3, <2>4, <2>6 DEF s
  <2>8. \A i \in DOMAIN records' : /\ records'[i].sources \subseteq Signers2(records'[i].attested)
                                   /\ records'[i].cids \subseteq Cids2(records'[i].attested)
    BY <1>0, <2>2, <2>3, <2>7
  <2>9. \A v \in Worker :
          wpc'[v] \in {"lookup", "save"} => job'[v].sig \in Later(Attested(job'[v].sig))
    BY <1>0, <2>1, <2>2
  <2>10. \A v \in Worker : wpc'[v] = "save" =>
           /\ found'[v].sources \subseteq Signers2(Attested(job'[v].sig))
           /\ found'[v].cids \subseteq Cids2(Attested(job'[v].sig))
    BY <1>0, <2>1, <2>2
  <2> QED
    BY <2>8, <2>9, <2>10
<1> QED
  BY <1>1, <1>2, <1>3, StepKinds

\* The signers and CIDs of a record come from verified signatures of its own block and
\* root, whatever workers look up and save in between.
THEOREM RecordsTraceCorrect == Spec => []RecordsTrace
<1>1. Init => TypeInv /\ TraceInv
  BY TypeInit, TraceInit DEF Init, TypeInv, BusyHaveJobs, HandHeld
<1>2. TypeInv /\ TraceInv /\ [Next]_vars => (TypeInv /\ TraceInv)'
  BY TypeStep, TraceStep
<1>3. TraceInv => RecordsTrace
  BY DEF TraceInv, RecordsTrace, Verified
<1> QED
  BY <1>1, <1>2, <1>3, PTL DEF Spec

-----------------------------------------------------------------------------
(* Every post is counted once.                                             *)

LEMMA VotesInit == Init => VotesInv
BY FS_EmptySet DEF Init, VotesInv

\* A save posts something new, to one document.
LEMMA PostFacts ==
  ASSUME TypeInv, Distinct, NEW w \in Worker, Save(w)
  PROVE  LET p == [at |-> job[w].at, sig |-> job[w].sig, id |-> Target(w)] IN
         /\ posted' = posted \cup {p} /\ p \notin posted
         /\ p.sig = job[w].sig /\ p.id = Target(w)
<1> DEFINE p == [at |-> job[w].at, sig |-> job[w].sig, id |-> Target(w)]
<1>1. posted' = posted \cup {p} /\ p.at = job[w].at
  BY DEF Save
<1>2. job[w] # <<>>
  BY DEF Save, TypeInv, BusyHaveJobs
<1>3. p \notin posted
  BY <1>1, <1>2 DEF Distinct
<1> QED
  BY <1>1, <1>3

LEMMA VotesStep == TypeInv /\ Distinct /\ VotesInv /\ [Next]_vars => VotesInv'
<1> SUFFICES ASSUME TypeInv, Distinct, VotesInv, [Next]_vars PROVE VotesInv'
  OBVIOUS
<1>0. /\ IsFiniteSet(posted)
      /\ \A p \in posted : p.id \in DOMAIN records
      /\ \A id \in DOMAIN records :
           /\ records[id].votes = Cardinality(PostsTo(id))
           /\ records[id].sources \subseteq SignersTo(id)
      /\ \A w \in Worker : wpc[w] = "save" /\ found[w] # NoDoc =>
           found[w].id \in DOMAIN records /\ found[w].sources \subseteq SignersTo(found[w].id)
  BY DEF VotesInv
<1>1. CASE Quiet
  <2>1. posted' = posted /\ records' = records
    BY <1>1 DEF Quiet, dbVars
  <2>2. \A w \in Worker : wpc'[w] = "save" => wpc[w] = "save" /\ found'[w] = found[w]
    BY <1>1 DEF Quiet
  <2> QED
    BY <1>0, <2>1, <2>2 DEF VotesInv, PostsTo, SignersTo
<1>2. ASSUME NEW w \in Worker, Lookup(w) \/ LookupBlind(w) PROVE VotesInv'
  <2>1. /\ posted' = posted /\ records' = records
        /\ \A v \in Worker \ {w} : wpc'[v] = wpc[v] /\ found'[v] = found[v]
    BY <1>2, LookupFacts
  <2>2. found'[w] # NoDoc =>
          /\ found'[w].id \in DOMAIN records
          /\ found'[w].sources \subseteq SignersTo(found'[w].id)
    BY <1>0, <1>2, LookupFacts DEF RecordsOf
  <2>3. \A v \in Worker : wpc'[v] = "save" /\ found'[v] # NoDoc =>
          found'[v].id \in DOMAIN records /\ found'[v].sources \subseteq SignersTo(found'[v].id)
    BY <1>0, <2>1, <2>2
  <2> QED
    BY <1>0, <2>1, <2>3 DEF VotesInv, PostsTo, SignersTo
<1>3. ASSUME NEW w \in Worker, Save(w) PROVE VotesInv'
  <2> DEFINE p == [at |-> job[w].at, sig |-> job[w].sig, id |-> Target(w)]
             s == job[w].sig
             t == Target(w)
             Posts2(i) == {q \in posted' : q.id = i}
             Signers2(i) == {SignerOf(q.sig) : q \in Posts2(i)}
  <2>1. posted' = posted \cup {p} /\ p \notin posted /\ p.sig = s /\ p.id = t
    BY <1>3, PostFacts
  <2>2. /\ DOMAIN records' = DOMAIN records \cup {t}
        /\ \A i \in DOMAIN records \ {t} : records'[i] = records[i]
        /\ records'[t].sources = found[w].sources \cup {SignerOf(s)}
        /\ records'[t].votes = VotesNow(w) + 1
    BY <1>3, SaveFacts
  <2>3. /\ wpc[w] = "save" /\ wpc'[w] = "idle"
        /\ \A v \in Worker \ {w} : wpc'[v] = wpc[v] /\ found'[v] = found[v]
    BY <1>3, DoneFacts DEF Save
  <2> HIDE DEF p
  <2>4. /\ Posts2(t) = PostsTo(t) \cup {p} /\ p \notin PostsTo(t)
        /\ \A i : i # t => Posts2(i) = PostsTo(i)
    BY <2>1 DEF PostsTo
  <2>5. IsFiniteSet(PostsTo(t)) /\ IsFiniteSet(posted')
    <3>1. PostsTo(t) \in SUBSET posted
      BY DEF PostsTo
    <3> QED
      BY <1>0, <2>1, <3>1, FS_Subset, FS_AddElement
  <2>6. Cardinality(Posts2(t)) = Cardinality(PostsTo(t)) + 1 /\ Cardinality(PostsTo(t)) \in Nat
    BY <2>4, <2>5, FS_AddElement, FS_CardinalityType
  <2>7. VotesNow(w) = Cardinality(PostsTo(t))
    <3>1. CASE t \in DOMAIN records
      BY <1>0, <3>1 DEF VotesNow
    <3>2. CASE t \notin DOMAIN records
      <4>1. PostsTo(t) = {}
        BY <1>0, <3>2 DEF PostsTo
      <4> QED
        BY <3>2, <4>1, FS_EmptySet DEF VotesNow
    <3> QED
      BY <3>1, <3>2
  <2>8. found[w].sources \subseteq SignersTo(t)
    <3>1. CASE found[w] = NoDoc
      BY <3>1 DEF NoDoc
    <3>2. CASE found[w] # NoDoc
      BY <1>0, <2>3, <3>2 DEF Target
    <3> QED
      BY <3>1, <3>2
  <2>9. /\ \A i : SignersTo(i) \subseteq Signers2(i)
        /\ SignerOf(s) \in Signers2(t)
    BY <2>1 DEF SignersTo, PostsTo
  <2> HIDE DEF t, s, Posts2, Signers2
  <2>10. ASSUME NEW i \in DOMAIN records'
         PROVE  /\ records'[i].votes = Cardinality(Posts2(i))
                /\ records'[i].sources \subseteq Signers2(i)
    <3>1. CASE i = t
      BY <2>2, <2>6, <2>7, <2>8, <2>9, <3>1
    <3>2. CASE i # t
      BY <1>0, <2>2, <2>4, <2>9, <3>2
    <3> QED
      BY <3>1, <3>2
  <2>11. \A v \in Worker : wpc'[v] = "save" /\ found'[v] # NoDoc =>
           found'[v].id \in DOMAIN records' /\ found'[v].sources \subseteq Signers2(found'[v].id)
    BY <1>0, <2>2, <2>3, <2>9
  <2>12. \A q \in posted' : q.id \in DOMAIN records'
    BY <1>0, <2>1, <2>2
  <2> QED
    BY <2>5, <2>10, <2>11, <2>12 DEF VotesInv, PostsTo, SignersTo, Posts2, Signers2
<1> QED
  BY <1>1, <1>2, <1>3, StepKinds

\* vote_count counts every successful post exactly once, however workers, retries and
\* redelivered signatures interleave, and a record never names more signers than votes.
THEOREM VotesExactCorrect == Spec => []VotesExact
<1>1. Init => TypeInv /\ OrderInv /\ VotesInv
  BY TypeInit, OrderInit, VotesInit DEF Init, TypeInv, BusyHaveJobs, HandHeld
<1>2. TypeInv /\ OrderInv /\ VotesInv /\ [Next]_vars => (TypeInv /\ OrderInv /\ VotesInv)'
  BY TypeStep, OrderStep, VotesStep DEF OrderInv
<1>3. VotesInv => VotesExact
  <2> SUFFICES ASSUME VotesInv, NEW id \in DOMAIN records
               PROVE  Cardinality(records[id].sources) <= Cardinality(PostsTo(id))
    BY DEF VotesInv, VotesExact
  <2> DEFINE P == PostsTo(id)
             S == SignersTo(id)
             f == [p \in P |-> SignerOf(p.sig)]
  <2>1. IsFiniteSet(P)
    <3>1. P \in SUBSET posted
      BY DEF PostsTo
    <3> QED
      BY <3>1, FS_Subset DEF VotesInv
  <2>2. f \in Surjection(P, S)
    BY DEF Surjection, SignersTo
  <2> HIDE DEF f
  <2>3. IsFiniteSet(S) /\ Cardinality(S) <= Cardinality(P)
    BY <2>1, <2>2, FS_Surjection
  <2>4. records[id].sources \in SUBSET S
    BY DEF VotesInv
  <2> HIDE DEF S, P
  <2>5. /\ IsFiniteSet(records[id].sources)
        /\ Cardinality(records[id].sources) <= Cardinality(S)
    BY <2>3, <2>4, FS_Subset
  <2>6. /\ Cardinality(records[id].sources) \in Nat
        /\ Cardinality(S) \in Nat /\ Cardinality(P) \in Nat
    BY <2>1, <2>3, <2>5, FS_CardinalityType
  <2> QED
    BY <2>3, <2>5, <2>6 DEF P
<1> QED
  BY <1>1, <1>2, <1>3, PTL DEF Spec

-----------------------------------------------------------------------------
(* One record of each block and root, with everything merged.              *)

LEMMA IdsInit == Init => IdsInv
BY DEF Init, IdsInv

LEMMA IdsStep == TypeInv /\ IdsInv /\ [Next]_vars => IdsInv'
<1> SUFFICES ASSUME TypeInv, IdsInv, [Next]_vars PROVE IdsInv'
  OBVIOUS
<1>0. /\ \A id \in DOMAIN records : records[id].attested = id[1]
      /\ \A w \in Worker : wpc[w] = "save" /\ found[w] # NoDoc =>
           found[w].id[1] = Attested(job[w].sig)
  BY DEF IdsInv
<1>1. CASE Quiet
  <2>1. records' = records
    BY <1>1 DEF Quiet, dbVars
  <2>2. \A w \in Worker : wpc'[w] = "save" =>
          wpc[w] = "save" /\ found'[w] = found[w] /\ job'[w] = job[w]
    BY <1>1 DEF Quiet
  <2> QED
    BY <1>0, <2>1, <2>2 DEF IdsInv
<1>2. ASSUME NEW w \in Worker, Lookup(w) \/ LookupBlind(w) PROVE IdsInv'
  <2>1. /\ records' = records /\ job' = job
        /\ \A v \in Worker \ {w} : wpc'[v] = wpc[v] /\ found'[v] = found[v]
    BY <1>2, LookupFacts
  <2>2. found'[w] # NoDoc => found'[w].id[1] = Attested(job[w].sig)
    BY <1>0, <1>2, LookupFacts DEF RecordsOf
  <2> QED
    BY <1>0, <2>1, <2>2 DEF IdsInv
<1>3. ASSUME NEW w \in Worker, Save(w) PROVE IdsInv'
  <2> DEFINE t == Target(w)
  <2>1. /\ DOMAIN records' = DOMAIN records \cup {t}
        /\ \A i \in DOMAIN records \ {t} : records'[i] = records[i]
        /\ records'[t].attested = Attested(job[w].sig) /\ job[w].sig \in Sig
    BY <1>3, SaveFacts
  <2>2. /\ wpc[w] = "save" /\ wpc'[w] = "idle"
        /\ \A v \in Worker \ {w} : wpc'[v] = wpc[v] /\ found'[v] = found[v] /\ job'[v] = job[v]
    BY <1>3, DoneFacts DEF Save
  <2>3. t[1] = Attested(job[w].sig)
    BY <1>0, <2>1, <2>2, SigFacts DEF Target
  <2> HIDE DEF t
  <2>4. \A i \in DOMAIN records' : records'[i].attested = i[1]
    BY <1>0, <2>1, <2>3
  <2>5. \A v \in Worker : wpc'[v] = "save" /\ found'[v] # NoDoc =>
          found'[v].id[1] = Attested(job'[v].sig)
    BY <1>0, <2>2
  <2> QED
    BY <2>4, <2>5 DEF IdsInv
<1> QED
  BY <1>1, <1>2, <1>3, StepKinds

\* What MergedUnlessRaced says of one block and root.
OneRecord(a) ==
  LET P == PostsFor(a) IN
    \/ P = {} /\ RecordsOf(a) = {}
    \/ \E id \in DocID :
         /\ RecordsOf(a) = {id}
         /\ records[id].sources = {SignerOf(p.sig) : p \in P}
         /\ records[id].cids = UNION {CidsOf(p.sig) : p \in P}
         /\ records[id].votes = Cardinality(P)

LEMMA MergeInit == Init => MergeInv
BY DEF Init, MergeInv, MergedUnlessRaced, PostsFor, RecordsOf

\* A save to the record of one block and root leaves the records of all others.
LEMMA SaveElsewhere ==
  ASSUME TypeInv, IdsInv, NEW w \in Worker, Save(w), NEW a, a # Attested(job[w].sig)
  PROVE  /\ RecordsOf(a)' = RecordsOf(a) /\ PostsFor(a)' = PostsFor(a)
         /\ Target(w)[1] = Attested(job[w].sig)
         /\ \A id \in RecordsOf(a) : records'[id] = records[id]
<1> DEFINE t == Target(w)
           b == Attested(job[w].sig)
<1>1. /\ DOMAIN records' = DOMAIN records \cup {t}
      /\ \A i \in DOMAIN records \ {t} : records'[i] = records[i]
      /\ records'[t].attested = b /\ job[w].sig \in Sig
      /\ posted' = posted \cup {[at |-> job[w].at, sig |-> job[w].sig, id |-> t]}
  BY SaveFacts
<1>2. wpc[w] = "save"
  BY DEF Save
<1>3. t[1] = b
  BY <1>1, <1>2, SigFacts DEF Target, IdsInv
<1> HIDE DEF t
<1>4. t \in DOMAIN records => records[t].attested = b
  BY <1>3 DEF IdsInv
<1>5. RecordsOf(a)' = RecordsOf(a) /\ \A id \in RecordsOf(a) : records'[id] = records[id]
  BY <1>1, <1>4 DEF RecordsOf
<1>6. PostsFor(a)' = PostsFor(a)
  BY <1>1 DEF PostsFor
<1> QED
  BY <1>3, <1>5, <1>6 DEF t

\* A save from a lookup that is not stale merges into the one record there is, or makes
\* the first.
LEMMA SaveMerges ==
  ASSUME TypeInv, Distinct, VotesInv, IdsInv, NEW w \in Worker, Save(w), Current(w),
         NEW a, a = Attested(job[w].sig), OneRecord(a)
  PROVE  OneRecord(a)'
<1> DEFINE t == Target(w)
           s == job[w].sig
           p == [at |-> job[w].at, sig |-> s, id |-> t]
           P == PostsFor(a)
           P2 == {q \in posted' : Attested(q.sig) = a}
           R2 == {id \in DOMAIN records' : records'[id].attested = a}
<1>1. /\ DOMAIN records' = DOMAIN records \cup {t} /\ t \in DocID
      /\ \A i \in DOMAIN records \ {t} : records'[i] = records[i]
      /\ records'[t].attested = a
      /\ records'[t].sources = found[w].sources \cup {SignerOf(s)}
      /\ records'[t].cids = found[w].cids \cup CidsOf(s)
      /\ records'[t].votes = VotesNow(w) + 1
  BY SaveFacts
<1>2. posted' = posted \cup {p} /\ p \notin posted /\ p.sig = s
  BY PostFacts
<1>3. IsFiniteSet(P)
  <2>1. P \in SUBSET posted
    BY DEF PostsFor
  <2> QED
    BY <2>1, FS_Subset DEF VotesInv
<1> HIDE DEF p
<1>4. P2 = P \cup {p} /\ p \notin P
  BY <1>2 DEF PostsFor
<1>5. Cardinality(P2) = Cardinality(P) + 1
  BY <1>3, <1>4, FS_AddElement
<1>6. /\ {SignerOf(q.sig) : q \in P2} = {SignerOf(q.sig) : q \in P} \cup {SignerOf(s)}
      /\ UNION {CidsOf(q.sig) : q \in P2} = (UNION {CidsOf(q.sig) : q \in P}) \cup CidsOf(s)
  BY <1>2, <1>4
<1>7. R2 = RecordsOf(a) \cup {t}
  BY <1>1 DEF RecordsOf
<1> HIDE DEF P, P2, R2, s
<1>8. /\ R2 = {t}
      /\ records'[t].sources = {SignerOf(q.sig) : q \in P2}
      /\ records'[t].cids = UNION {CidsOf(q.sig) : q \in P2}
      /\ records'[t].votes = Cardinality(P2)
  <2>1. CASE found[w] = NoDoc
    <3>1. RecordsOf(a) = {}
      BY <2>1 DEF Current
    <3>2. P = {}
      BY <3>1 DEF OneRecord, P
    <3>3. t \notin DOMAIN records
      <4>1. t[1] = a
        <5>1. job[w].sig \in Sig
          BY SaveFacts
        <5> QED
          BY <2>1, <5>1, SigFacts DEF Target
      <4> QED
        BY <3>1, <4>1 DEF IdsInv, RecordsOf
    <3>4. VotesNow(w) = 0
      BY <3>3 DEF VotesNow
    <3>5. found[w].sources = {} /\ found[w].cids = {}
      BY <2>1 DEF NoDoc
    <3>6. Cardinality(P) = 0
      BY <3>2, FS_EmptySet
    <3> QED
      BY <1>1, <1>5, <1>6, <1>7, <3>1, <3>2, <3>4, <3>5, <3>6
  <2>2. CASE found[w] # NoDoc
    <3>1. /\ t = found[w].id /\ t \in DOMAIN records
          /\ found[w].sources = records[t].sources /\ found[w].cids = records[t].cids
      BY <2>2 DEF Current, Target
    <3>2. t \in RecordsOf(a)
      <4>1. wpc[w] = "save"
        BY DEF Save
      <4>2. t[1] = a
        BY <2>2, <3>1, <4>1 DEF IdsInv
      <4> QED
        BY <3>1, <4>2 DEF IdsInv, RecordsOf
    <3>3. PICK id \in DocID :
            /\ RecordsOf(a) = {id}
            /\ records[id].sources = {SignerOf(q.sig) : q \in P}
            /\ records[id].cids = UNION {CidsOf(q.sig) : q \in P}
            /\ records[id].votes = Cardinality(P)
      BY <3>2 DEF OneRecord, P
    <3>4. id = t
      BY <3>2, <3>3
    <3>5. VotesNow(w) = Cardinality(P)
      BY <3>1, <3>3, <3>4 DEF VotesNow
    <3> QED
      BY <1>1, <1>5, <1>6, <1>7, <3>1, <3>3, <3>4, <3>5
  <2> QED
    BY <2>1, <2>2
<1> HIDE DEF t
<1>9. \E id \in DocID :
        /\ R2 = {id}
        /\ records'[id].sources = {SignerOf(q.sig) : q \in P2}
        /\ records'[id].cids = UNION {CidsOf(q.sig) : q \in P2}
        /\ records'[id].votes = Cardinality(P2)
  BY <1>1, <1>8
<1> QED
  BY <1>9 DEF OneRecord, P2, R2, PostsFor, RecordsOf

LEMMA MergeStep ==
  TypeInv /\ Distinct /\ VotesInv /\ IdsInv /\ MergeInv /\ [Next]_vars => MergeInv'
<1> SUFFICES ASSUME TypeInv, Distinct, VotesInv, IdsInv, MergeInv, [Next]_vars
             PROVE  MergeInv'
  OBVIOUS
<1>0. /\ \A a \in AttestedDoc \ raced : OneRecord(a)
      /\ \A w \in Worker : wpc[w] = "save" /\ ~stale[w] => Current(w)
  BY DEF MergeInv, MergedUnlessRaced, OneRecord
<1>1. CASE Quiet
  <2>1. UNCHANGED <<records, posted, raced>>
    BY <1>1 DEF Quiet, dbVars
  <2>2. MergedUnlessRaced'
    BY <2>1 DEF MergeInv, MergedUnlessRaced, PostsFor, RecordsOf
  <2>3. ASSUME NEW w \in Worker, wpc'[w] = "save", ~stale'[w] PROVE Current(w)'
    <3>1. wpc[w] = "save" /\ found'[w] = found[w] /\ job'[w] = job[w] /\ stale'[w] = stale[w]
      BY <1>1, <2>3 DEF Quiet
    <3>2. Current(w)
      BY <1>0, <2>3, <3>1
    <3> QED
      BY <2>1, <3>1, <3>2 DEF Current, RecordsOf
  <2> QED
    BY <2>2, <2>3 DEF MergeInv
<1>2. ASSUME NEW w \in Worker, Lookup(w) \/ LookupBlind(w) PROVE MergeInv'
  <2>1. /\ UNCHANGED <<records, posted, raced, job>>
        /\ \A v \in Worker \ {w} :
             wpc'[v] = wpc[v] /\ found'[v] = found[v] /\ stale'[v] = stale[v]
    BY <1>2, LookupFacts
  <2>2. MergedUnlessRaced'
    <3>1. UNCHANGED <<records, posted, raced>>
      BY <2>1
    <3> QED
      BY <3>1 DEF MergeInv, MergedUnlessRaced, PostsFor, RecordsOf
  <2>3. ~stale'[w] => Current(w)'
    BY <1>2, <2>1, LookupFacts DEF Current, RecordsOf
  <2>4. ASSUME NEW v \in Worker \ {w}, wpc'[v] = "save", ~stale'[v] PROVE Current(v)'
    <3>1. Current(v)
      BY <1>0, <2>1, <2>4
    <3> QED
      BY <2>1, <3>1 DEF Current, RecordsOf
  <2> QED
    BY <2>2, <2>3, <2>4 DEF MergeInv
<1>3. ASSUME NEW w \in Worker, Save(w) PROVE MergeInv'
  <2> DEFINE s == job[w].sig
             b == Attested(s)
  <2>1. /\ wpc[w] = "save" /\ wpc'[w] = "idle"
        /\ \A v \in Worker \ {w} : wpc'[v] = wpc[v] /\ found'[v] = found[v] /\ job'[v] = job[v]
    BY <1>3, DoneFacts DEF Save
  <2>2. raced \subseteq raced' /\ (stale[w] => b \in raced')
    BY <1>3 DEF Save
  <2>3. \A v \in Worker \ {w} :
          ~stale'[v] => ~stale[v] /\ ~(wpc[v] = "save" /\ Attested(job[v].sig) = b)
    BY <1>3 DEF Save
  <2>4. ASSUME NEW a \in AttestedDoc \ raced' PROVE OneRecord(a)'
    <3>1. OneRecord(a)
      BY <1>0, <2>2, <2>4
    <3>2. CASE a = b
      <4>1. Current(w)
        BY <1>0, <2>1, <2>2, <2>4, <3>2
      <4> QED
        BY <1>3, <3>1, <3>2, <4>1, SaveMerges
    <3>3. CASE a # b
      <4>1. /\ RecordsOf(a)' = RecordsOf(a) /\ PostsFor(a)' = PostsFor(a)
            /\ \A id \in RecordsOf(a) : records'[id] = records[id]
        BY <1>3, <3>3, SaveElsewhere
      <4> QED
        BY <3>1, <4>1 DEF OneRecord
    <3> QED
      BY <3>2, <3>3
  <2>5. ASSUME NEW v \in Worker, wpc'[v] = "save", ~stale'[v] PROVE Current(v)'
    <3>1. v # w /\ wpc[v] = "save" /\ found'[v] = found[v] /\ job'[v] = job[v]
      BY <2>1, <2>5
    <3>2. Current(v) /\ Attested(job[v].sig) # b
      BY <1>0, <2>3, <2>5, <3>1
    <3> DEFINE a == Attested(job[v].sig)
               t == Target(w)
    <3>3. /\ {id \in DOMAIN records' : records'[id].attested = a} = RecordsOf(a)
          /\ t[1] = b
      <4>1. \A d : d # b =>
              /\ {id \in DOMAIN records' : records'[id].attested = d} = RecordsOf(d)
              /\ t[1] = b
        BY <1>3, SaveElsewhere DEF RecordsOf
      <4> QED
        BY <3>2, <4>1
    <3>4. CASE found[v] = NoDoc
      BY <3>1, <3>2, <3>3, <3>4 DEF Current, RecordsOf
    <3>5. CASE found[v] # NoDoc
      <4>1. found[v].id[1] = a
        BY <3>1, <3>5 DEF IdsInv
      <4>2. found[v].id # t
        BY <3>2, <3>3, <4>1
      <4>3. /\ DOMAIN records' = DOMAIN records \cup {t}
            /\ \A i \in DOMAIN records \ {t} : records'[i] = records[i]
        BY <1>3, SaveFacts
      <4> HIDE DEF t
      <4> QED
        BY <3>1, <3>2, <3>5, <4>2, <4>3 DEF Current
    <3> QED
      BY <3>4, <3>5
  <2> QED
    BY <2>4, <2>5 DEF MergeInv, MergedUnlessRaced, OneRecord
<1> QED
  BY <1>1, <1>2, <1>3, StepKinds

\* A block and root that no worker saved from a stale lookup has one record, with the
\* signers and the CIDs of all posts and one vote for each.
THEOREM MergedUnlessRacedCorrect == Spec => []MergedUnlessRaced
<1> DEFINE I == TypeInv /\ OrderInv /\ VotesInv /\ IdsInv /\ MergeInv
<1>1. Init => I
  BY TypeInit, OrderInit, VotesInit, IdsInit, MergeInit
     DEF Init, TypeInv, BusyHaveJobs, HandHeld
<1>2. I /\ [Next]_vars => I'
  BY TypeStep, OrderStep, VotesStep, IdsStep, MergeStep DEF OrderInv
<1>3. I => MergedUnlessRaced
  BY DEF MergeInv
<1> QED
  BY <1>1, <1>2, <1>3, PTL DEF Spec

-----------------------------------------------------------------------------
(* The cache holds the highest blocks.                                     *)

\* The lowest block.
Lowest(T) == CHOOSE b \in T : \A d \in T : b <= d

\* Every non-empty set of naturals has a least element, and Evict picks it.
LEMMA EvictLowest ==
  ASSUME NEW T \in SUBSET Nat, T # {}
  PROVE  /\ Lowest(T) \in T /\ \A y \in T : Lowest(T) <= y
         /\ Evict(T) = {{Lowest(T)}}
<1>1. IsWellFoundedOn({p \in Nat \X Nat : p[1] < p[2]}, Nat)
  BY NatLessThanWellFounded DEF OpToRel
<1>2. PICK x \in T : \A y \in T : ~(<<y, x>> \in {p \in Nat \X Nat : p[1] < p[2]})
  BY <1>1, WFMin
<1>3. \A y \in T : ~(y < x)
  BY <1>2
<1>4. \A y \in T : x <= y
  BY <1>3
<1>5. {b \in T : b < 0} = {}
  <2>1. \A b \in T : b \in Nat
    OBVIOUS
  <2>2. \A b \in T : ~(b < 0)
    BY <2>1
  <2> QED
    BY <2>2
<1>6. Evict(T) = {{Lowest(T)}}
  BY <1>5 DEF Evict, Lowest
<1> QED
  BY <1>4, <1>6 DEF Lowest

\* The blocks with a verified signature.
Seen == {BlockOf(s) : s \in accepted}

\* The strengthening of CacheNewest: the cache is within its size, and a block that is not
\* in it is lower than all that are, with the cache full.
Newest(D, S) ==
  /\ IsFiniteSet(D) /\ IsFiniteSet(S) /\ D \subseteq S /\ S \subseteq Nat
  /\ Cardinality(D) <= CacheSize
  /\ \A b \in S \ D : Cardinality(D) = CacheSize /\ \A d \in D : b < d

CacheInv == Seen \subseteq Nat => Newest(DOMAIN cache, Seen)

\* The blocks in the cache after one of number n was added.
Turned(D, n) ==
  IF Cardinality(D \cup {n}) > CacheSize THEN (D \cup {n}) \ {Lowest(D \cup {n})}
                                         ELSE D \cup {n}

LEMMA CacheInit == Init => CacheInv
<1> SUFFICES ASSUME Init PROVE CacheInv
  OBVIOUS
<1>1. DOMAIN cache = {} /\ Seen = {}
  BY DEF Init, Seen
<1> QED
  BY <1>1, FS_EmptySet, SizeAssumption DEF CacheInv, Newest

\* What the cache holds after a signature of block n was added to it.
LEMMA CacheTurn ==
  ASSUME NEW D, NEW S, Newest(D, S), NEW n \in Nat
  PROVE  Newest(Turned(D, n), S \cup {n})
<1> DEFINE D2 == Turned(D, n)
<1>a. /\ IsFiniteSet(D) /\ IsFiniteSet(S) /\ D \subseteq S /\ S \subseteq Nat
      /\ Cardinality(D) <= CacheSize
      /\ \A b \in S \ D : Cardinality(D) = CacheSize /\ \A d \in D : b < d
  BY DEF Newest
<1>b. D2 = IF Cardinality(D \cup {n}) > CacheSize THEN (D \cup {n}) \ {Lowest(D \cup {n})}
                                                 ELSE D \cup {n}
  BY DEF Turned
<1>c. IsFiniteSet(S \cup {n}) /\ S \cup {n} \subseteq Nat
  BY <1>a, FS_AddElement
<1> HIDE DEF D2
<1> USE <1>a, <1>b
<1> SUFFICES /\ IsFiniteSet(D2) /\ D2 \subseteq S \cup {n}
             /\ Cardinality(D2) <= CacheSize
             /\ \A b \in (S \cup {n}) \ D2 : Cardinality(D2) = CacheSize /\ \A d \in D2 : b < d
  BY <1>c DEF Newest, D2
<1> DEFINE A == D \cup {n}
           m == Lowest(A)
<1>1. Cardinality(D) \in Nat /\ CacheSize \in Nat
  BY FS_CardinalityType, SizeAssumption
<1>2. IsFiniteSet(A) /\ Cardinality(A) = IF n \in D THEN Cardinality(D) ELSE Cardinality(D) + 1
  BY FS_AddElement
<1>3. CASE Cardinality(A) <= CacheSize
  <2>1. D2 = A
    BY <1>1, <1>2, <1>3
  <2>2. \A b \in (S \cup {n}) \ A : Cardinality(A) = CacheSize /\ \A d \in A : b < d
    <3>1. CASE n \in D
      BY <3>1
    <3>2. CASE n \notin D
      <4>1. Cardinality(D) # CacheSize
        BY <1>1, <1>2, <1>3, <3>2
      <4> QED
        BY <4>1
    <3> QED
      BY <3>1, <3>2
  <2> QED
    BY <1>2, <1>3, <2>1, <2>2
<1>4. CASE ~(Cardinality(A) <= CacheSize)
  <2>1. D2 = A \ {m} /\ n \notin D /\ Cardinality(D) = CacheSize
    BY <1>1, <1>2, <1>4
  <2>2. A \in SUBSET Nat /\ A # {}
    OBVIOUS
  <2>3. m \in A /\ \A y \in A : m <= y
    BY <2>2, EvictLowest
  <2> HIDE DEF m
  <2>4. IsFiniteSet(D2) /\ Cardinality(D2) = CacheSize
    <3> HIDE DEF A
    <3>1. IsFiniteSet(A \ {m}) /\ Cardinality(A \ {m}) = Cardinality(A) - 1
      BY <1>2, <2>3, FS_RemoveElement, Zenon
    <3> QED
      BY <1>1, <1>2, <2>1, <3>1
  <2>5. \A d \in D2 : m < d
    BY <2>1, <2>2, <2>3
  <2>6. ASSUME NEW b \in (S \cup {n}) \ D2, NEW d \in D2 PROVE b < d
    <3>1. CASE b = m
      BY <2>5, <3>1
    <3>2. CASE b # m
      <4>1. b \in S \ D
        BY <2>1, <3>2
      <4>2. CASE d \in D
        BY <4>1, <4>2
      <4>3. CASE d = n /\ d \notin D
        <5>1. m \in D /\ b < m /\ m < d
          BY <2>1, <2>3, <2>5, <4>1, <4>3
        <5> QED
          BY <2>2, <4>1, <4>3, <5>1
      <4> QED
        BY <2>1, <4>2, <4>3
    <3> QED
      BY <3>1, <3>2
  <2>7. D2 \subseteq S \cup {n}
    BY <2>1
  <2> QED
    BY <1>1, <2>4, <2>6, <2>7
<1> QED
  BY <1>3, <1>4

LEMMA CacheStep == TypeInv /\ CacheInv /\ [Next]_vars => CacheInv'
<1> SUFFICES ASSUME TypeInv, CacheInv, [Next]_vars PROVE CacheInv'
  OBVIOUS
<1> USE DEF listenerVars, workerVars, dbVars
<1>u. ASSUME UNCHANGED <<cache, accepted>> PROVE CacheInv'
  BY <1>u DEF CacheInv, Seen
<1>1. ASSUME NEW w \in Worker, Process(w) PROVE CacheInv'
  <2> DEFINE s == job[w].sig
             n == BlockOf(s)
             D == DOMAIN cache
             D2 == DOMAIN cache'
  <2>1. CASE UNCHANGED <<cache, accepted>>
    BY <1>u, <2>1
  <2>2. CASE CacheAdd(s) /\ accepted' = accepted \cup {s}
    <3>1. s \in Sig
      BY <1>1, JobFacts DEF Process
    <3>2. Seen' = Seen \cup {n}
      BY <2>2 DEF Seen
    <3>3. SUFFICES ASSUME Seen' \subseteq Nat PROVE Newest(D2, Seen')
      BY DEF CacheInv, D2
    <3>4. n \in Nat /\ Newest(D, Seen) /\ D \cup {n} \in SUBSET Nat
      BY <3>2, <3>3 DEF CacheInv, Newest
    <3>5. PICK out \in IF Cardinality(D \cup {n}) > CacheSize THEN Evict(D \cup {n}) ELSE {{}} :
                 D2 = (D \cup {n}) \ out
      BY <2>2, <3>1, CacheAddFacts DEF TypeInv
    <3> HIDE DEF s, n, D, D2
    <3>6. Evict(D \cup {n}) = {{Lowest(D \cup {n})}}
      BY <3>4, EvictLowest
    <3>7. D2 = Turned(D, n)
      BY <3>5, <3>6 DEF Turned
    <3>8. Newest(Turned(D, n), Seen \cup {n})
      BY <3>4, CacheTurn
    <3> QED
      BY <3>2, <3>7, <3>8
  <2> QED
    BY <1>1, <2>1, <2>2 DEF Process
<1>2. CASE \E s \in Sig : Receive(s)
  BY <1>2, <1>u DEF Receive
<1>3. CASE ListenerStep \/ SetVerifier \/ Stop \/ UNCHANGED vars
  BY <1>3, <1>u DEF ListenerStep, Enqueue, DropOldest, ListenerExit, SetVerifier, Stop, vars
<1>4. ASSUME NEW w \in Worker, Take(w) \/ WorkerExit(w) \/ FetchFails(w)
      PROVE  CacheInv'
  BY <1>4, <1>u DEF Take, WorkerExit, FetchFails
<1>5. ASSUME NEW w \in Worker,
             Lookup(w) \/ LookupBlind(w) \/ Save(w) \/ Conflict(w) \/ PostFails(w)
      PROVE  CacheInv'
  BY <1>5, <1>u DEF Lookup, LookupBlind, Save, Conflict, PostFails
<1> QED
  BY <1>1, <1>2, <1>3, <1>4, <1>5 DEF Next, WorkerStep

\* BlockSignatureCache holds the highest blocks with a verified signature, as many as fit,
\* whatever order they arrived in, while none of their numbers is negative.
THEOREM CacheNewestCorrect == Spec => []CacheNewest
<1>1. Init => TypeInv /\ CacheInv
  BY TypeInit, CacheInit DEF Init, TypeInv, BusyHaveJobs, HandHeld
<1>2. TypeInv /\ CacheInv /\ [Next]_vars => (TypeInv /\ CacheInv)'
  BY TypeStep, CacheStep
<1>3. CacheInv => CacheNewest
  <2> SUFFICES ASSUME CacheInv, Seen \subseteq Nat
               PROVE  /\ DOMAIN cache \subseteq Seen
                      /\ \A b \in Seen : b \in DOMAIN cache
                           <=> Cardinality({d \in Seen : d > b}) < CacheSize
    BY DEF CacheNewest, Seen
  <2> DEFINE D == DOMAIN cache
             Above(b) == {d \in Seen : d > b}
  <2>1. /\ IsFiniteSet(D) /\ IsFiniteSet(Seen) /\ D \subseteq Seen /\ Seen \subseteq Nat
        /\ Cardinality(D) <= CacheSize /\ Cardinality(D) \in Nat /\ CacheSize \in Nat
        /\ \A b \in Seen \ D : Cardinality(D) = CacheSize /\ \A d \in D : b < d
    BY FS_CardinalityType, SizeAssumption DEF CacheInv, Newest
  <2> HIDE DEF D
  <2>2. ASSUME NEW b \in Seen
        PROVE  IsFiniteSet(Above(b)) /\ Cardinality(Above(b)) \in Nat
    <3>1. Above(b) \in SUBSET Seen
      OBVIOUS
    <3> QED
      BY <2>1, <3>1, FS_Subset, FS_CardinalityType
  <2>3. ASSUME NEW b \in D PROVE Cardinality(Above(b)) < CacheSize
    <3>1. ASSUME NEW d \in Above(b) PROVE d \in D \ {b}
      <4>1. d \in Seen /\ d > b /\ d \in Nat /\ b \in Nat
        BY <2>1
      <4>2. CASE d \notin D
        <5>1. d < b
          BY <2>1, <4>1, <4>2
        <5> QED
          BY <4>1, <5>1
      <4> QED
        BY <4>1, <4>2
    <3>2. IsFiniteSet(D \ {b}) /\ Cardinality(D \ {b}) = Cardinality(D) - 1
      BY <2>1, FS_RemoveElement
    <3>3. Cardinality(Above(b)) <= Cardinality(D \ {b})
      <4>1. Above(b) \in SUBSET (D \ {b})
        BY <3>1
      <4> QED
        BY <3>2, <4>1, FS_Subset
    <3>4. Cardinality(Above(b)) \in Nat
      BY <2>1, <2>2
    <3> QED
      BY <2>1, <3>2, <3>3, <3>4
  <2>4. ASSUME NEW b \in Seen \ D PROVE ~(Cardinality(Above(b)) < CacheSize)
    <3>1. D \in SUBSET Above(b)
      BY <2>1
    <3>2. IsFiniteSet(Above(b)) /\ Cardinality(Above(b)) \in Nat
      BY <2>2
    <3> HIDE DEF Above
    <3>3. Cardinality(D) <= Cardinality(Above(b))
      BY <3>1, <3>2, FS_Subset
    <3> QED
      BY <2>1, <3>2, <3>3
  <2> QED
    BY <2>1, <2>3, <2>4 DEF D
<1> QED
  BY <1>1, <1>2, <1>3, PTL DEF Spec
=============================================================================
