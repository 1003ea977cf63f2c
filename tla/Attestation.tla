----------------------------- MODULE Attestation -----------------------------
(***************************************************************************)
(* Block attestation (pkg/host/attestationHandler.go, pkg/attestation):    *)
(* peers relay BlockSignature documents, the event bus listener puts them  *)
(* on a bounded queue that drops the oldest entry when it is full, and a   *)
(* pool of workers verifies each one and merges the signer into the        *)
(* attestation record of its block and merkle root.                        *)
(*                                                                         *)
(* PostAttestationRecord looks the record up and saves it in two DefraDB   *)
(* transactions, so Lookup and Save are two actions of a worker.  A new    *)
(* document's ID is derived from its content; a document that exists is    *)
(* updated, its list fields replaced and its vote_count (a pcounter)       *)
(* incremented.  The pruner's purge of old records is in module Pruner.    *)
(***************************************************************************)
EXTENDS Integers, Sequences, FiniteSets

CONSTANTS Sig,             \* BlockSignature documents
          Content,         \* their fields
          Parsable,        \* CID strings that parse
          Worker,          \* docWorker goroutines
          QueueSize,       \* doc_queue_size
          CacheSize,       \* blockSignatureCacheSize
          MaxAttempts,     \* maxAttestationRetries
          MaxArrivals,     \* bound: relayed update events
          MaxFaults        \* bound: failing calls of DefraDB

\* A merkle root stands for the set of CIDs it was computed from ({}: empty or not hex);
\* a signature value for the key and the root it was made with (<<>>: not hex).
ASSUME SigAssumption ==
  /\ DOMAIN Content = Sig
  /\ \A s \in Sig : /\ Content[s].blockNumber \in Int
                    /\ IsFiniteSet(Content[s].merkleRoot) /\ IsFiniteSet(Content[s].cids)

ASSUME SizeAssumption ==
  /\ QueueSize \in Nat \ {0} /\ CacheSize \in Nat \ {0} /\ MaxAttempts \in Nat \ {0}
  /\ MaxArrivals \in Nat /\ MaxFaults \in Nat

VARIABLES
  hand,         \* the event the listener is enqueueing
  lpc,          \* where the listener is
  docQueue,     \* the channel
  wpc,          \* where each worker is
  job,          \* the event each worker processes
  attempt,      \* posting attempts that met a transaction conflict
  found,        \* what the worker's lookup returned
  verifierSet,  \* Host.blockSignatureVerifier is set, as the workers see it
  stopped,      \* processingCancel was called
  records,      \* AttestationRecord documents in DefraDB, by document ID
  cache,        \* BlockSignatureCache: block number to signature
  \* history
  arrivals,     \* relayed events so far
  faults,       \* failed calls so far
  dropped,      \* arrival numbers dropped by backpressure
  accepted,     \* signatures that passed verification
  posted,       \* successful posts
  stale,        \* has the record changed since the worker looked it up?
  raced         \* attested documents that were saved from a stale lookup

listenerVars == <<hand, lpc, docQueue, arrivals, dropped>>
workerVars == <<wpc, job, attempt, found, stale>>
dbVars == <<records, posted, raced>>
vars == <<listenerVars, workerVars, dbVars, verifierSet, stopped, cache, faults, accepted>>

Event == [sig : Sig, at : Nat]

\* The fields populateBlockSignatureFields and populateBlockSignatureCIDs fill in.
BlockOf(s) == Content[s].blockNumber
SignerOf(s) == Content[s].signatureIdentity
CidsOf(s) == Content[s].cids

\* blockAttestedID: "block:<number>:<merkle root>"
Attested(s) == <<BlockOf(s), Content[s].merkleRoot>>
AttestedDoc == {Attested(s) : s \in Sig}
Signer == {SignerOf(s) : s \in Sig}
Cid == UNION {CidsOf(s) : s \in Sig}

\* NewDocFromMap derives the document ID from the initial content.
NewDocID(s) == <<Attested(s), SignerOf(s), CidsOf(s)>>
DocID == {NewDocID(s) : s \in Sig}

Record == [attested : AttestedDoc, sources : SUBSET Signer, cids : SUBSET Cid, votes : Nat]

\* A lookup's answer: no document, or a document ID and the lists read with it.
NoDoc == [id |-> <<>>, sources |-> {}, cids |-> {}]
Found == {NoDoc} \cup [id : DocID, sources : SUBSET Signer, cids : SUBSET Cid]

RecordsOf(a) == {id \in DOMAIN records : records[id].attested = a}

TypeOK ==
  /\ hand \in Event \cup {<<>>}
  /\ lpc \in {"recv", "send", "drop", "gone"}
  /\ docQueue \in Seq(Event) /\ Len(docQueue) <= QueueSize
  /\ wpc \in [Worker -> {"idle", "fetch", "lookup", "save", "gone"}]
  /\ job \in [Worker -> Event \cup {<<>>}]
  /\ attempt \in [Worker -> 0..(MaxAttempts - 1)]
  /\ found \in [Worker -> Found]
  /\ verifierSet \in BOOLEAN /\ stopped \in BOOLEAN
  /\ DOMAIN records \subseteq DocID
  /\ \A id \in DOMAIN records : records[id] \in Record
  /\ DOMAIN cache \subseteq {BlockOf(s) : s \in Sig}
  /\ \A b \in DOMAIN cache : cache[b] \in Sig
  /\ arrivals \in Nat /\ faults \in Nat
  /\ dropped \subseteq Nat /\ accepted \subseteq Sig
  /\ posted \subseteq [at : Nat, sig : Sig, id : DocID]
  /\ stale \in [Worker -> BOOLEAN]
  /\ raced \subseteq AttestedDoc

Init ==
  /\ hand = <<>> /\ lpc = "recv" /\ docQueue = <<>>
  /\ wpc = [w \in Worker |-> "idle"]
  /\ job = [w \in Worker |-> <<>>]
  /\ attempt = [w \in Worker |-> 0]
  /\ found = [w \in Worker |-> NoDoc]
  /\ verifierSet = FALSE /\ stopped = FALSE
  /\ records = <<>> /\ cache = <<>>
  /\ arrivals = 0 /\ faults = 0
  /\ dropped = {} /\ accepted = {} /\ posted = {}
  /\ stale = [w \in Worker |-> FALSE]
  /\ raced = {}

-----------------------------------------------------------------------------
(* The listener and its queue.                                             *)

\* A peer's BlockSignature document has been merged, or merged again, into DefraDB and
\* the listener reads the update event. Events still on the bus are the ones to come.
Receive(s) ==
  /\ lpc = "recv"
  /\ arrivals < MaxArrivals
  /\ hand' = [sig |-> s, at |-> arrivals]
  /\ arrivals' = arrivals + 1
  /\ lpc' = "send"
  /\ UNCHANGED <<docQueue, dropped, workerVars, dbVars, verifierSet, stopped,
                 cache, faults, accepted>>

\* Variant: a full queue refuses the new event.
EnqueueOrRefuse ==
  /\ lpc = "send"
  /\ IF Len(docQueue) < QueueSize
       THEN docQueue' = Append(docQueue, hand) /\ dropped' = dropped
       ELSE docQueue' = docQueue /\ dropped' = dropped \cup {hand.at}
  /\ hand' = <<>>
  /\ lpc' = "recv"
  /\ UNCHANGED <<arrivals, workerVars, dbVars, verifierSet, stopped,
                 cache, faults, accepted>>

\* enqueueDoc's outer select: the send succeeds, or the channel is full.
Enqueue ==
  /\ lpc = "send"
  /\ IF Len(docQueue) < QueueSize
       THEN docQueue' = Append(docQueue, hand) /\ hand' = <<>> /\ lpc' = "recv"
       ELSE lpc' = "drop" /\ UNCHANGED <<docQueue, hand>>
  /\ UNCHANGED <<arrivals, dropped, workerVars, dbVars, verifierSet, stopped,
                 cache, faults, accepted>>

\* The inner select takes the oldest event out, if the workers have left one, and the
\* loop tries the send again.
DropOldest ==
  /\ lpc = "drop"
  /\ IF docQueue = <<>>
       THEN UNCHANGED <<docQueue, dropped>>
       ELSE /\ docQueue' = Tail(docQueue)
            /\ dropped' = dropped \cup {Head(docQueue).at}
  /\ lpc' = "send"
  /\ UNCHANGED <<hand, arrivals, workerVars, dbVars, verifierSet, stopped,
                 cache, faults, accepted>>

\* The processing context is cancelled; the listener notices between events.
ListenerExit ==
  /\ lpc = "recv"
  /\ stopped
  /\ lpc' = "gone"
  /\ UNCHANGED <<hand, docQueue, arrivals, dropped, workerVars, dbVars, verifierSet,
                 stopped, cache, faults, accepted>>

-----------------------------------------------------------------------------
(* The workers.                                                            *)

Goto(w, where) == wpc' = [wpc EXCEPT ![w] = where]

\* The worker is done with its event, whatever the outcome.
Done(w) ==
  /\ Goto(w, "idle")
  /\ job' = [job EXCEPT ![w] = <<>>]
  /\ attempt' = [attempt EXCEPT ![w] = 0]
  /\ found' = [found EXCEPT ![w] = NoDoc]

\* History: nothing that another worker saved meanwhile concerns w any more.
Fresh(w) == stale' = [stale EXCEPT ![w] = FALSE]

Take(w) ==
  /\ wpc[w] = "idle"
  /\ docQueue # <<>>
  /\ docQueue' = Tail(docQueue)
  /\ job' = [job EXCEPT ![w] = Head(docQueue)]
  /\ Goto(w, "fetch")
  /\ UNCHANGED <<hand, lpc, arrivals, dropped, attempt, found, stale, dbVars,
                 verifierSet, stopped, cache, faults, accepted>>

WorkerExit(w) ==
  /\ wpc[w] = "idle"
  /\ stopped
  /\ Goto(w, "gone")
  /\ UNCHANGED <<listenerVars, job, attempt, found, stale, dbVars, verifierSet, stopped,
                 cache, faults, accepted>>

\* extractBlockSignatureCore: the merkle root is there.
Extracted(s) == Content[s].merkleRoot # {}

\* VerifyBlockSignature: root and value decode, the type is known, and the identity is
\* the key that made the signature.
VerifyBlockSignature(s) ==
  /\ Content[s].signatureValue # <<>>
  /\ Content[s].signatureType \in {"ES256K", "Ed25519"}
  /\ Content[s].signatureValue = <<SignerOf(s), Content[s].merkleRoot>>

\* ComputeMerkleRootFromStrings leaves out what does not parse; with nothing left there
\* is no root to compare, which verifyBlockSignature only logs.
CIDListMismatch(s) ==
  LET parsed == CidsOf(s) \cap Parsable
  IN  parsed # {} /\ parsed # Content[s].merkleRoot

\* verifyBlockSignature.
Accepts(s) == VerifyBlockSignature(s) /\ ~CIDListMismatch(s)

\* Variant: the cache evicts the highest block.
EvictNewest(blocks) == {{CHOOSE b \in blocks : \A d \in blocks : d <= b}}

\* What BlockSignatureCache.Add may evict: the lowest block.  The search marks "none yet" with
\* -1 and deletes no negative block: with -1 among the blocks it starts anew there, wherever
\* the map's iteration meets it, and with a lower one it deletes nothing.
Evict(blocks) ==
  LET negative == {b \in blocks : b < 0}
  IN  CASE negative = {}   -> {{CHOOSE b \in blocks : \A d \in blocks : b <= d}}
        [] negative = {-1} -> {{}} \cup {{b} : b \in blocks \ negative}
        [] OTHER           -> {{}}

\* BlockSignatureCache.Add: replaces the block's signature, then makes room.
CacheAdd(s) ==
  LET blocks == DOMAIN cache \cup {BlockOf(s)}
  IN  \E out \in IF Cardinality(blocks) > CacheSize THEN Evict(blocks) ELSE {{}} :
        cache' = [b \in blocks \ out |-> IF b = BlockOf(s) THEN s ELSE cache[b]]

\* The document is read and processBlockSignatureDocument runs up to the first post.
\* While the verifier is not set yet the signature is ignored without a trace.
Process(w) ==
  LET s == job[w].sig IN
  /\ wpc[w] = "fetch"
  /\ IF Extracted(s) /\ verifierSet /\ Accepts(s)
       THEN /\ CacheAdd(s)
            /\ accepted' = accepted \cup {s}
            /\ IF CidsOf(s) = {}
                 THEN Done(w)
                 ELSE Goto(w, "lookup") /\ UNCHANGED <<job, attempt, found>>
       ELSE Done(w) /\ UNCHANGED <<cache, accepted>>
  /\ UNCHANGED <<listenerVars, stale, dbVars, verifierSet, stopped, faults>>

\* Ten reads failed, or the context was cancelled between two of them.
FetchFails(w) ==
  /\ wpc[w] = "fetch"
  /\ \/ faults < MaxFaults /\ faults' = faults + 1
     \/ stopped /\ faults' = faults
  /\ Done(w)
  /\ UNCHANGED <<listenerVars, stale, dbVars, verifierSet, stopped, cache, accepted>>

\* Variant: the query asks for the block number alone.
MatchingByBlock(s) == {id \in DOMAIN records : records[id].attested[1] = BlockOf(s)}

\* The documents the lookup's query matches: attested_doc equal.
Matching(s) == RecordsOf(Attested(s))

\* lookupExistingAttestation: the first document of the query, whichever that is.
Lookup(w) ==
  LET ids == Matching(job[w].sig) IN
  /\ wpc[w] = "lookup"
  /\ IF ids = {}
       THEN found' = [found EXCEPT ![w] = NoDoc]
       ELSE \E id \in ids :
              found' = [found EXCEPT ![w] = [id |-> id, sources |-> records[id].sources,
                                             cids |-> records[id].cids]]
  /\ Fresh(w)
  /\ Goto(w, "save")
  /\ UNCHANGED <<listenerVars, job, attempt, dbVars, verifierSet, stopped,
                 cache, faults, accepted>>

\* The query failed: its errors are not looked at and the record seems not to exist.
LookupBlind(w) ==
  /\ wpc[w] = "lookup"
  /\ faults < MaxFaults
  /\ faults' = faults + 1
  /\ found' = [found EXCEPT ![w] = NoDoc]
  /\ stale' = [stale EXCEPT ![w] = Matching(job[w].sig) # {}]
  /\ Goto(w, "save")
  /\ UNCHANGED <<listenerVars, job, attempt, dbVars, verifierSet, stopped, cache, accepted>>

\* The document a save writes to: the one found, or a new one.
Target(w) == IF found[w] = NoDoc THEN NewDocID(job[w].sig) ELSE found[w].id

\* The votes the document has when the save commits: vote_count is incremented, not set.
VotesNow(w) == IF Target(w) \in DOMAIN records THEN records[Target(w)].votes ELSE 0

\* Variants: the sources are replaced instead of merged; vote_count is set.
MergedOverwriting(w) ==
  LET s == job[w].sig
  IN  [attested |-> Attested(s), sources |-> {SignerOf(s)},
       cids |-> found[w].cids \cup CidsOf(s), votes |-> VotesNow(w) + 1]

MergedVoteSet(w) ==
  LET s == job[w].sig
  IN  [attested |-> Attested(s), sources |-> found[w].sources \cup {SignerOf(s)},
       cids |-> found[w].cids \cup CidsOf(s), votes |-> 1]

\* mergeStringListField on both lists of the document that was found.
Merged(w) ==
  LET s == job[w].sig
  IN  [attested |-> Attested(s), sources |-> found[w].sources \cup {SignerOf(s)},
       cids |-> found[w].cids \cup CidsOf(s), votes |-> VotesNow(w) + 1]

\* SaveDocument commits: the lists merged with what the lookup saw replace the stored
\* ones; without a document found, a new one is made.
Save(w) ==
  LET s == job[w].sig
      id == Target(w)
  IN
  /\ wpc[w] = "save"
  /\ records' = [i \in DOMAIN records \cup {id} |-> IF i = id THEN Merged(w) ELSE records[i]]
  /\ posted' = posted \cup {[at |-> job[w].at, sig |-> s, id |-> id]}
  /\ raced' = IF stale[w] THEN raced \cup {Attested(s)} ELSE raced
  /\ stale' = [v \in Worker |->
                 v # w /\ (stale[v] \/ (wpc[v] = "save" /\ Attested(job[v].sig) = Attested(s)))]
  /\ Done(w)
  /\ UNCHANGED <<listenerVars, verifierSet, stopped, cache, faults, accepted>>

\* Variant: a conflict is retried without counting.
ConflictForever(w) ==
  /\ wpc[w] = "save"
  /\ Goto(w, "lookup")
  /\ found' = [found EXCEPT ![w] = NoDoc]
  /\ Fresh(w)
  /\ UNCHANGED <<listenerVars, job, attempt, dbVars, verifierSet, stopped, cache,
                 faults, accepted>>

\* SaveDocument meets a transaction conflict: the whole post is tried again, a bounded
\* number of times.
Conflict(w) ==
  /\ wpc[w] = "save"
  /\ IF attempt[w] + 1 < MaxAttempts
       THEN /\ attempt' = [attempt EXCEPT ![w] = @ + 1]
            /\ Goto(w, "lookup")
            /\ found' = [found EXCEPT ![w] = NoDoc]
            /\ job' = job
       ELSE Done(w)
  /\ Fresh(w)
  /\ UNCHANGED <<listenerVars, dbVars, verifierSet, stopped, cache, faults, accepted>>

\* Any other error of the lookup's read or of the save ends the event.
PostFails(w) ==
  /\ wpc[w] \in {"lookup", "save"}
  /\ faults < MaxFaults
  /\ faults' = faults + 1
  /\ Done(w)
  /\ Fresh(w)
  /\ UNCHANGED <<listenerVars, dbVars, verifierSet, stopped, cache, accepted>>

-----------------------------------------------------------------------------
(* The host around them.                                                   *)

\* StartHostingWithEventSubscription sets the verifier after it started the listener.
SetVerifier ==
  /\ ~verifierSet
  /\ verifierSet' = TRUE
  /\ UNCHANGED <<listenerVars, workerVars, dbVars, stopped, cache, faults, accepted>>

Stop ==
  /\ ~stopped
  /\ verifierSet
  /\ stopped' = TRUE
  /\ UNCHANGED <<listenerVars, workerVars, dbVars, verifierSet, cache, faults, accepted>>

ListenerStep == Enqueue \/ DropOldest \/ ListenerExit

WorkerStep(w) ==
  \/ Take(w)
  \/ WorkerExit(w)
  \/ Process(w)
  \/ FetchFails(w)
  \/ Lookup(w)
  \/ LookupBlind(w)
  \/ Save(w)
  \/ Conflict(w)
  \/ PostFails(w)

Next ==
  \/ \E s \in Sig : Receive(s)
  \/ ListenerStep
  \/ \E w \in Worker : WorkerStep(w)
  \/ SetVerifier
  \/ Stop

Spec == Init /\ [][Next]_vars

\* Goroutines run: each worker's next step is taken in the end.
Fairness == \A w \in Worker : WF_vars(WorkerStep(w))

FairSpec == Spec /\ Fairness

-----------------------------------------------------------------------------
(* Properties.                                                             *)

PostsTo(id) == {p \in posted : p.id = id}
PostsFor(a) == {p \in posted : Attested(p.sig) = a}

(***************************************************************************)
(* PostAttestationRecord merges "source_doc lists when multiple indexers   *)
(* attest to the same block": a block and root whose record was never      *)
(* saved from a stale lookup has exactly one document, with the signers    *)
(* and CIDs of all posts and one vote for each, retries after conflicts    *)
(* and redelivered signatures included.                                    *)
(***************************************************************************)
MergedUnlessRaced ==
  \A a \in AttestedDoc \ raced :
    LET P == PostsFor(a) IN
      \/ P = {} /\ RecordsOf(a) = {}
      \/ \E id \in DocID :
           /\ RecordsOf(a) = {id}
           /\ records[id].sources = {SignerOf(p.sig) : p \in P}
           /\ records[id].cids = UNION {CidsOf(p.sig) : p \in P}
           /\ records[id].votes = Cardinality(P)

(***************************************************************************)
(* vote_count is a counter, so no post is lost from it even when two       *)
(* workers save the same record from the same lookup; and the merged list  *)
(* never names more signers than were counted.                             *)
(***************************************************************************)
VotesExact ==
  \A id \in DOMAIN records :
    /\ records[id].votes = Cardinality(PostsTo(id))
    /\ Cardinality(records[id].sources) <= records[id].votes

(***************************************************************************)
(* Indexers that sign different merkle roots get separate records: the     *)
(* signers and CIDs of a record come from verified signatures of that very *)
(* block and root.                                                         *)
(***************************************************************************)
RecordsTrace ==
  \A id \in DOMAIN records :
    LET S == {s \in accepted : VerifyBlockSignature(s) /\ Attested(s) = records[id].attested} IN
      /\ records[id].sources \subseteq {SignerOf(s) : s \in S}
      /\ records[id].cids \subseteq UNION {CidsOf(s) : s \in S}

(***************************************************************************)
(* enqueueDoc drops the oldest: whatever is queued, or being enqueued, is  *)
(* newer than everything that was dropped, and the queue stays in order    *)
(* although workers take from it between the two selects.                  *)
(***************************************************************************)
OldestDropped ==
  /\ \A i \in DOMAIN docQueue :
       /\ \A a \in dropped : a < docQueue[i].at
       /\ \A j \in 1..(i - 1) : docQueue[j].at < docQueue[i].at
       /\ hand # <<>> => docQueue[i].at < hand.at
  /\ hand # <<>> => \A a \in dropped : a < hand.at

(***************************************************************************)
(* The signature cache holds the highest blocks ever verified, as many as  *)
(* fit, whatever order they arrive in, as long as their numbers are not    *)
(* negative (nothing refuses one that is, and eviction does not cope).     *)
(***************************************************************************)
CacheNewest ==
  LET seen == {BlockOf(s) : s \in accepted} IN
    seen \subseteq Nat =>
      /\ DOMAIN cache \subseteq seen
      /\ \A b \in seen :
           b \in DOMAIN cache <=> Cardinality({d \in seen : d > b}) < CacheSize

(***************************************************************************)
(* Every time the relays pause the workers get through what they took:     *)
(* fetches and conflicts are retried a bounded number of times, and a stop *)
(* in between leaves no worker waiting.                                    *)
(***************************************************************************)
WorkersReturn == []<>(\A w \in Worker : job[w] = <<>>)

(***************************************************************************)
(* What the comment of PostAttestationRecord and the test                  *)
(* MultipleIndexers_AppendsSourceDoc promise without condition: every      *)
(* signer whose post succeeded is a source of some record of the block and *)
(* root.                                                                   *)
(***************************************************************************)
SourcesMerged ==
  \A p \in posted :
    \E id \in RecordsOf(Attested(p.sig)) : SignerOf(p.sig) \in records[id].sources
=============================================================================
