-------------------------------- MODULE Store --------------------------------
(***************************************************************************)
(* The documents of a node whose pruner has no event queue                 *)
(* (pkg/pruner/pruner.go: startupCleanup and filterBasedPrune): peers offer*)
(* documents in any order, the replication filter lets some of them in,    *)
(* and the pruner keeps the span between the lowest and the highest block  *)
(* at MaxBlocks.  Each read of the block range is a step of its own, and   *)
(* so is each collection's query with the purge of what it found: only the *)
(* pruner removes documents, so a document that arrives between those two  *)
(* might as well arrive after them.  (A host gives its pruner an event     *)
(* queue; that pruner is module Pruner.)                                   *)
(***************************************************************************)
EXTENDS ReplicationFilter, FiniteSets

CONSTANTS Document,        \* the documents peers may offer
          Config,          \* filter configurations
          Dependents,      \* CollectionConfig.DependentCollections, in order
          MaxBlocks,       \* Config.MaxBlocks
          Limit,           \* of a query for the oldest documents
          MaxOffers,       \* bound: offered documents
          MaxFaults        \* bound: failing queries and purges

ASSUME StoreAssumption ==
  /\ IsFiniteSet(Document) /\ \A d \in Document : d.num \in Nat \cup {None}
  /\ Dependents \in Seq({d.col : d \in Document}) /\ Dependents # <<>>
  /\ \A c \in Config : c = [f \in FilterFields |-> c[f]]
  /\ MaxBlocks \in Nat \ {0} /\ Limit \in Nat \ {0}
  /\ MaxOffers \in Nat /\ MaxFaults \in Nat

VARIABLES
  cfg,       \* the filter configuration of this node
  docs,      \* the documents in the store
  ppc,       \* where the pruner is
  dep,       \* the dependent collection it is at
  lowest,    \* the block numbers it has read
  highest,
  stopped,   \* stopChan is closed
  offers,
  faults,
  \* history
  refused,   \* documents the filter kept out
  purged     \* documents the pruner removed

prunerVars == <<ppc, dep, lowest, highest>>
storeVars == <<cfg, docs, prunerVars, stopped, offers, faults, refused, purged>>

\* parseBlockNumber: what is no number is 0; an unset field sorts first.
NumberOf(d) == IF d.num = None THEN 0 ELSE d.num

In(col) == {d \in docs : d.col = col}
Numbers(D) == {NumberOf(d) : d \in D}

Deps == 1..Len(Dependents)

StoreTypeOK ==
  /\ cfg \in Config /\ docs \subseteq Document
  /\ ppc \in {"cleanLow", "cleanHigh", "wait", "high", "low", "deps", "blocks", "gone"}
  /\ dep \in Deps
  /\ lowest \in Nat /\ highest \in Nat
  /\ stopped \in BOOLEAN
  /\ refused \subseteq Document /\ purged \subseteq Document

\* The node starts with documents of an earlier run, which came through the same filter.
StoreInit ==
  /\ cfg \in Config
  /\ docs \in {{d \in D : Allowed(cfg, d)} : D \in {{}, Document}}
  /\ ppc = "cleanLow" /\ dep = 1 /\ lowest = 0 /\ highest = 0
  /\ stopped = FALSE /\ offers = 0 /\ faults = 0
  /\ refused = {} /\ purged = {}

Fault ==
  /\ faults < MaxFaults
  /\ faults' = faults + 1

-----------------------------------------------------------------------------

\* A peer offers a document, perhaps one that was pruned before.
Offer(d) ==
  /\ offers < MaxOffers
  /\ offers' = offers + 1
  /\ IF Allowed(cfg, d)
       THEN docs' = docs \cup {d} /\ refused' = refused
       ELSE refused' = refused \cup {d} /\ docs' = docs
  /\ UNCHANGED <<cfg, prunerVars, stopped, faults, purged>>

\* getLowestBlockNumber and getHighestBlockNumber: the first block in that order, 0
\* when there is none.
LowestBlock ==
  IF In("block") = {} THEN 0 ELSE CHOOSE n \in Numbers(In("block")) :
                                    \A m \in Numbers(In("block")) : n <= m
HighestBlock ==
  IF In("block") = {} THEN 0 ELSE CHOOSE n \in Numbers(In("block")) :
                                    \A m \in Numbers(In("block")) : m <= n

\* Variant: one block too many.
CutoffOffByOne == lowest + (highest - lowest + 1 - MaxBlocks)

\* The last block to prune.
Cutoff == lowest + (highest - lowest + 1 - MaxBlocks) - 1

Exceeds(low, high) == high - low + 1 > MaxBlocks

\* startupCleanup reads the lowest block,
CleanLow ==
  /\ ppc = "cleanLow"
  /\ lowest' = LowestBlock
  /\ ppc' = "cleanHigh"
  /\ UNCHANGED <<cfg, docs, dep, highest, stopped, offers, faults, refused, purged>>

\* then the highest, and prunes the excess; an empty store has both 0.
CleanHigh ==
  /\ ppc = "cleanHigh"
  /\ highest' = HighestBlock
  /\ ppc' = IF (lowest # 0 \/ highest' # 0) /\ Exceeds(lowest, highest') THEN "deps" ELSE "wait"
  /\ UNCHANGED <<cfg, docs, dep, lowest, stopped, offers, faults, refused, purged>>

\* The ticker: filterBasedPrune reads the highest block,
Tick ==
  /\ ppc = "wait"
  /\ highest' = HighestBlock
  /\ ppc' = IF highest' = 0 THEN "wait" ELSE "low"
  /\ UNCHANGED <<cfg, docs, dep, lowest, stopped, offers, faults, refused, purged>>

\* Variant: the span without its last block.
LowExclusive ==
  /\ ppc = "low"
  /\ lowest' = LowestBlock
  /\ ppc' = IF lowest' # 0 /\ highest - lowest' > MaxBlocks THEN "deps" ELSE "wait"
  /\ UNCHANGED <<cfg, docs, dep, highest, stopped, offers, faults, refused, purged>>

\* then the lowest; 0, no block or block 0, ends it.
Low ==
  /\ ppc = "low"
  /\ lowest' = LowestBlock
  /\ ppc' = IF lowest' # 0 /\ Exceeds(lowest', highest) THEN "deps" ELSE "wait"
  /\ UNCHANGED <<cfg, docs, dep, highest, stopped, offers, faults, refused, purged>>

\* queryOldestDocIDs: of the Limit oldest documents of the collection, those up to the
\* cutoff.  Which of two documents of a block comes first is up to DefraDB.
OldestDocIDs(col) ==
  {{d \in D : NumberOf(d) <= Cutoff} :
     D \in {S \in SUBSET In(col) :
              /\ Cardinality(S) <= Limit
              /\ Cardinality(S) = Limit \/ S = In(col)
              /\ \A d \in S, e \in In(col) \ S : NumberOf(d) <= NumberOf(e)}}

Purge(D) ==
  /\ docs' = docs \ D
  /\ purged' = purged \cup D

NextCollection ==
  IF dep < Len(Dependents) THEN ppc' = "deps" /\ dep' = dep + 1
                           ELSE ppc' = "blocks" /\ dep' = 1

\* pruneBlockRange at a dependent collection: query and purge.
PruneDependents ==
  /\ ppc = "deps"
  /\ \E D \in OldestDocIDs(Dependents[dep]) : Purge(D)
  /\ NextCollection
  /\ UNCHANGED <<cfg, lowest, highest, stopped, offers, faults, refused>>

\* The query fails, or the purge after it did part of its work: the next one follows.
DependentsFail ==
  /\ ppc = "deps"
  /\ Fault
  /\ \E D \in OldestDocIDs(Dependents[dep]) : \E part \in SUBSET D : Purge(part)
  /\ NextCollection
  /\ UNCHANGED <<cfg, lowest, highest, stopped, offers, refused>>

\* The blocks come last.
PruneBlocks ==
  /\ ppc = "blocks"
  /\ \E D \in OldestDocIDs("block") : Purge(D)
  /\ ppc' = "wait"
  /\ UNCHANGED <<cfg, dep, lowest, highest, stopped, offers, faults, refused>>

BlocksFail ==
  /\ ppc = "blocks"
  /\ Fault
  /\ \E D \in OldestDocIDs("block") : \E part \in SUBSET D : Purge(part)
  /\ ppc' = "wait"
  /\ UNCHANGED <<cfg, dep, lowest, highest, stopped, offers, refused>>

\* A query for the lowest or highest block fails: the prune, or the cleanup, ends.
NumberFails ==
  /\ ppc \in {"cleanLow", "cleanHigh", "low", "wait"}
  /\ Fault
  /\ ppc' = "wait"
  /\ UNCHANGED <<cfg, docs, dep, lowest, highest, stopped, offers, refused, purged>>

\* Stop closes stopChan; the loop sees it between two prunes.
Stop ==
  /\ ~stopped
  /\ stopped' = TRUE
  /\ UNCHANGED <<cfg, docs, prunerVars, offers, faults, refused, purged>>

LoopEnds ==
  /\ ppc = "wait"
  /\ stopped
  /\ ppc' = "gone"
  /\ UNCHANGED <<cfg, docs, dep, lowest, highest, stopped, offers, faults, refused, purged>>

PrunerStep ==
  \/ CleanLow \/ CleanHigh \/ Tick \/ Low
  \/ PruneDependents \/ DependentsFail
  \/ PruneBlocks \/ BlocksFail \/ NumberFails \/ LoopEnds

StoreNext ==
  \/ \E d \in Document : Offer(d)
  \/ PrunerStep
  \/ Stop

StoreSpec == StoreInit /\ [][StoreNext]_storeVars

\* The ticker ticks and DefraDB answers.
FairStoreSpec == StoreSpec /\ WF_storeVars(PrunerStep)

-----------------------------------------------------------------------------
(* Properties.                                                             *)

(***************************************************************************)
(* max_blocks is the "Number of blocks to retain": whatever arrives        *)
(* between the pruner's two reads of the block range, it removes nothing   *)
(* of the newest MaxBlocks block numbers.                                  *)
(***************************************************************************)
NewestKept ==
  \A d \in purged \ docs : \E b \in docs : b.col = "block" /\ b.num - NumberOf(d) >= MaxBlocks

(***************************************************************************)
(* When replication pauses the pruner brings the blocks back to a span of  *)
(* MaxBlocks, failed queries and purges and the limit of a query           *)
(* notwithstanding.  Block 0 is the exception: the loop takes it for an    *)
(* empty store and only the cleanup at the next start removes it.          *)
(***************************************************************************)
SpanShrinks ==
  Exceeds(LowestBlock, HighestBlock) ~>
    ~Exceeds(LowestBlock, HighestBlock) \/ LowestBlock = 0 \/ stopped

(***************************************************************************)
(* The filter keeps no document whose block it would refuse for its        *)
(* number, whichever field the number is in; a document in the range is    *)
(* kept by exactly one of the two modes as soon as a group is enabled; and *)
(* under "cascade_filters" what an allowlist says of transactions to an    *)
(* address it says of that address's logs and access list entries.         *)
(***************************************************************************)
FilterConsistent ==
  /\ \A d \in docs :
       d.col \notin StructuralCols /\ d.num # None =>
         Allowed(cfg, [col |-> "block", num |-> d.num, addr |-> "", topics |-> <<>>])
  /\ cfg.enabled /\ EnabledGroups(cfg) # {} =>
       \A d \in docs \cup refused :
         LET flip == [cfg EXCEPT !.mode = IF @ = "blocklist" THEN "allowlist" ELSE "blocklist"]
         IN  d.col \in FilteredCols /\ InBlockRange(cfg, d.num) =>
               (d \in docs) # Allowed(flip, d)
  /\ cfg.enabled /\ cfg.cascade /\ cfg.mode = "allowlist" =>
       \A d \in docs : d.col = "transaction" =>
         \A e \in refused : e.col \in FilteredCols => e.addr # d.addr \/ ~InBlockRange(cfg, e.num)
=============================================================================
