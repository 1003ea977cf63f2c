------------------------------ MODULE Bootstrap ------------------------------
(***************************************************************************)
(* Seeding a host from an indexer's snapshots                              *)
(* (pkg/host/snapshot_bootstrap.go, pkg/snapshot): at every start the host *)
(* lists the snapshots, reads the lowest and the highest block it has,     *)
(* picks the signed snapshots that overlap the configured ranges and are   *)
(* not inside what it has, imports them in ascending order, attests each   *)
(* one and rebuilds the indexes once.  A failure moves on to the next      *)
(* snapshot; a crash leaves what has been written.                         *)
(*                                                                         *)
(* An import writes raw key-value pairs, in no order of blocks and without *)
(* indexing them.  Peers may replicate blocks at any time, the pruner may  *)
(* remove replicated ones, and both keep the indexes up to date.           *)
(***************************************************************************)
EXTENDS Integers

CONSTANTS File,          \* the snapshots the indexer offers
          StartBlock,    \* their claimed
          EndBlock,      \* block ranges
          Signed,        \* the files marked signed,
          WithSignature, \* those that come with signature data,
          Genuine,       \* those whose signature and header verify
          WithRoots,     \* and those whose signature lists the block roots
          HistoricalRanges, \* the configured ranges
          OrderByIndex,  \* DefraDB answers ordered queries from the index, or by a scan
          Live,          \* blocks that peers replicate
          MaxFaults,     \* bound: failing calls
          MaxStarts      \* bound: starts of the host

Blocks(f) == StartBlock[f]..EndBlock[f]

ASSUME FileAssumption ==
  /\ StartBlock \in [File -> Nat \ {0}] /\ EndBlock \in [File -> Nat]
  /\ Signed \subseteq File /\ WithSignature \subseteq File
  /\ Genuine \subseteq File /\ WithRoots \subseteq File
  /\ HistoricalRanges \subseteq [start : Nat, end : Nat]
  /\ OrderByIndex \in BOOLEAN
  /\ Live \subseteq Nat \ {0}
  /\ MaxFaults \in Nat /\ MaxStarts \in Nat

VARIABLES
  store,      \* block numbers in DefraDB
  indexed,    \* block numbers the index on number knows
  attested,   \* snapshots with an attestation record
  pc,         \* where bootstrapFromSnapshots is
  needed,     \* the snapshots still to import
  file,       \* the snapshot being imported, if any
  imported,   \* the snapshots this start has imported
  existing,   \* existingMin and existingMax
  \* history
  wrote,      \* snapshots of which something was written, ever
  whole,      \* snapshots imported to the end, ever
  found,      \* the blocks there were when the range was read
  clean,      \* nothing has failed in this start
  faults,
  starts

dbVars == <<store, indexed, attested>>
workVars == <<pc, needed, file, imported, existing>>
historyVars == <<wrote, whole, found, clean, faults, starts>>
vars == <<dbVars, workVars, historyVars>>

Where == {"down", "list", "highest", "lowest", "next", "writing", "attest", "rebuild", "up"}

TypeOK ==
  /\ store \subseteq Nat /\ indexed \subseteq store
  /\ attested \subseteq File
  /\ pc \in Where
  /\ needed \subseteq File /\ imported \subseteq File
  /\ file \subseteq File
  /\ existing \in [min : Nat, max : Nat]
  /\ wrote \subseteq File /\ whole \subseteq File
  /\ found \subseteq Nat
  /\ clean \in BOOLEAN
  /\ faults \in Nat /\ starts \in Nat

NoRange == [min |-> 0, max |-> 0]

Init ==
  /\ store = {} /\ indexed = {} /\ attested = {}
  /\ pc = "list" /\ needed = {} /\ file = {} /\ imported = {} /\ existing = NoRange
  /\ wrote = {} /\ whole = {} /\ found = {} /\ clean = TRUE /\ faults = 0 /\ starts = 1

Goto(where) == pc' = where

\* A call failed: one of a bounded number of faults.
Fault ==
  /\ faults < MaxFaults
  /\ faults' = faults + 1
  /\ clean' = FALSE

NoFault == UNCHANGED <<clean, faults>>

-----------------------------------------------------------------------------
(* resolveNeededSnapshots.                                                 *)

\* ListSnapshots answers; without a snapshot there is nothing to do.
List ==
  /\ pc = "list"
  /\ Goto(IF File = {} THEN "up" ELSE "highest")
  /\ UNCHANGED <<dbVars, needed, file, imported, existing, historyVars>>

ListFails ==
  /\ pc = "list"
  /\ Fault
  /\ Goto("up")
  /\ UNCHANGED <<dbVars, needed, file, imported, existing, wrote, whole, found, starts>>

\* Variant: a snapshot that ends where the range starts does not overlap it.
OverlapsStrictly(f, r) == EndBlock[f] > r.start /\ StartBlock[f] < r.end

Overlaps(f, r) == EndBlock[f] >= r.start /\ StartBlock[f] <= r.end

\* The snapshots the configuration asks for.
Requested == {f \in File : \E r \in HistoricalRanges : Overlaps(f, r)}

\* Between the lowest and the highest block: what the code takes for "already in the DB".
Inside(f, range) ==
  range.max > 0 /\ StartBlock[f] >= range.min /\ EndBlock[f] <= range.max

\* findCoveringSnapshots.
Covering(range) == {f \in Requested : f \in Signed /\ ~Inside(f, range)}

\* What is needed is decided from the range; with nothing needed, bootstrap is over.
Decide(range) ==
  /\ existing' = range
  /\ needed' = Covering(range)
  /\ Goto(IF Covering(range) = {} THEN "up" ELSE "next")

\* The blocks a query ordered by number finds.
Seen == IF OrderByIndex THEN indexed ELSE store

\* getExistingBlockRange, the first query: without a block the range is (0, 0).
ReadHighest ==
  /\ pc = "highest"
  /\ \/ /\ Seen = {}
        /\ Decide(NoRange)
     \/ \E n \in Seen :
          /\ \A m \in Seen : m <= n
          /\ existing' = [NoRange EXCEPT !.max = n]
          /\ Goto("lowest")
          /\ UNCHANGED needed
  /\ found' = store
  /\ UNCHANGED <<dbVars, file, imported, wrote, whole, clean, faults, starts>>

\* The query failed: the range is (0, 0).
ReadHighestFails ==
  /\ pc = "highest"
  /\ Fault
  /\ Decide(NoRange)
  /\ found' = store
  /\ UNCHANGED <<dbVars, file, imported, wrote, whole, starts>>

\* The second query.  Nothing is pruned this early, so it finds a block too.
ReadLowest ==
  /\ pc = "lowest"
  /\ \E n \in Seen :
       /\ \A m \in Seen : n <= m
       /\ Decide([existing EXCEPT !.min = n])
  /\ UNCHANGED <<dbVars, file, imported, historyVars>>

\* The query failed: the range is (0, highest).
ReadLowestFails ==
  /\ pc = "lowest"
  /\ Fault
  /\ Decide(existing)
  /\ UNCHANGED <<dbVars, file, imported, wrote, whole, found, starts>>

-----------------------------------------------------------------------------
(* importSnapshots.                                                        *)

\* sort.Slice: the one that starts first is next.
IsNext(f) == f \in needed /\ \A g \in needed : StartBlock[f] <= StartBlock[g]

\* Variant: the file is imported without verification.
BeginUnverified(f) ==
  /\ pc = "next"
  /\ IsNext(f)
  /\ needed' = needed \ {f}
  /\ file' = {f}
  /\ Goto("writing")
  /\ UNCHANGED <<dbVars, imported, existing, historyVars>>

\* Download and ImportWithVerification up to importKVs.
Begin(f) ==
  /\ pc = "next"
  /\ IsNext(f)
  /\ f \in WithSignature \cap Genuine
  /\ needed' = needed \ {f}
  /\ file' = {f}
  /\ Goto("writing")
  /\ UNCHANGED <<dbVars, imported, existing, historyVars>>

\* No signature data, or the signature or the header does not verify.
Refuse(f) ==
  /\ pc = "next"
  /\ IsNext(f)
  /\ f \notin WithSignature \cap Genuine
  /\ needed' = needed \ {f}
  /\ UNCHANGED <<dbVars, pc, file, imported, existing, historyVars>>

DownloadFails(f) ==
  /\ pc = "next"
  /\ IsNext(f)
  /\ f \in WithSignature
  /\ Fault
  /\ needed' = needed \ {f}
  /\ UNCHANGED <<dbVars, pc, file, imported, existing, wrote, whole, found, starts>>

\* ImportRawKVs writes a block of the file, in no particular order and without its index
\* entry.  That a genuine file holds the blocks of its claimed range is the indexer's word:
\* only the header and its merkle roots are verified.
Write(f, b) ==
  /\ pc = "writing"
  /\ f \in file
  /\ b \in Blocks(f) \ store
  /\ store' = store \cup {b}
  /\ wrote' = wrote \cup {f}
  /\ UNCHANGED <<indexed, attested, workVars, whole, found, clean, faults, starts>>

\* Everything is in the store.
Imported(f) ==
  /\ pc = "writing"
  /\ f \in file
  /\ Blocks(f) \subseteq store
  /\ imported' = imported \cup {f}
  /\ whole' = whole \cup {f}
  /\ wrote' = wrote \cup {f}
  /\ Goto("attest")
  /\ UNCHANGED <<dbVars, needed, file, existing, found, clean, faults, starts>>

\* Variant: a snapshot is attested although its import failed.
ImportFailsAttesting ==
  /\ pc = "writing"
  /\ Fault
  /\ Goto("attest")
  /\ UNCHANGED <<dbVars, needed, file, imported, existing, wrote, whole, found, starts>>

\* Variant: a failed import is tried again.
ImportFailsRetrying ==
  /\ pc = "writing"
  /\ pc' = "next"
  /\ needed' = needed \cup file
  /\ file' = {}
  /\ UNCHANGED <<dbVars, imported, existing, historyVars>>

\* importKVs fails, and what it wrote stays.
ImportFails ==
  /\ pc = "writing"
  /\ Fault
  /\ file' = {}
  /\ Goto("next")
  /\ UNCHANGED <<dbVars, needed, imported, existing, wrote, whole, found, starts>>

\* createSnapshotAttestation: a snapshot without block roots is not attested.
Attest ==
  /\ pc = "attest"
  /\ attested' = attested \cup (file \cap WithRoots)
  /\ file' = {}
  /\ Goto("next")
  /\ UNCHANGED <<store, indexed, needed, imported, existing, historyVars>>

\* The record could not be posted.
AttestFails ==
  /\ pc = "attest"
  /\ Fault
  /\ file' = {}
  /\ Goto("next")
  /\ UNCHANGED <<dbVars, needed, imported, existing, wrote, whole, found, starts>>

\* Variant: the indexes are only rebuilt when every snapshot was new.
FinishUnlessExisting ==
  /\ pc = "next"
  /\ needed = {}
  /\ Goto(IF imported # {} /\ existing = NoRange THEN "rebuild" ELSE "up")
  /\ UNCHANGED <<dbVars, needed, file, imported, existing, historyVars>>

\* The last one is done: the indexes are rebuilt if anything was imported.
Finish ==
  /\ pc = "next"
  /\ needed = {}
  /\ Goto(IF imported # {} THEN "rebuild" ELSE "up")
  /\ UNCHANGED <<dbVars, needed, file, imported, existing, historyVars>>

\* RebuildAllIndexes.
Rebuild ==
  /\ pc = "rebuild"
  /\ indexed' = store
  /\ Goto("up")
  /\ UNCHANGED <<store, attested, needed, file, imported, existing, historyVars>>

\* It goes collection by collection and stops at the first that fails.
RebuildFails ==
  /\ pc = "rebuild"
  /\ Fault
  /\ \E part \in SUBSET store : indexed' = indexed \cup part
  /\ Goto("up")
  /\ UNCHANGED <<store, attested, needed, file, imported, existing, wrote, whole, found, starts>>

-----------------------------------------------------------------------------
(* The rest of the host.                                                   *)

\* A peer replicates a block.
Replicate(b) ==
  /\ pc # "down"
  /\ b \notin store
  /\ store' = store \cup {b}
  /\ indexed' = indexed \cup {b}
  /\ UNCHANGED <<attested, workVars, historyVars>>

\* The pruner purges a replicated block.
Prune(b) ==
  /\ pc = "up"
  /\ b \in indexed
  /\ store' = store \ {b}
  /\ indexed' = indexed \ {b}
  /\ UNCHANGED <<attested, workVars, historyVars>>

\* The process ends, at any point.
Crash ==
  /\ pc # "down"
  /\ starts < MaxStarts
  /\ Goto("down")
  /\ needed' = {} /\ file' = {} /\ imported' = {} /\ existing' = NoRange
  /\ UNCHANGED <<dbVars, historyVars>>

Restart ==
  /\ pc = "down"
  /\ Goto("list")
  /\ starts' = starts + 1
  /\ clean' = TRUE
  /\ found' = {}
  /\ UNCHANGED <<dbVars, needed, file, imported, existing, wrote, whole, faults>>

Resolve ==
  List \/ ListFails \/ ReadHighest \/ ReadHighestFails \/ ReadLowest \/ ReadLowestFails

Import ==
  \/ \E f \in File : \/ Begin(f) \/ Refuse(f) \/ DownloadFails(f) \/ Imported(f)
                     \/ \E b \in Blocks(f) : Write(f, b)
  \/ ImportFails \/ Attest \/ AttestFails
  \/ Finish \/ Rebuild \/ RebuildFails

Next ==
  \/ Resolve
  \/ Import
  \/ \E b \in Live : Replicate(b) \/ Prune(b)
  \/ Crash
  \/ Restart

Spec == Init /\ [][Next]_vars

\* Start-up runs, and the calls it makes return.
FairSpec == Spec /\ WF_vars(Resolve) /\ WF_vars(Import)

-----------------------------------------------------------------------------
(* Properties.                                                             *)

\* The good snapshots that have a block of a configured range.
Wanted ==
  {f \in Signed \cap WithSignature \cap Genuine :
     \E r \in HistoricalRanges : \E b \in Blocks(f) : b \in r.start..r.end}

(***************************************************************************)
(* "Only import signed snapshots": nothing of a snapshot that is not       *)
(* signed, or does not verify, is ever written, not even part of it.       *)
(***************************************************************************)
OnlyVerified == wrote \subseteq Signed \cap WithSignature \cap Genuine

(***************************************************************************)
(* A snapshot's attestation stands for an import that ran to its end,      *)
(* however often imports failed part way or the host crashed between the   *)
(* import and the attestation.                                             *)
(***************************************************************************)
AttestedImported == attested \subseteq whole

(***************************************************************************)
(* A start in which nothing fails, on a store that had no blocks when the  *)
(* range was read, ends with every block of the requested ranges that a    *)
(* good snapshot has (and the pruner has not removed), and the index knows *)
(* them.                                                                   *)
(***************************************************************************)
CleanSeed ==
  pc = "up" /\ clean /\ found = {} /\ needed = {} =>
    \A f \in Wanted : Blocks(f) \ Live \subseteq indexed

(***************************************************************************)
(* The indexes are rebuilt "once after all snapshots are imported": a      *)
(* start that imported something and met no failure leaves no block        *)
(* without its index entry, those of earlier interrupted starts included.  *)
(* A start that imports nothing rebuilds nothing, whatever an earlier one  *)
(* left without index entries.                                             *)
(***************************************************************************)
AllIndexed == pc = "up" /\ clean /\ imported # {} => store = indexed

\* Bootstrap never keeps the host from starting: every failure moves on.
BootEnds == pc = "list" ~> pc \in {"up", "down"}

\* The strengthening of OnlyVerified and AttestedImported: what is to be imported is
\* signed, one file is imported at a time and verifies, and what is being attested is
\* imported.
Chosen ==
  /\ \A f, g \in file : f = g
  /\ needed \subseteq Signed
  /\ file \subseteq Signed \cap WithSignature \cap Genuine
  /\ pc = "attest" => file \subseteq whole

\* Imports belong to the start they were made in.
FreshStart == pc \in {"down", "list", "highest", "lowest"} => imported = {} /\ file = {}

\* The strengthening of CleanSeed: while nothing fails, a wanted snapshot is still to
\* come, at work or imported, and an imported one is in the store.
SeedGoesOn ==
  /\ pc = "lowest" => found # {}
  /\ \A f \in imported : pc # "up" => Blocks(f) \subseteq store
  /\ pc \in {"next", "writing", "attest", "rebuild"} /\ clean /\ found = {} =>
       Wanted \subseteq needed \cup file \cup imported
  /\ pc = "rebuild" => needed = {} /\ file = {}
  /\ pc = "next" => file = {}
  /\ pc = "attest" => file \subseteq imported
  /\ \A f, g \in file : f = g

(***************************************************************************)
(* findCoveringSnapshots skips "snapshots whose block range is already     *)
(* fully present in the DB": a signed snapshot of the requested ranges     *)
(* that is not picked has all its blocks in the store.                     *)
(***************************************************************************)
SkippedPresent ==
  [][(pc \in {"highest", "lowest"} /\ pc' \in {"next", "up"}) =>
       \A f \in (Requested \cap Signed) \ needed' : Blocks(f) \subseteq store]_vars
=============================================================================
