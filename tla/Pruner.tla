------------------------------- MODULE Pruner -------------------------------
(***************************************************************************)
(* The host's pruner (pkg/pruner/pruner.go) at work: documents replicated  *)
(* into DefraDB raise update events, the event bus listener of             *)
(* pkg/host/attestationHandler.go pushes them on the EventQueue, the prune *)
(* loop drains the excess and purges it collection by collection, and the  *)
(* host's start, Close and crash decide what happens to the queue file.    *)
(*                                                                         *)
(* Steps are split where the code releases a lock or calls DefraDB: the    *)
(* listener can push between the pruner's Len and its DrainDocs and        *)
(* between any two purges.                                                 *)
(***************************************************************************)
EXTENDS EventQueue

CONSTANTS KnownCollection, \* the names in collectionIDToName
          Imported,     \* documents brought in by a snapshot, which raise no event
          MaxDocs,      \* cfg.MaxDocs(): max_blocks * docs_per_block
          MaxArrivals,  \* bound: update events over the whole run
          MaxRestarts   \* bound: times the process comes up again

ASSUME BoundsAssumption ==
  /\ Imported \subseteq Doc
  /\ MaxDocs \in Nat
  /\ MaxArrivals \in Nat
  /\ MaxRestarts \in Nat

VARIABLES
  store,         \* documents in DefraDB (survives a crash)
  bus,           \* update events published and not yet read by the listener
  listening,     \* the listener is subscribed to the event bus
  phase,         \* where the host is in its life
  pc,            \* where the prune loop is
  excess,        \* the count runEventQueuePrune computed from Len
  pending,       \* DrainResult.DocIDsByCollection, collections not yet purged
  todo,          \* the collections purgeFromDrainResult still has to visit
  \* history
  arrivals,      \* update events so far
  restarts,      \* starts after the first
  drained,       \* arrival numbers of entries that have been drained at least once
  pushed,        \* documents ever pushed on the queue
  lost           \* documents whose tracking the program knowingly gave up

loopVars == <<pc, excess, pending, todo>>
vars == <<queueVars, store, bus, listening, phase, loopVars,
          arrivals, restarts, drained, pushed, lost>>

(***************************************************************************)
(* "booting": DefraDB and P2P run, the queue file is not loaded.           *)
(* "loaded":  the prune loop runs, but host.pruneQueue is still nil.       *)
(* "closing": Host.Close has begun; "saved": the queue has been written    *)
(* (or could not be) and the rest of Close runs.                           *)
(***************************************************************************)
Phase == {"down", "booting", "loaded", "up", "closing", "saved"}
LoopPC == {"off", "idle", "measured", "purging", "exited"}

NoPending == [c \in Collection |-> <<>>]
PurgeOrder == Append(DependentCollections, BlockCollection)

Tracked(d) == ColOf[d] \in Collection
PendingDocs == UNION {DocsIn(pending[c]) : c \in Collection}
FileDocs == DocsIn(file.entries)
BusDocs == DocsIn(bus)

TypeOK ==
  /\ entries \in Seq(Entry)
  /\ blockCount \in Int
  /\ docIDPrefix \in BOOLEAN
  /\ file \in Snapshot
  /\ store \subseteq Doc
  /\ bus \in Seq(Entry)
  /\ listening \in BOOLEAN
  /\ phase \in Phase
  /\ pc \in LoopPC
  /\ excess \in Nat
  /\ pending \in [Collection -> Seq(Entry)]
  /\ todo \in Seq(Collection)
  /\ arrivals \in Nat
  /\ restarts \in Nat
  /\ drained \subseteq Nat
  /\ pushed \subseteq Doc
  /\ lost \subseteq Doc

Init ==
  /\ InitQueue
  /\ store = Imported
  /\ bus = <<>>
  /\ listening = FALSE
  /\ phase = "booting"
  /\ pc = "off"
  /\ excess = 0
  /\ pending = NoPending
  /\ todo = <<>>
  /\ arrivals = 0
  /\ restarts = 0
  /\ drained = {}
  /\ pushed = {}
  /\ lost = {}

-----------------------------------------------------------------------------
(* Replication and the event bus listener.                                 *)

\* DefraDB commits a document (relayed by a peer or written locally) and publishes
\* the update; without a subscriber nobody ever hears of it.
Replicate(d) ==
  /\ phase # "down"
  /\ arrivals < MaxArrivals
  /\ arrivals' = arrivals + 1
  /\ store' = store \cup {d}
  /\ IF listening
       THEN /\ bus' = Append(bus, [doc |-> d, at |-> arrivals])
            /\ lost' = lost
       ELSE /\ bus' = bus
            /\ lost' = lost \cup {d}
  /\ UNCHANGED <<queueVars, listening, phase, loopVars, restarts, drained, pushed>>

\* startEventBusListener subscribes, at some time after the host started it.  One that
\* could not, or that could not read the collections, is as deaf as one that has not yet.
Subscribe ==
  /\ phase \in {"booting", "loaded", "up"}
  /\ ~listening
  /\ listening' = TRUE
  /\ UNCHANGED <<queueVars, store, bus, phase, loopVars, arrivals, restarts,
                 drained, pushed, lost>>

\* The listener takes an event. One of a collection that initKnownCollectionIDs does not
\* look for is skipped, and so is any before host.pruneQueue is set; after the queue has
\* been saved the push reaches a queue nobody will look at again.
HandleUpdate ==
  /\ listening
  /\ bus # <<>>
  /\ bus' = Tail(bus)
  /\ LET e == Head(bus) IN
       IF phase \in {"up", "closing", "saved"} /\ ColOf[e.doc] \in KnownCollection
         THEN /\ Push(e)
              /\ pushed' = pushed \cup {e.doc}
              /\ lost' = IF phase = "saved" THEN lost \cup {e.doc} ELSE lost
         ELSE /\ UNCHANGED <<queueVars, pushed>>
              /\ lost' = lost \cup {e.doc}
  /\ UNCHANGED <<store, listening, phase, loopVars, arrivals, restarts, drained>>

\* Close cancels the listener's context; select may still prefer an event.
ListenerExit ==
  /\ listening
  /\ phase \in {"closing", "saved"}
  /\ listening' = FALSE
  /\ bus' = <<>>
  /\ lost' = lost \cup BusDocs
  /\ UNCHANGED <<queueVars, store, phase, loopVars, arrivals, restarts, drained, pushed>>

-----------------------------------------------------------------------------
(* The prune loop.                                                         *)

\* A tick: Len is read under the queue's lock and compared with the limit.
Measure ==
  /\ pc = "idle"
  /\ Len(entries) > MaxDocs
  /\ excess' = Len(entries) - MaxDocs
  /\ pc' = "measured"
  /\ UNCHANGED <<queueVars, store, bus, listening, phase, pending, todo,
                 arrivals, restarts, drained, pushed, lost>>

\* DrainDocs(excess), a second locked section.
Drain ==
  /\ pc = "measured"
  /\ LET n == Clamp(excess)
         s == Front(n)
     IN  /\ DrainDocs(n)
         /\ pending' = [c \in Collection |-> Group(s, c)]
         /\ drained' = drained \cup {s[i].at : i \in DOMAIN s}
  /\ excess' = 0
  /\ todo' = PurgeOrder
  /\ pc' = "purging"
  /\ UNCHANGED <<store, bus, listening, phase, arrivals, restarts, pushed, lost>>

\* A collection of which nothing was drained.
SkipCollection ==
  /\ pc = "purging"
  /\ todo # <<>>
  /\ pending[Head(todo)] = <<>>
  /\ todo' = Tail(todo)
  /\ UNCHANGED <<queueVars, store, bus, listening, phase, pc, excess, pending,
                 arrivals, restarts, drained, pushed, lost>>

\* purgeByDocIDs succeeds. Without the captured prefix the restored document IDs are
\* not valid: they are skipped, and the purge still succeeds.
PurgeCollection(c) ==
  /\ pc = "purging"
  /\ todo # <<>>
  /\ Head(todo) = c
  /\ pending[c] # <<>>
  /\ store' = IF docIDPrefix THEN store \ DocsIn(pending[c]) ELSE store
  /\ pending' = [pending EXCEPT ![c] = <<>>]
  /\ todo' = Tail(todo)
  /\ UNCHANGED <<queueVars, bus, listening, phase, pc, excess, arrivals,
                 restarts, drained, pushed, lost>>

\* Variant of PurgeFails: the error ends the loop.
PurgeFailsAndStops(c) ==
  /\ pc = "purging"
  /\ todo # <<>>
  /\ Head(todo) = c
  /\ pending[c] # <<>>
  /\ Requeue(pending[c])
  /\ pc' = "exited"
  /\ UNCHANGED <<store, bus, listening, phase, excess, pending, todo, arrivals, restarts,
                 drained, pushed, lost>>

\* purgeByDocIDs fails, having deleted any part of its documents, and they are requeued.
PurgeFails(c) ==
  /\ pc = "purging"
  /\ todo # <<>>
  /\ Head(todo) = c
  /\ pending[c] # <<>>
  /\ \E gone \in SUBSET DocsIn(pending[c]) : store' = store \ gone
  /\ Requeue(pending[c])
  /\ pending' = [pending EXCEPT ![c] = <<>>]
  /\ todo' = Tail(todo)
  /\ UNCHANGED <<bus, listening, phase, pc, excess, arrivals, restarts,
                 drained, pushed, lost>>

\* The cycle ends (the totals that only the metrics show are left out).
FinishCycle ==
  /\ pc = "purging"
  /\ todo = <<>>
  /\ pc' = "idle"
  /\ UNCHANGED <<queueVars, store, bus, listening, phase, excess, pending, todo,
                 arrivals, restarts, drained, pushed, lost>>

\* stopChan is closed: the loop notices between cycles.
LoopExit ==
  /\ pc = "idle"
  /\ phase = "closing"
  /\ pc' = "exited"
  /\ UNCHANGED <<queueVars, store, bus, listening, phase, excess, pending, todo,
                 arrivals, restarts, drained, pushed, lost>>

-----------------------------------------------------------------------------
(* The life of the host.                                                   *)

\* Variant of StartPruner: the loop begins with startupCleanup, as it does without a queue.
StartPrunerCleaning ==
  /\ phase = "booting"
  /\ LoadFromFile /\ lost' = lost
  /\ \E gone \in SUBSET store : store' = store \ gone
  /\ phase' = "loaded"
  /\ pc' = "idle"
  /\ UNCHANGED <<bus, listening, excess, pending, todo, arrivals, restarts, drained, pushed>>

\* LoadFromFile, SetQueue and Start; a file that does not decode is reported and ignored.
StartPruner ==
  /\ phase = "booting"
  /\ \/ LoadFromFile /\ lost' = lost
     \/ file # NoFile /\ UNCHANGED queueVars /\ lost' = lost \cup FileDocs
  /\ phase' = "loaded"
  /\ pc' = "idle"
  /\ UNCHANGED <<store, bus, listening, excess, pending, todo, arrivals,
                 restarts, drained, pushed>>

\* host.pruneQueue = pruneQueue
Attach ==
  /\ phase = "loaded"
  /\ phase' = "up"
  /\ UNCHANGED <<queueVars, store, bus, listening, loopVars, arrivals, restarts,
                 drained, pushed, lost>>

\* Host.Close up to pruner.Stop's close(stopChan).
BeginClose ==
  /\ phase = "up"
  /\ phase' = "closing"
  /\ UNCHANGED <<queueVars, store, bus, listening, loopVars, arrivals, restarts,
                 drained, pushed, lost>>

\* pruner.Stop after wg.Wait: the queue is saved, or the write (the removal, if it is
\* empty) fails and the old file stays.
SaveQueue ==
  /\ phase = "closing"
  /\ pc = "exited"
  /\ \/ Save /\ lost' = lost
     \/ UNCHANGED queueVars /\ lost' = lost \cup DocsIn(entries)
  /\ phase' = "saved"
  /\ pc' = "off"
  /\ UNCHANGED <<store, bus, listening, excess, pending, todo, arrivals,
                 restarts, drained, pushed>>

\* The process is gone: DefraDB's files and the queue file are what is left.
Gone ==
  /\ Forget
  /\ phase' = "down"
  /\ pc' = "off"
  /\ bus' = <<>>
  /\ listening' = FALSE
  /\ excess' = 0
  /\ pending' = NoPending
  /\ todo' = <<>>
  /\ UNCHANGED <<store, arrivals, restarts, drained, pushed>>

\* Close ran to its end.
Exit ==
  /\ phase = "saved"
  /\ Gone
  /\ lost' = lost \cup BusDocs

\* The process dies; documents tracked only in memory are no longer tracked.
Crash ==
  /\ phase \notin {"down", "saved"}
  /\ Gone
  /\ lost' = lost \cup ((DocsIn(entries) \cup PendingDocs \cup BusDocs) \ FileDocs)

\* The next process, up to the point where P2P runs.
Restart ==
  /\ phase = "down"
  /\ restarts < MaxRestarts
  /\ restarts' = restarts + 1
  /\ phase' = "booting"
  /\ UNCHANGED <<queueVars, store, bus, listening, loopVars, arrivals, drained,
                 pushed, lost>>

Listener == Subscribe \/ HandleUpdate \/ ListenerExit

LoopStep ==
  \/ Measure
  \/ Drain
  \/ SkipCollection
  \/ \E c \in Collection : PurgeCollection(c) \/ PurgeFails(c)
  \/ FinishCycle

Lifecycle ==
  \/ StartPruner
  \/ Attach
  \/ BeginClose
  \/ LoopExit
  \/ SaveQueue
  \/ Exit
  \/ Crash
  \/ Restart

Next ==
  \/ \E d \in Doc : Replicate(d)
  \/ Listener
  \/ LoopStep
  \/ Lifecycle

Spec == Init /\ [][Next]_vars

(***************************************************************************)
(* The prune loop is a goroutine with a ticker and nothing blocks it; a    *)
(* purge that is tried again and again succeeds at last, in each           *)
(* collection.  Nothing is assumed of peers, of Close or of crashes.       *)
(***************************************************************************)
Fairness ==
  /\ WF_vars(LoopStep)
  /\ \A c \in Collection : SF_vars(PurgeCollection(c))

FairSpec == Spec /\ Fairness

-----------------------------------------------------------------------------
(* Properties.                                                             *)

\* The prune loop's local state agrees with its program counter and with the phase.
LoopConsistent ==
  /\ phase \in {"down", "booting"} => entries = <<>>
  /\ phase \in {"down", "booting", "saved"} => pc = "off"
  /\ pc # "purging" => pending = NoPending
  /\ pc # "measured" => excess = 0
  /\ pc = "measured" => excess > 0 /\ excess + MaxDocs <= Len(entries)
  /\ \A c \in Collection : pending[c] # <<>> => c \in Range(todo)

\* RestoreDocID "requires extractUUID to have been called at least once": whoever holds
\* entries, in memory or in the file, also has the prefix to restore them with.
PrefixKnown ==
  /\ entries # <<>> \/ pending # NoPending => docIDPrefix
  /\ file.entries # <<>> => file.prefix

\* Only documents that an event announced are queued, being purged or saved.
OnlyAnnounced == DocsIn(entries) \cup PendingDocs \cup FileDocs \subseteq pushed

\* Once the queue is saved the file has what the queue has, but for named losses.
SavedOrLost == phase = "saved" => DocsIn(entries) \subseteq FileDocs \cup lost

\* Where a live host, or the next process, will find a document to prune it.
Remembered ==
  IF phase \in {"down", "booting"} THEN FileDocs ELSE DocsIn(entries) \cup PendingDocs

(***************************************************************************)
(* "A collection whose purge fails is re-queued rather than dropped, so    *)
(* its docs are retried on the next cycle instead of leaking from the      *)
(* store" (purgeFromDrainResult), and Stop saves the queue for the next    *)
(* start: a tracked document in the store that did not come with a         *)
(* snapshot is queued, being purged, announced on the bus, or in the queue *)
(* file of a process that is down, unless one of the named losses          *)
(* happened: an event nobody listened to, of a collection the listener     *)
(* does not know, or that came before the queue was attached or after it   *)
(* was saved, a crash, or an unreadable or unwritable file.                *)
(***************************************************************************)
NoLeak ==
  \A d \in store : Tracked(d) => d \in Imported \cup lost \cup BusDocs \cup Remembered

(***************************************************************************)
(* The cached block count equals the number of block entries, through      *)
(* pushes between drains, failed purges, Save and LoadFromFile.            *)
(***************************************************************************)
BlockCountExact ==
  /\ blockCount = BlocksIn(entries)
  /\ file.blockCount = BlocksIn(file.entries)

(***************************************************************************)
(* Requeue: "they are the oldest entries, so they go back to the front".   *)
(* An entry that has never been drained has only older entries and entries *)
(* drained before ahead of it, and nothing being purged is newer than it.  *)
(***************************************************************************)
OldestFirst ==
  /\ \A i, j \in DOMAIN entries :
        i < j /\ entries[i].at > entries[j].at => entries[j].at \in drained
  /\ \A i, j \in DOMAIN entries :
        i < j /\ entries[j].at \in drained => entries[i].at \in drained
  /\ \A c \in Collection : \A k \in DOMAIN pending[c] : \A j \in DOMAIN entries :
        entries[j].at < pending[c][k].at => entries[j].at \in drained

(***************************************************************************)
(* "Do NOT fall back to filter-based pruning [...] Only prune what the     *)
(* queue tracks" (runEventQueuePrune): a document imported with a snapshot *)
(* is never deleted as long as no event for it reached the queue, however  *)
(* often the host restarts and however underfilled its queue is then.  The *)
(* comments on Pruner and on filterBasedPrune say that an underfilled      *)
(* queue falls back to pruning by block range; the code does not.          *)
(***************************************************************************)
SnapshotKept == Imported \ pushed \subseteq store

(***************************************************************************)
(* A drain never takes the queue below the configured number of documents, *)
(* although its size was computed in an earlier locked section.            *)
(***************************************************************************)
RetentionFloor ==
  [][phase' # "down" /\ Len(entries') < Len(entries) => Len(entries') >= MaxDocs]_vars

\* The inductive invariant behind NoLeak and SnapshotKept.
IInv ==
  /\ TypeOK
  /\ LoopConsistent
  /\ PrefixKnown
  /\ OnlyAnnounced
  /\ SavedOrLost
  /\ NoLeak
  /\ SnapshotKept

(***************************************************************************)
(* A queue over its limit is brought back to the limit and the excess is   *)
(* purged, failed purges included, as long as the host stays up.           *)
(***************************************************************************)
ExcessPurged ==
  (phase = "up" /\ Len(entries) > MaxDocs)
    ~> (phase # "up" \/ (pc = "idle" /\ Len(entries) <= MaxDocs))
=============================================================================
