# A TLA+ model of the Shinzo host client

The host client embeds a DefraDB node, replicates blocks, transactions, logs and
block signatures from indexers, seeds itself from their snapshots, attests blocks
with valid signatures, prunes what it no longer keeps, hosts views that
ShinzoHub announces, and serves GraphQL behind a billing gate.  This directory
models the parts of it in which order, failure or concurrency matters,
model-checks them on small instances with TLC and proves the main safety
properties for every instance with TLAPS.

Paths below are relative to the repository (`pkg/...` is `src/pkg/...` in
`PROJECT.json`, whose `map` ties every definition to the lines it models).

## 1. Inventory

| Component | State | Operations | Hard behaviour | What makes it correct | Module |
|---|---|---|---|---|---|
| Event queue and pruner (`pkg/pruner`) | queue of document IDs, block count, ID prefix, queue file; prune loop; without a queue, the block range it read | `Push`, `DrainDocs`, `Requeue`, `Save`, `LoadFromFile`; `Start`, `Stop`, the loop; `startupCleanup`, `filterBasedPrune` | pushes between `Len` and `DrainDocs` and between purges; purges that fail half way; crash, stale file; a range that is stale when it is purged | nothing tracked leaks, snapshots are not pruned, the queue never falls below its limit, the excess goes; the newest blocks stay | `EventQueue`, `Pruner`; `Store` |
| Event bus listener and workers (`pkg/host/attestationHandler.go`) | bounded queue of block signatures, workers | `startEventBusListener`, `enqueueDoc`, `docWorker`, retries | queue full while workers take; the same signature relayed by several peers; verifier set late | oldest dropped first, workers come back | `Attestation` (and `Pruner` for the push) |
| Attestation records (`pkg/attestation`) | documents in DefraDB, signature cache | `PostAttestationRecord`, `PostAttestationRecordsBatch`, lookup, merge, verification; cache `Add` | lookup and save in different transactions, conflicts, failed queries | sources merged, votes counted, roots kept apart, saved CIDs kept | `Attestation`, `Pipeline` |
| Epoch clock and balance authorizer (`pkg/acp/epoch.go`, `balance.go`) | epoch and its age, singleflight, cache of funded payers per epoch | `Epoch`, `refresh`, `Authorize` | shared refreshes, failing hub reads, writes after the epoch moved on | no stale balance served, funded payers not denied, everyone answered | `Authorization` |
| Billing gate and service records (`pkg/acp/middleware.go`) | active views, record tokens, wait group | `handleGraphQL`, `submitRecord`, `Drain` | tokens exhausted, views registered during a lookup, shutdown with requests in flight | one record per billed response, active views billed, orderly shutdown | `Gate` |
| View manager (`pkg/view/viewManager.go`, `view.go`) | active views, metrics | `RegisterView`, `LoadAndRegisterViews` | a registration of many steps, each of which may fail; views of one name | see `Hub` and `Gate` | `Views`, `Gate` |
| View registry and WASM cache (`pkg/view/wasmRegistry.go`) | `views.json`, WASM files | save, load, post, download | the file is read, truncated and written in place; crashes in between | no saved view forgotten, an entry can be registered again | `Views`, `Hub` |
| Hub events (`pkg/shinzohub`) | websocket, channel of events | list, dial and subscribe, event loop, hydrate with retries, handler | events before the subscription is complete, while the socket is down, into a full channel, at `Close` | every announcement accounted for, `Close` ends the goroutines | `Hub` |
| Snapshot bootstrap (`pkg/host/snapshot_bootstrap.go`, `pkg/snapshot`) | raw keys, indexes, attestations | list, choose, verify, import, attest, rebuild | a failure or crash at any step; peers replicate meanwhile | only verified data, attestations for whole imports, a clean start seeds everything | `Bootstrap` |
| P2P network handler (`pkg/defradb/network_handler.go`) | peers and their states, context, goroutines | `StartNetwork`, `StopNetwork`, `AddPeer`, `RemovePeer`, loop, listener, attempts | the lock is released while dialing; stop races attempts | no peer stranded or dialed twice, stop returns, peers come back | `Network` |
| Host start-up and `Close` (`pkg/host/host.go`, `cmd/main.go`) | phases | start-up order, `Close` | events before the queue is attached, queries before views | see the modules that depend on it | `Pruner`, `Gate`, `Bootstrap`, `Hub` |
| Replication filter (`pkg/host/replication_filter.go`) | configuration | a decision per document | modes, cascades, ranges and their defaults | the decisions agree with each other | `ReplicationFilter`, `Store` |
| Observed attesters (`pkg/host/observedAttesters.go`) | last-seen times | `Observe`, `Snapshot` | single locked sections, ageing by wall clock | - | not modelled |
| Processing pipeline (`pkg/host/processingPipeline.go`) | job queue, batches, attestation goroutines | `Start`, `Stop`, batch writers, `processAttestationAsync` | flushes and goroutines while it is stopped; conflicts and retries | it is two work pools; nothing outside tests sends to it in this version | `Pipeline`, `WorkPool` |
| DefraDB embedding, configuration, logging, health server, playground, GraphQL rewriting | - | - | plumbing, text and HTTP pages | - | not modelled |

How they interact: DefraDB publishes an update event for every replicated
document; the listener pushes the document on the pruner's queue and hands block
signatures to the workers.  The gate asks the view manager which collections are
views and the authorizer whether a payer may query.  `Host.Close` stops the
pruner, then the GraphQL server, then drains the records.  The bootstrap runs
inside start-up, after the node (and with it its network) is up and before the
views and the peers of the configuration.  Views come from the hub's listing and
from `views.json` at start-up and from hub events afterwards; every registration
is saved to the file.  What peers offer passes the replication filter before it
reaches DefraDB.

`PROJECT.json` lists the hazards, each at its line, with the properties that
would catch it going wrong.

## 2. Modules

Each component module declares its parameters as CONSTANTS with named
assumptions, has one action per operation (split where the code releases a lock
or calls out), and ends with its properties.  `MC*.tla` and `MC*.cfg` give TLC a
small instance.  `*Proofs.tla` extends a component with its theorems.
Definitions marked *Variant* are plausible mistakes; each one, put in place of
the definition that follows it, makes TLC find one of the properties violated.

**EventQueue** - `entries`, `blockCount`, `docIDPrefix`, `file`.  Operators for
`Push`, `DrainDocs` (clamp, group by collection in any map order), `Requeue` at
the front, `Save` (an empty queue removes the file), `LoadFromFile`.  A queued
entry is a document and its arrival number; its compressed ID is restored with
the prefix, which a fresh process does not have.

**Pruner** - the host around the queue.  `Replicate` commits a document and
publishes the event; `HandleUpdate` is the listener, which tracks documents of the
collections it knows only (`KnownCollection`); `Measure`, `Drain`,
`PurgeCollection`/`PurgeFails`/`SkipCollection`, `FinishCycle` are the cycle of
`runEventQueuePrune` and `purgeFromDrainResult`, with the listener free to push
in between; `StartPruner`, `Attach`, `BeginClose`, `SaveQueue`, `Gone`, `Exit`,
`Crash`, `Restart` are the life of the process.  The history variable `lost`
names the losses the code accepts: an event nobody listened to, one before the
queue was attached or after it was saved, a crash, an unreadable or unwritable
file.

**Attestation** - the listener's `hand`, the bounded `docQueue`, workers with
their jobs, the records in DefraDB and the signature cache.  A document is its
fields; a merkle root stands for the set of CIDs it was computed from and a
signature value for the key and the root it was made with, so that
`VerifyBlockSignature` and `CIDListMismatch` are the code's checks.  `Lookup` and
`Save` are separate transactions; `LookupBlind` is a failed query, whose errors
the code does not look at; `Conflict` retries from the lookup on.  `raced`
collects the block/root pairs saved from a stale lookup.  Block numbers are
integers, as in the document: `Evict` has the code's sentinel -1, by which a full
cache that holds a negative block evicts nothing, or, when block -1 is the only one,
nothing or any other block, depending on the map order.

**Pipeline** - batch writers (`Receive`, `FlushTimer`, `WriterExit`, all through
`Flush`), the goroutine of each flushed batch (`Acquire`, `Post`, `Save`,
`Conflict`, `BackoffEnds`, `PostFails`) and the caller of `Stop` (`Cancel`,
`CloseQueue`, `WritersGone`, `Return`).  **WorkPool** is the abstract
specification: what is added is finished once and counted once, given up only
while closing, never after the pool reported itself closed (`Safe`), and an open
pool catches up (`Spec` adds this).  `TwoPools` instantiates it twice, for the jobs
up to the flush and for the documents after it.

**Views** - one registration as a sequence of steps of a goroutine: `Post` and
`Posted` truncate and fill the WASM file, `Check` holds the lock from the look at
`activeViews` on, `Configure` covers the lens and the view in DefraDB with the
corrections of the query, `Insert` publishes it, and `Load`, `Truncate`, `Saved`
are `SaveViewToRegistry`.  A view's query is the set of its flaws, its lens path
one of five kinds.  `Listings` gives the one increasing listing of a finite set of
numbers, as a set with one element; `Deduplicate` (and `DecodeLCDViews` in Hub)
build their sequences from it, so that provers as well as TLC can work with them.

**Hub** - extends Views with where views come from: `FetchPage` and `LoadLocal`,
`EnsureWASM`, the registration loop of start-up; `Dial`, `Ask`, `Reply` for
`dialAndSubscribe`, which takes any message for the answer it waits for; `Read`,
`Hydrate`, `Send` for the event loop; `ReadFails` and `Redial` for a broken
socket, `ReadAgain` for one that timed out; `Take` for the handler; `Close` and
`Exit`.  `Ask` sends a query and `HubAnswers` is the hub's answer to it, which may
never come: `owed` counts the queries without one, and `Waiting` says that the loop
is in the read that waits for it.  `lost` are the views this process was never told
of, `dropped` those
whose bundle could not be had, `refused` those it could not register.

**ReplicationFilter** - `AllowReplication` and its helpers as operators.  **Store**
applies them to what peers offer, while the range-based pruner (`CleanLow`,
`CleanHigh`, `Tick`, `Low`, `PruneDependents`, `PruneBlocks`) works on the same
documents; a query and the purge of what it found are one step, since nobody but
the pruner removes documents.  The names of Store's specification
(`StoreInit`, `StoreNext`, `StoreSpec`) differ from Pruner's, because one module
proves theorems about both.

**Authorization** - the hub (`height`, `balance`; settlement at the first block
of an epoch), the clock (`epoch`, `fresh`, the singleflight call) and the cache.
A request goes through `Ask`, `Join`, `ReadHeight`, `CommitEpoch` or
`RefreshFails`, `CheckCache`, `ReadBalance`, `WriteBack`, `Respond`, each an
atomic section of the code.

**Gate** - views in the store (which outlives the process) and in the manager's
table (which does not), handlers, record tokens, `Close`.  `Lock`/`Register` hold
the manager's lock from the duplicate check to the table; a `Lookup` waits for it.
The history variable `had` holds the views DefraDB had when a request arrived;
`ServeNothing` covers the responses that leave no record, those of a host without an
accounting service included.

**Bootstrap** - `store` and `indexed` are different, because raw imports write no
index entries.  Every call of a start may fail (a bounded number of times) and
the host may crash at any point.  A rebuild goes collection by collection and may
fail after some of them (`RebuildFails`).  `OrderByIndex` says whether DefraDB answers the
two range queries from the index or by a scan.

**Network** - one action per section under `peersMu`.  A dialing goroutine works
on the `PeerState` it found; `own` says whether that still is the peer in the
map.  Attempts that wait for the lock are interchangeable, hence a count.  The
state `Reconnecting` is overwritten before the lock is released, so no one sees
it and the model has none.  The subscription to the no-peers events may fail and its
channel may close (`ListenerClosed`): the network then runs without a listener.

## 3. Runs

| Run | Checks | Shows |
|---|---|---|
| `pruner` | `NoLeak` `OldestFirst` `SnapshotKept` `RetentionFloor` `ExcessPurged` | queue, loop, failing purges, `Close`, two restarts |
| `attestation` | `MergedUnlessRaced` `VotesExact` `RecordsTrace` `OldestDropped` `CacheNewest` `WorkersReturn` | records that were not saved from a stale lookup are complete; workers come back |
| `attestation_merge` (violation) | `SourcesMerged` | two workers that look up before either saves lose an indexer |
| `authorization` | `AllowSound` `DenySound` `ClockMonotone` `Answered` | three requests of one payer across a settlement |
| `gate` | `OneRecordEach` `ActiveViewsGated` `QuietClose` `SubmitReturns` `CloseReturns` | queries, registrations, one token, shutdown, one restart |
| `gate_startup` (violation) | `ViewsBilled` | after a restart, before the views are registered again, a stored view is served unbilled |
| `bootstrap` | `OnlyVerified` `AttestedImported` `CleanSeed` `AllIndexed` `BootEnds` | two starts, two failing calls, crashes, replication |
| `bootstrap_gaps` (violation) | `SkippedPresent` | after an interrupted import and one replicated block the gap in between is taken for present, at every later start |
| `network` | `NoStrandedPeer` `OneDialer` `QuietStop` `StopReturns` `Reconnected` | start, stop, add, remove, loss and return of a peer |
| `hub` | `Accounted` `Recovered` `RegistryKeeps` `EventsHandled` `ShutsDown` | listing, file and events over two starts with crashes and a fault: announcements are accounted for, saved views come back |
| `store` | `NewestKept` `FilterConsistent` `SpanShrinks` | five filter configurations, arrivals between the queries of the range-based pruner |
| `pipeline` | `SavedKept` `TwoPools` | the pipeline implements two work pools, liveness included; saved CIDs are kept |

The three violations are findings: a comment says one thing and the code does
another.  `PROJECT.json` quotes the comment.  Other disagreements, which have no run,
are in section 5.

What some properties excuse: `MergedUnlessRaced` and `SavedKept` leave out pairs saved
from a stale or failed lookup (`SourcesMerged` does not); `Accounted`, `Recovered` and
`EventsHandled` leave out announcements in `lost`; `RegistryKeeps` and `Recovered`
speak of files that parse; `AllIndexed` speaks of starts that imported something;
`CleanSeed` takes a genuine file to hold the range it claims; `CacheNewest` speaks of
blocks that are not negative.  Section 5 says what the code does in those cases.

Bounds, and why they are enough to make the interesting things happen:

- `pruner`: limit 1 with an imported block, a replicated block and a transaction
  gives an excess of two collections, so one purge can fail while the other
  succeeds; a document of a collection the listener does not know; three events
  and two restarts reach a stale file and a fresh prefix.
- `attestation`: two workers, a queue and a cache of one, two attempts, three
  arrivals of seven documents (two agreeing, one of another root, one whose CID
  list does not parse, one whose list does not match its root, one that names
  another signer, one of a negative block) and one fault.
- `authorization`: two blocks to an epoch and two blocks, so one settlement; three
  requests are one leader, one that joins it and one that comes late.
- `gate`: two handlers for one token; a view with and one without an address.
- `bootstrap`: three adjacent good snapshots (the last without block roots), a
  forged one that overlaps two of them, two ranges that meet the snapshots in one
  block, one block that peers replicate.
- `network`: one peer, because peers meet only in the no-peers test, two attempts
  beside the control thread so that the same peer can be dialed twice, two tries.
  The safety properties are proved for any number of peers.
- `hub`: three views, two of one name, one with every query flaw that can be
  mended and an inline lens, one with a lens behind a URL, one that cannot be
  registered; pages of one view, two subscription queries (so that an event can
  fall between them), a channel of one, two fetch attempts, two reads until the
  library panics, two starts and one fault; crashes are not counted as faults.
- `store`: blocks 0 to 4 and limits of two, so that a query is cut short and
  block 0 occurs; three arrivals, one fault, configurations of both modes with and
  without cascade, range, topics and an enabled group.
- `pipeline`: three jobs, two of one document, batches of two, two writers, two
  attempts, one fault, with and without block signatures.

`CHECK_DEADLOCK FALSE` stands where the system really stops: a process that is
closed, bounded arrivals that are used up, a host that is up.

Fairness: goroutines run and tickers fire (weak fairness); a purge tried again and
again succeeds at last; HTTP calls to the hub and calls to DefraDB and to the
accounting service return, with or without error, because the code gives them
timeouts or contexts; Go serves blocked channel senders in order and its `select`
picks among ready cases, so a token or a stop signal that is available again and
again is got (strong fairness). Nothing is assumed of peers, payers, crashes or the
order of messages, nor of a deadline for `Close`: `main` passes it
`context.Background()` and `Shutdown` gets no other. A subscription that a client
keeps open therefore holds `Close`, and `CloseReturns` says that `Close` returns when
no stream lasts for ever.  `Reconnected` assumes that dialing a peer within reach
succeeds and that DefraDB lists its active peers. In `hub` the goroutines run;
nothing is assumed of the hub's answers, of events, breaks, timeouts or the process
staying up. The reads of a subscription's answers have neither deadline nor context,
so a silent hub holds `StartHosting`, or a loop that reconnects, for ever:
`ShutsDown` says that the handler ends in any case, and the loop unless it is left
waiting for the hub. In `pipeline` writers, goroutines and the caller of `Stop` run;
every task ends, so a slot of the semaphore becomes free and weak fairness is enough.

## 4. Proofs

| Theorem | Module | Invariant it rests on |
|---|---|---|
| `TypeCorrect`, `NoLeakCorrect`, `SnapshotKeptCorrect`, `RetentionFloorCorrect`, `BlockCountCorrect`, `OldestFirstCorrect` | `PrunerProofs` (Pruner) | `IInv`, `OrderInv` |
| `StoreTypeCorrect`, `NewestKeptCorrect`, `FilterConsistentCorrect` | `PrunerProofs` (Store) | `StoreTypes`, `TopInv`, `FilterInv` |
| `TypeCorrect`, `OldestDroppedCorrect`, `RecordsTraceCorrect`, `VotesExactCorrect`, `MergedUnlessRacedCorrect`, `CacheNewestCorrect` | `AttestationProofs` | `TypeInv`, `OrderInv`, `TraceInv`, `VotesInv`, `MergeInv`, `CacheInv` |
| `TypeCorrect`, `ClockMonotoneCorrect`, `AllowSoundCorrect`, `DenySoundCorrect` | `AuthorizationProofs` | `IInv`, `SteadyFunded` |
| `TypeCorrect`, `OneRecordCorrect`, `ActiveViewsGatedCorrect`, `QuietCloseCorrect` | `GateProofs` | `GInv`, `KnownPending`, `QuietDrain` |
| `TypeCorrect`, `OnlyVerifiedCorrect`, `AttestedImportedCorrect`, `CleanSeedCorrect`, `AllIndexedCorrect` | `BootstrapProofs` | `SafeInv`, `SeedInv` |
| `TypeCorrect`, `LoopAliveCorrect`, `QuietStopCorrect`, `NoStrandedPeerCorrect`, `OneDialerCorrect` | `NetworkProofs` | `PhaseInv`, `DialInv` |
| `TypeCorrect`, `RegistryKeepsCorrect`, `RecoveredCorrect`, `AccountedCorrect` | `HubProofs` | `Base`, `SaveInv`, `KeptInv`, `AllInv` |
| `TypeCorrect`, `SavedKeptCorrect`, `PoolsRefined` | `PipelineProofs` | `TypeInv`, `PoolInv` |

They hold for every value of the constants that satisfies the ASSUMEs of the
modules (TLC evaluates those too), the bounds included.  Every invariant and every
action property that a passing run checks is proved.

- *Pruner*.  `NoLeak` is not inductive: a drain moves documents to `pending`, and
  only `LoopConsistent` says that what is pending is still to be visited and that
  the drained count cannot exceed the queue; only `PrefixKnown` says that a drained
  ID can be restored, so that the purge hits the document; only `SavedOrLost` says
  what a saved queue's file holds.  `SnapshotKept` follows from `OnlyAnnounced`.
  `OldestFirst` needs the same order of what is pending, of the file, which may be
  older than the queue it is loaded into, and of the events on the bus, which are
  newer than all of them (`OrderInv`).  The proofs rest on lemmas about the queue's
  operators: `DocsIn` and `BlocksIn` of concatenations and cuts, and `GroupFacts`,
  that grouping loses and invents nothing whatever the map order.
- *Store*.  `TopInv`: from the read of the highest block to the end of the prune
  that block is in the store, because the pruner removes none as high and nobody
  else removes any; it is the witness for everything that is purged.  `FilterInv`
  says that what is stored was allowed and what was refused was not; `ModesOppose`
  and `CascadeCovers` are about the filter alone.  The assumptions used are that
  there are finitely many documents and that a configuration has its five fields.
- *Attestation*.  `OrderInv`: hand, queue and what is dropped or taken are in
  arrival order and apart.  `TraceInv` carries "verified and of this block and root"
  through the workers' jobs, lookups and posts into the records; `VotesInv` ties a
  record's votes to the posts it got; `MergeInv` says what a worker between lookup
  and save knows: either its answer is current or the pair will be in `raced`.
  `CacheInv` compares the cache with the blocks seen, eviction by eviction, as long as
  no negative block was seen.
- *Authorization*.  `ClockBehind` keeps the clock and every height in flight behind
  the hub and allows one refresh at a time, which gives `ClockMonotone`;
  `FundedLate` carries "funded in this epoch or later" through the read, the cache
  and the write-back; `SteadyFunded` that a request whose payer stayed funded has
  read no low balance.
- *Gate*.  `OneRecordEach` is what keeps the number of open records from falling
  below zero and is proved together with the types.  `KnownPending` says that a view
  active on arrival is still among the names or already found.  `QuietDrain` says
  that no handler works while records are drained.
- *Bootstrap*.  `Chosen` (signed, verified, one at a time) gives the first two;
  `SeedGoesOn` (a wanted snapshot is to come, at work or imported) and `FreshStart`
  give the other two.  `WantedChosen` compares the overlap test with its meaning.
- *Network*.  `Phases` ties the context to the control thread, so that a network is
  active only with a live context; `LoopAlive` is about the reconnection loop, on which
  `Reconnected` rests, since the listener need not exist; `DialedPeers` says
  that a dialed peer is shown as
  connecting, which is why the state check in `attemptReconnect` excludes a second
  dialer.
- *Hub*.  `SentInv`: no more answers are owed than queries were sent.  `PhaseInv`:
  main registers views only before the handler exists, which is
  why the file has one writer at a time although nothing locks it.  `WorkInv`: how
  far a view is mended at each step of its registration.  With these `ReadInv` says
  that what a save has read holds all that was saved before.  For the other two the
  steps of a running process are shown to be `Onward`: no name that is to be
  registered, at work, active or refused (`Covered`) stops being so, and no view on
  its way disappears unless the host is being closed; `RegisterFacts` gives what one
  step of a registration comes to.  `DeduplicateFacts`, `DecodeFacts` and
  `UpsertFacts` say that no name is lost in the lists.
- *Pipeline*.  `PoolInv`: a job is in the queue, in one batch or in one task
  (`Apart`), batches are assigned once, and `Stop` goes through its phases.  With it
  every step of the pipeline is a step of both pools or leaves them alone
  (`ReceivingStep`, `AttestingStep`), which is `PoolsRefined`.

The strengthenings were checked with TLC on the runs' instances before they were
proved.  `BlockCountExact`, `LoopAlive` and the type invariants are proved and have
no run of their own.

Model-checked only: the liveness properties (`ExcessPurged`, `WorkersReturn`,
`Answered`, `SubmitReturns`, `CloseReturns`, `BootEnds`, `StopReturns`,
`Reconnected`, `EventsHandled`, `ShutsDown`, `SpanShrinks` and the liveness half of
`TwoPools`), because fairness and ENABLED are outside what TLAPS checks here.

## 5. What is left out

- Cryptography, GraphQL parsing, JSON, multiaddresses, metrics, logs: outcomes of
  checks are constants or choices.
- In the pruner: `DrainBlocks`, which nothing calls.  The range-based mode is in
  `Store`; the host always sets an event queue and never enters it.
- In the gate: billed subscriptions are not captured and leave no record; the model
  has them as streams.  The attesters in a record are read when the record is built.
- In the network handler: two threads that start and stop at once.  The host has one;
  with two, both starts would dial every peer, and a start during a stop would run
  on the cancelled context.
- In the hub client: several events in one message, the events of failed and
  timed-out registrations, which are only logged, and the length of backoffs.  In the
  WASM registry: `SyncLensWASM`, `StartupSync`, `CleanupUnused`, which only tests call.
- In the attestation package: the query helpers and `BlockCIDCollector`, which change
  nothing or have no caller.
- `pkg/defradb/defra.go`, the health server, the playground, configuration and
  logging: plumbing of a library, pages, parsing.  Observed attesters: a locked table
  whose content depends on the wall clock only.
- Several lenses of one view are one (their checks and files are alike, and the first
  that fails ends the registration); the lookups of one batch of the pipeline are one
  step (whether an answer is stale is judged per document).
- What a snapshot file holds beyond its header: the importer verifies the roots the
  header names, and the range the file claims is the indexer's word.
- The shipped `main` has no signal handler, so its deferred `Close` does not run; the
  model has both an orderly `Close` and `Exit`/`Crash` without it.

### Observations met while modelling

None of these has a run; a maintainer may want to know them.  First, places where
the repository says something else:

- `pruner.go:16-17` ("With no queue set or an underfilled queue, falls back to
  filter-based pruning by block range") and `pruner.go:304` describe a fallback that
  the code does not have: with an underfilled queue `runEventQueuePrune` returns, and
  `pruner.go:193` says "Do NOT fall back".  `SnapshotKept` checks what the code does;
  a store without replication events keeps more than `max_blocks` blocks for ever.
- `events.go:377` says that `reconnect` blocks "until a new connection is established
  or ctx is cancelled".  `dialAndSubscribe` takes no context and its `ReadMessage`
  (`events.go:155`) has no deadline: a hub that accepts the connection and answers
  nothing holds the loop, also after `Close`, and holds `StartHosting` likewise.
- `events.go:105-106` says that the channel "is only closed when ctx is cancelled".
  After a read timeout the loop reads the same connection again (`events.go:257`); the
  WebSocket library keeps failing such a connection and panics in the end,
  `recoverPanic` ends the loop and the channel is closed, while the host runs on and
  hears of no view any more.  The ping every 15 s makes a silent connection unlikely.
- `config.yaml:52-53` ("Blocks and BlockSignatures always pass through regardless of
  filter settings") and `replication_filter.go:36` say that blocks are never filtered;
  `allowBlock` applies the block range.
- `importer.go:53` leaves the rebuild of the indexes to the caller, "once after all
  snapshots are imported".  After a crash between an import and the rebuild, a next
  start that finds its snapshots within the range it has (where DefraDB answers the
  range queries by a scan, `OrderByIndex = FALSE`) imports nothing, returns
  (`snapshot_bootstrap.go:27`) and rebuilds nothing: those blocks stay without index
  entries.  `AllIndexed` says that a start which does import something mends it.
- `EpochClock` can read the height twice within an interval: a caller that saw the
  epoch expired enters `group.Do` after another refresh (`epoch.go:64`), while its
  comment says "at most once per interval".  The second read does no harm.

And behaviour without such words:

- A billed subscription that its client keeps open holds `Shutdown`, and with it
  `Close`, for ever: the context of `Close` has no deadline (`cmd/main.go:41`,
  `host.go:724`).
- `views.json` is rewritten in place.  A crash between truncation and write leaves a
  file that every later load and save refuses, so nothing is persisted any more
  until someone removes it.
- The WASM file of an inline lens is written in place as well (`view.go:182`): after a
  crash it may be torn while an entry of `views.json` points to it; it is whole again
  when the view is next listed or announced.
- Views registered while the socket is down, or whose event is read in place of a
  subscription's answer, are known to the host only after its next start.
- `BatchSignature` is among the queue's collections (`event_queue.go:68`) and the
  pruner's (`config.go:32`), but not in the table of collections the listener knows:
  such documents are never tracked.
- A block signature with a negative block number passes the checks of
  `extractBlockSignatureCore`; once it is verified and cached, the cache may grow past
  its size or evict a block other than the lowest (`blockSignatureVerifier.go:54-62`).
- Of two views with one name the first listed wins, even if it cannot be registered.
  A definition that DefraDB already has under that name stays ("already exists" is no
  error), so the active view and the stored definition may differ.
- `updateMetrics` sets `ViewsActive` before the insertion, so the gauge is one behind.
- In the replication filter cascading goes by address, not by the transaction a log
  belongs to.
- The range-based pruner takes block 0 for an empty store and then never prunes.
- `IsDocumentAttestedViaBlock` asks for `block:N`, records are stored as `block:N:root`;
  only tests call it.
- The pipeline counts a batch without any verified version as created attestations.

## 6. Plan

Done: all modules above and the proofs of section 4.  Left:

1. An abstract specification of the event queue (a bag of tracked documents) that
   `Pruner` implements, with the step half of the refinement proved in
   `PrunerProofs`.
2. A composition of `Gate` and `Authorization`, where the decision of a handler is
   the authorizer's.
3. More action properties from the invariants that are proved: what a step of a
   registration may never undo, and that the votes of a record never fall.
