------------------------------ MODULE Pipeline ------------------------------
(***************************************************************************)
(* ProcessingPipeline (pkg/host/processingPipeline.go) and the batch path  *)
(* of pkg/attestation: batch writers take jobs from a bounded queue and    *)
(* flush them when the batch is full, on a timer and on the way out; each  *)
(* flushed batch gets a goroutine that verifies the documents' versions    *)
(* and posts their attestation records, retrying on transaction conflicts. *)
(*                                                                         *)
(* Nothing in the repository but its tests puts jobs on the queue, and     *)
(* Submit stands for that caller.  PostAttestationRecordsBatch looks the   *)
(* records up and saves them in different DefraDB transactions: two steps. *)
(***************************************************************************)
EXTENDS Integers, Sequences, FiniteSets, Functions

CONSTANTS Job,             \* the jobs of one run,
          DocOf,           \* the document each is about and
          DataOf,          \* its "_version" field (<<>> when there is none)
          Writer,          \* batchWriter goroutines
          QueueSize,       \* capacity of jobQueue
          BatchSize,
          MaxConcurrent,   \* capacity of attestationSem
          MaxRetries,
          MaxFaults        \* bound: failing calls of DefraDB

ASSUME PipelineAssumption ==
  /\ IsFiniteSet(Job) /\ DOMAIN DocOf = Job /\ DOMAIN DataOf = Job
  /\ {QueueSize, BatchSize, MaxConcurrent, MaxRetries} \subseteq Nat \ {0}
  /\ MaxFaults \in Nat

VARIABLES
  useBlockSignatures,
  jobQueue,
  batch,       \* of each writer
  wpc,         \* "run" or "gone"
  tasks,       \* processAttestationAsync goroutines, in the order they were started
  cancelled,   \* the pipeline's context is cancelled
  closed,      \* jobQueue is closed
  spc,         \* where the caller of Stop is
  processed,   \* processedCount
  counted,     \* AttestationsCreated and AttestationErrors together
  records,     \* attestation records in DefraDB, by document ID
  faults,
  \* history
  submitted,
  saved,       \* document and CID of every record saved
  raced        \* documents whose records changed, or stayed unseen, between lookup and save

poolVars == <<jobQueue, batch, wpc, processed>>
stopVars == <<cancelled, closed, spc>>
dbVars == <<records, saved, raced>>
vars == <<useBlockSignatures, poolVars, tasks, stopVars, counted, dbVars, faults, submitted>>

Doc == Range(DocOf)
InBatch(w) == Range(batch[w])

-----------------------------------------------------------------------------
(* Verification.                                                           *)

\* ExtractVersionsFromDocument: entries that are no maps are skipped, missing fields empty.
ExtractVersions(data) == {v \in Range(data) : v.isMap}

\* DefraSignatureVerifier.Verify; valid is the answer of DB.VerifySignature.
Verify(v) == v.identity # "" /\ v.cid # "" /\ v.type = "ES256K" /\ v.valid

\* CreateAttestationRecord: the CIDs whose signature verifies, in whatever order the
\* goroutines finish.
VerifiedCIDs(j) == {v.cid : v \in {u \in ExtractVersions(DataOf[j]) : Verify(u)}}

Cid == UNION {VerifiedCIDs(j) : j \in Job}

-----------------------------------------------------------------------------

NoTask == [docs |-> {}, pc |-> "start", attempt |-> 0, got |-> <<>>, found |-> <<>>]

\* NewDocFromMap derives a new record's ID from its content.
NewDocID(d, cids) == <<d, cids>>
RecordsOf(d) == {id \in DOMAIN records : records[id].doc = d}

TypeOK ==
  /\ useBlockSignatures \in BOOLEAN
  /\ jobQueue \in Seq(Job) /\ Len(jobQueue) <= QueueSize
  /\ batch \in [Writer -> Seq(Job)]
  /\ wpc \in [Writer -> {"run", "gone"}]
  /\ \A i \in DOMAIN tasks :
       /\ tasks[i].docs \subseteq Job
       /\ tasks[i].pc \in {"start", "post", "save", "backoff", "gone"}
       /\ tasks[i].attempt \in 0..(MaxRetries - 1)
  /\ cancelled \in BOOLEAN /\ closed \in BOOLEAN
  /\ spc \in {"none", "close", "writers", "tasks", "returned"}
  /\ processed \in Nat /\ counted \in Nat
  /\ \A id \in DOMAIN records : records[id].doc \in Doc /\ records[id].cids \subseteq Cid
  /\ submitted \subseteq Job /\ raced \subseteq Doc /\ saved \subseteq Doc \X Cid

Init ==
  /\ useBlockSignatures \in BOOLEAN
  /\ jobQueue = <<>>
  /\ batch = [w \in Writer |-> <<>>]
  /\ wpc = [w \in Writer |-> "run"]
  /\ tasks = <<>>
  /\ cancelled = FALSE /\ closed = FALSE /\ spc = "none"
  /\ processed = 0 /\ counted = 0 /\ faults = 0
  /\ records = <<>> /\ submitted = {} /\ saved = {} /\ raced = {}

Fault == faults < MaxFaults /\ faults' = faults + 1

\* The caller sends a job; it stops doing so before Stop closes the queue.
Submit(j) ==
  /\ j \notin submitted /\ spc = "none"
  /\ Len(jobQueue) < QueueSize
  /\ jobQueue' = Append(jobQueue, j)
  /\ submitted' = submitted \cup {j}
  /\ UNCHANGED <<useBlockSignatures, batch, wpc, processed, tasks, stopVars, counted, dbVars, faults>>

-----------------------------------------------------------------------------
(* The batch writers.                                                      *)

\* processBatch: count, and unless block signatures are in use start a goroutine on a
\* copy of the batch.
ProcessBatch(jobs) ==
  /\ processed' = processed + Len(jobs)
  /\ tasks' = IF useBlockSignatures \/ jobs = <<>>
                THEN tasks
                ELSE Append(tasks, [NoTask EXCEPT !.docs = Range(jobs)])

\* Variant: the batch is not emptied.
FlushAndKeep(w, jobs) ==
  /\ ProcessBatch(jobs)
  /\ batch' = [batch EXCEPT ![w] = jobs]

\* flushBatch.
Flush(w, jobs) ==
  /\ ProcessBatch(jobs)
  /\ batch' = [batch EXCEPT ![w] = <<>>]

Receive(w) ==
  LET jobs == Append(batch[w], Head(jobQueue)) IN
  /\ wpc[w] = "run" /\ jobQueue # <<>>
  /\ jobQueue' = Tail(jobQueue)
  /\ IF Len(jobs) >= BatchSize
       THEN Flush(w, jobs)
       ELSE batch' = [batch EXCEPT ![w] = jobs] /\ UNCHANGED <<processed, tasks>>
  /\ UNCHANGED <<useBlockSignatures, wpc, stopVars, counted, dbVars, faults, submitted>>

FlushTimer(w) ==
  /\ wpc[w] = "run" /\ batch[w] # <<>>
  /\ Flush(w, batch[w])
  /\ UNCHANGED <<useBlockSignatures, jobQueue, wpc, stopVars, counted, dbVars, faults, submitted>>

\* The queue is closed and empty, or the context is cancelled: select may take either,
\* and with the latter jobs stay in the queue.
WriterExit(w) ==
  /\ wpc[w] = "run"
  /\ cancelled \/ (closed /\ jobQueue = <<>>)
  /\ Flush(w, batch[w])
  /\ wpc' = [wpc EXCEPT ![w] = "gone"]
  /\ UNCHANGED <<useBlockSignatures, jobQueue, stopVars, counted, dbVars, faults, submitted>>

-----------------------------------------------------------------------------
(* processAttestationAsync.                                                *)

taskFrame == <<useBlockSignatures, poolVars, stopVars, submitted>>

Goto(i, where) == tasks' = [tasks EXCEPT ![i].pc = where]

\* The goroutine ends after the loop: its documents are counted, as created or as errors.
Report(i) ==
  /\ counted' = counted + Cardinality(tasks[i].docs)
  /\ tasks' = [tasks EXCEPT ![i] = [NoTask EXCEPT !.pc = "gone"]]

\* An early return counts nothing.
GiveUp(i) ==
  /\ cancelled
  /\ tasks' = [tasks EXCEPT ![i] = [NoTask EXCEPT !.pc = "gone"]]
  /\ counted' = counted

Holding == {i \in DOMAIN tasks : tasks[i].pc \in {"post", "save", "backoff"}}

\* The semaphore, or ctx.Done.
Acquire(i) ==
  /\ tasks[i].pc = "start"
  /\ \/ Cardinality(Holding) < MaxConcurrent /\ Goto(i, "post") /\ counted' = counted
     \/ GiveUp(i)
  /\ UNCHANGED <<taskFrame, dbVars, faults>>

\* lookupExistingAttestation for every document of the batch: the first record of the
\* query, whichever that is, with the CIDs it has; a failed query finds nothing.  The
\* queries of a batch are one step: a save between two of them is one before or after the
\* lookup of each document, and a record is judged stale document by document.
Lookups(D) ==
  {f \in [D -> {<<>>} \cup {<<id, records[id].cids>> : id \in DOMAIN records}] :
     \A d \in D : IF RecordsOf(d) = {} THEN f[d] = <<>>
                                      ELSE f[d] # <<>> => f[d][1] \in RecordsOf(d)}

\* The verified CIDs of each document; a cancelled context fails any verification.
Verifications(J) ==
  IF cancelled
    THEN {got \in [J -> SUBSET Cid] : \A j \in J : got[j] \subseteq VerifiedCIDs(j)}
    ELSE {[j \in J |-> VerifiedCIDs(j)]}

\* HandleDocumentAttestationBatch up to the lookups.  A batch without a verified
\* document is done, and counted as created.
Post(i) ==
  /\ tasks[i].pc = "post"
  /\ \E got \in Verifications(tasks[i].docs) :
       LET J == {j \in tasks[i].docs : got[j] # {}}
           D == {DocOf[j] : j \in J}
       IN  IF J = {}
             THEN Report(i) /\ faults' = faults
             ELSE \E f \in Lookups(D) :
                    /\ IF \A d \in D : f[d] = <<>> => RecordsOf(d) = {}
                         THEN faults' = faults
                         ELSE Fault
                    /\ tasks' = [tasks EXCEPT ![i].pc = "save", ![i].got = Restrict(got, J),
                                              ![i].found = f]
                    /\ counted' = counted
  /\ UNCHANGED <<taskFrame, dbVars>>

\* The record a document of the batch is written to, and what the lookup saw in it.
Target(t, j) ==
  IF t.found[DocOf[j]] = <<>> THEN NewDocID(DocOf[j], t.got[j]) ELSE t.found[DocOf[j]][1]
Seen(t, j) == IF t.found[DocOf[j]] = <<>> THEN {} ELSE t.found[DocOf[j]][2]

\* Variant: the CIDs of the record are replaced.
MergeOverwriting(t, id) == UNION {t.got[j] : j \in {k \in DOMAIN t.got : Target(t, k) = id}}

\* mergeStringListField; jobs of one document in a batch share the record found.
Merge(t, id) ==
  UNION {Seen(t, j) \cup t.got[j] : j \in {k \in DOMAIN t.got : Target(t, k) = id}}

\* Documents whose records are no longer as the lookup saw them.
Stale(t) ==
  {DocOf[j] : j \in {k \in DOMAIN t.got :
     \/ t.found[DocOf[k]] = <<>> /\ RecordsOf(DocOf[k]) # {}
     \/ t.found[DocOf[k]] # <<>> /\ records[Target(t, k)].cids # Seen(t, k)}}

\* SaveManyDocuments commits all records of the batch.
Save(i) ==
  LET t == tasks[i]
      ids == {Target(t, j) : j \in DOMAIN t.got}
  IN
  /\ t.pc = "save"
  /\ records' = [id \in DOMAIN records \cup ids |->
                   IF id \in ids
                     THEN [doc |-> DocOf[CHOOSE j \in DOMAIN t.got : Target(t, j) = id],
                           cids |-> Merge(t, id)]
                     ELSE records[id]]
  /\ saved' = saved \cup UNION {{DocOf[j]} \X t.got[j] : j \in DOMAIN t.got}
  /\ raced' = raced \cup Stale(t)
  /\ Report(i)
  /\ UNCHANGED <<taskFrame, faults>>

\* A transaction conflict: back off and try again unless this was the last attempt or the
\* context is cancelled.
Conflict(i) ==
  /\ tasks[i].pc = "save"
  /\ IF cancelled \/ tasks[i].attempt = MaxRetries - 1
       THEN Report(i)
       ELSE /\ tasks' = [tasks EXCEPT ![i].pc = "backoff", ![i].attempt = @ + 1,
                                      ![i].got = <<>>, ![i].found = <<>>]
            /\ counted' = counted
  /\ UNCHANGED <<taskFrame, dbVars, faults>>

BackoffEnds(i) ==
  /\ tasks[i].pc = "backoff"
  /\ \/ Goto(i, "post") /\ counted' = counted
     \/ GiveUp(i)
  /\ UNCHANGED <<taskFrame, dbVars, faults>>

\* Any other error ends the loop.
PostFails(i) ==
  /\ tasks[i].pc \in {"post", "save"}
  /\ Fault
  /\ Report(i)
  /\ UNCHANGED <<taskFrame, dbVars>>

-----------------------------------------------------------------------------
(* Stop: cancel, close the queue, wait for the writers, then for their      *)
(* goroutines.                                                             *)

stopFrame == <<useBlockSignatures, poolVars, tasks, counted, dbVars, faults, submitted>>

Cancel ==
  /\ spc = "none" /\ spc' = "close"
  /\ cancelled' = TRUE
  /\ UNCHANGED <<stopFrame, closed>>

CloseQueue ==
  /\ spc = "close" /\ spc' = "writers"
  /\ closed' = TRUE
  /\ UNCHANGED <<stopFrame, cancelled>>

WritersGone ==
  /\ spc = "writers" /\ spc' = "tasks"
  /\ \A w \in Writer : wpc[w] = "gone"
  /\ UNCHANGED <<stopFrame, cancelled, closed>>

Return ==
  /\ spc = "tasks" /\ spc' = "returned"
  /\ \A i \in DOMAIN tasks : tasks[i].pc = "gone"
  /\ UNCHANGED <<stopFrame, cancelled, closed>>

-----------------------------------------------------------------------------

WriterStep(w) == Receive(w) \/ FlushTimer(w) \/ WriterExit(w)

TaskStep(i) ==
  /\ i \in DOMAIN tasks
  /\ \/ Acquire(i) \/ Post(i) \/ Save(i) \/ Conflict(i) \/ BackoffEnds(i) \/ PostFails(i)

StopStep == CloseQueue \/ WritersGone \/ Return

Next ==
  \/ \E j \in Job : Submit(j)
  \/ \E w \in Writer : WriterStep(w)
  \/ \E i \in 1..Cardinality(Job) : TaskStep(i)
  \/ Cancel
  \/ StopStep

Spec == Init /\ [][Next]_vars

\* Goroutines run, timers fire, and the caller of Stop goes on.
FairSpec ==
  /\ Spec
  /\ \A w \in Writer : WF_vars(WriterStep(w))
  /\ \A i \in 1..Cardinality(Job) : WF_vars(TaskStep(i))
  /\ WF_vars(StopStep)

-----------------------------------------------------------------------------
(* Properties.                                                             *)

Phase == CASE spc = "none" -> "open" [] spc = "returned" -> "closed" [] OTHER -> "closing"

Receiving == INSTANCE WorkPool WITH
  Item <- Job, waiting <- Range(jobQueue) \cup UNION {InBatch(w) : w \in Writer},
  done <- processed, phase <- Phase

Attesting == INSTANCE WorkPool WITH
  Item <- Job, waiting <- UNION {tasks[i].docs : i \in DOMAIN tasks},
  done <- counted, phase <- Phase

(***************************************************************************)
(* The pipeline is two pools of workers, one behind the other.  The        *)
(* writers count every job once, whether its batch was full, timed out or  *)
(* was flushed on the way out; the goroutines count every document of a    *)
(* batch once and give up only after Stop.  Both get to all their work     *)
(* while the pipeline runs, Stop returns, and when it has nothing moves.   *)
(***************************************************************************)
TwoPools == Receiving!Spec /\ Attesting!Spec

(***************************************************************************)
(* A CID that PostAttestationRecordsBatch saved for a document stays in a  *)
(* record of that document, through merges, retries and batches with       *)
(* several jobs for one document, unless two batches looked the record up  *)
(* before either saved it, or the lookup failed.                           *)
(***************************************************************************)
SavedKept ==
  \A s \in saved :
    s[1] \in raced \/ \E id \in RecordsOf(s[1]) : s[2] \in records[id].cids
=============================================================================
