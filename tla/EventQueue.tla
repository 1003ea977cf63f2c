----------------------------- MODULE EventQueue -----------------------------
(***************************************************************************)
(* The pruner's FIFO queue of document IDs (pkg/pruner/event_queue.go and  *)
(* docid_codec.go): the entries in memory, the cached number of block      *)
(* entries, the document-ID prefix captured once per process, and the file *)
(* the queue is saved to.                                                  *)
(*                                                                         *)
(* Each operator below is what one locked section of the queue does to     *)
(* these four variables; the callers are in module Pruner.  An entry is    *)
(* the packed document ID and its collection; because a document belongs   *)
(* to one collection the collection is ColOf[e.doc].  The field "at" is    *)
(* history only: the arrival number of the event the entry was made from,  *)
(* so that two entries for one document can be told apart.                 *)
(***************************************************************************)
EXTENDS Integers, Sequences, FiniteSets, Functions

CONSTANTS Doc,                   \* documents
          DependentCollections,  \* tracked collections other than blocks, in deletion order
          BlockCollection,       \* the block collection
          ColOf                  \* the collection of each document

VARIABLES entries,      \* q.entries
          blockCount,   \* q.blockCount
          docIDPrefix,  \* has this process captured the document-ID prefix?
          file          \* prune_queue.gob

queueVars == <<entries, blockCount, docIDPrefix, file>>

Collection == Range(DependentCollections) \cup {BlockCollection}

ASSUME ConfigAssumption ==
  /\ DependentCollections \in Seq(Range(DependentCollections))
  /\ BlockCollection \notin Range(DependentCollections)
  /\ \A i, j \in DOMAIN DependentCollections :
        DependentCollections[i] = DependentCollections[j] => i = j
  /\ DOMAIN ColOf = Doc

Entry == [doc : Doc, at : Nat]

IsBlock(e) == ColOf[e.doc] = BlockCollection

BlocksIn(s) == Cardinality({i \in DOMAIN s : IsBlock(s[i])})

\* The documents a sequence of entries tracks.
DocsIn(s) == {s[i].doc : i \in DOMAIN s}

\* The queue file: the gob snapshot. Save never writes one without entries (it removes
\* the file instead), so the empty snapshot stands for "no file".
Snapshot == [entries : Seq(Entry), blockCount : Int, prefix : BOOLEAN]

NoFile == [entries |-> <<>>, blockCount |-> 0, prefix |-> FALSE]

InitQueue ==
  /\ entries = <<>>
  /\ blockCount = 0
  /\ docIDPrefix = FALSE
  /\ file = NoFile

(***************************************************************************)
(* Push: documents of collections the queue does not know are skipped;     *)
(* the first document ID parsed captures the prefix.                       *)
(***************************************************************************)
Push(e) ==
  /\ IF ColOf[e.doc] \in Collection
       THEN /\ entries' = Append(entries, e)
            /\ blockCount' = blockCount + (IF IsBlock(e) THEN 1 ELSE 0)
       ELSE UNCHANGED <<entries, blockCount>>
  /\ docIDPrefix' = TRUE
  /\ file' = file

\* The strictly increasing enumerations of a finite set of positions (there is one).
Enumerations(P) ==
  {f \in [1..Cardinality(P) -> P] :
      \A a, b \in 1..Cardinality(P) : a < b => f[a] < f[b]}

\* The entries of collection c in the drained sequence s, in queue order: the
\* DocIDsByCollection map of a DrainResult.
Group(s, c) ==
  LET P == {i \in DOMAIN s : ColOf[s[i].doc] = c}
      f == CHOOSE f \in Enumerations(P) : TRUE
  IN  [k \in 1..Cardinality(P) |-> s[f[k]]]

\* Variant: one entry too many.
ClampOffByOne(count) == IF count >= Len(entries) THEN Len(entries) ELSE count + 1

\* How many entries DrainDocs(count) takes: count, clamped to what there is.
Clamp(count) == IF count > Len(entries) THEN Len(entries) ELSE count

Front(n) == SubSeq(entries, 1, n)

\* DrainDocs: the first n entries leave the queue and the block count follows.
DrainDocs(n) ==
  /\ entries' = SubSeq(entries, n + 1, Len(entries))
  /\ blockCount' = blockCount - BlocksIn(Front(n))
  /\ UNCHANGED <<docIDPrefix, file>>

\* Variants of Requeue: the documents are dropped; they go to the back.
RequeueDropped(s) ==
  /\ docIDPrefix' = TRUE
  /\ UNCHANGED <<entries, blockCount, file>>

RequeueAtBack(s) ==
  /\ entries' = entries \o s
  /\ blockCount' = blockCount + BlocksIn(s)
  /\ docIDPrefix' = TRUE
  /\ file' = file

\* Requeue: the documents of a failed purge go back to the front.
Requeue(s) ==
  /\ entries' = s \o entries
  /\ blockCount' = blockCount + BlocksIn(s)
  /\ docIDPrefix' = TRUE
  /\ file' = file

\* LoadFromFile, into a new queue: entries, count and prefix come back; the file stays.
LoadFromFile ==
  /\ entries' = file.entries
  /\ blockCount' = file.blockCount
  /\ docIDPrefix' = (docIDPrefix \/ file.prefix)
  /\ file' = file

\* Save: an empty queue removes the file, any other replaces it by rename.
Save ==
  /\ file' = IF entries = <<>>
               THEN NoFile
               ELSE [entries |-> entries, blockCount |-> blockCount, prefix |-> docIDPrefix]
  /\ UNCHANGED <<entries, blockCount, docIDPrefix>>

\* The process ends: what was only in memory is gone.
Forget ==
  /\ entries' = <<>>
  /\ blockCount' = 0
  /\ docIDPrefix' = FALSE
  /\ file' = file
=============================================================================
