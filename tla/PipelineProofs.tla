--------------------------- MODULE PipelineProofs ---------------------------
(***************************************************************************)
(* Theorems about module Pipeline, for every set of jobs and every size of *)
(* its queue, batches and semaphore: its types, what becomes of the saved  *)
(* CIDs, and that it implements the safety part of WorkPool twice, as the  *)
(* pool of the batch writers and as the pool of the attestation tasks.     *)
(***************************************************************************)
EXTENDS Pipeline, TLAPS, SequenceTheorems, FiniteSetTheorems, FunctionTheorems

-----------------------------------------------------------------------------
(* Types.                                                                  *)

TaskPC == {"start", "post", "save", "backoff", "gone"}

\* Document IDs, what a task has verified and what its lookups returned.
ID == Doc \X SUBSET Cid
Answers == {<<>>} \cup (ID \X SUBSET Cid)
Got == UNION {[J -> SUBSET Cid] : J \in SUBSET Job}
Found == UNION {[D -> Answers] : D \in SUBSET Doc}

Task == [docs : SUBSET Job, pc : TaskPC, attempt : 0..(MaxRetries - 1),
         got : Got, found : Found]

Record == [doc : Doc, cids : SUBSET Cid]

\* A task that is about to save has looked up the documents it verified, and what it found
\* are records of theirs.
SaveReady(t) ==
  t.pc = "save" =>
    /\ DOMAIN t.got \subseteq t.docs
    /\ \A j \in DOMAIN t.got :
         /\ DocOf[j] \in DOMAIN t.found
         /\ t.found[DocOf[j]] # <<>> => t.found[DocOf[j]][1][1] = DocOf[j]

\* TypeOK with the shapes it leaves out; a record's ID names its document.
TypeInv ==
  /\ TypeOK
  /\ tasks \in Seq(Task)
  /\ DOMAIN records \subseteq ID
  /\ \A id \in DOMAIN records : records[id] \in Record /\ records[id].doc = id[1]
  /\ \A i \in DOMAIN tasks : SaveReady(tasks[i])

\* The constants, one by one.
LEMMA Sizes ==
  /\ QueueSize \in Nat \ {0} /\ BatchSize \in Nat \ {0}
  /\ MaxConcurrent \in Nat \ {0} /\ MaxRetries \in Nat \ {0} /\ MaxFaults \in Nat
  /\ IsFiniteSet(Job) /\ \A j \in Job : DocOf[j] \in Doc /\ VerifiedCIDs(j) \subseteq Cid
BY PipelineAssumption DEF Doc, Range, Cid

LEMMA EmptyMaps == <<>> \in Got /\ <<>> \in Found
<1>1. <<>> \in [{} -> SUBSET Cid] /\ <<>> \in [{} -> Answers]
  OBVIOUS
<1> QED
  BY <1>1 DEF Got, Found

\* A task that just started, and one that ended.
LEMMA TaskEnds ==
  /\ \A J \in SUBSET Job : [NoTask EXCEPT !.docs = J] \in Task
  /\ [NoTask EXCEPT !.pc = "gone"] \in Task
<1>1. 0 \in 0..(MaxRetries - 1)
  BY Sizes
<1> QED
  BY <1>1, EmptyMaps DEF NoTask, Task, TaskPC

\* A change of one task.
LEMMA TaskSet ==
  ASSUME NEW s \in Seq(Task), NEW i \in DOMAIN s, NEW t \in Task, NEW r,
         r = [s EXCEPT ![i] = t]
  PROVE  /\ r \in Seq(Task) /\ DOMAIN r = DOMAIN s /\ r[i] = t
         /\ \A k \in DOMAIN s : k # i => r[k] = s[k]
<1>1. Len(s) \in Nat /\ DOMAIN s = 1..Len(s) /\ s \in [1..Len(s) -> Task]
  BY LenProperties
<1>2. r \in [1..Len(s) -> Task]
  BY <1>1
<1>3. r \in Seq(Task)
  BY <1>1, <1>2, SeqDef
<1> QED
  BY <1>1, <1>3

-----------------------------------------------------------------------------
(* What a step of a task comes to.                                         *)

\* The task goes on, is counted, or is given up; only a save touches the records.
Outcome(i, t) ==
  /\ tasks' = [tasks EXCEPT ![i] = t]
  /\ UNCHANGED taskFrame
  /\ t \in Task /\ SaveReady(t)
  /\ \/ t.docs = tasks[i].docs /\ counted' = counted
     \/ t.docs = {} /\ counted' = counted + Cardinality(tasks[i].docs)
     \/ cancelled /\ t.docs = {} /\ counted' = counted
  /\ UNCHANGED dbVars \/ Save(i)

LEMMA TaskFacts ==
  ASSUME TypeInv, NEW i, TaskStep(i)
  PROVE  /\ i \in DOMAIN tasks /\ tasks[i] \in Task /\ tasks[i].pc # "gone"
         /\ \E t : Outcome(i, t)
<1> DEFINE u == tasks[i]
           ended == [NoTask EXCEPT !.pc = "gone"]
<1>1. i \in DOMAIN tasks /\ u \in Task /\ tasks \in Seq(Task)
  BY ElementOfSeq, LenProperties DEF TaskStep, TypeInv
<1>2. ended \in Task /\ ended.docs = {} /\ SaveReady(ended)
  BY TaskEnds DEF NoTask, SaveReady
<1>3. tasks \in [DOMAIN tasks -> Task]
  BY <1>1, LenProperties
<1>4. ASSUME GiveUp(i), UNCHANGED taskFrame, UNCHANGED dbVars PROVE \E t : Outcome(i, t)
  <2>1. Outcome(i, ended)
    BY <1>2, <1>4 DEF GiveUp, Outcome
  <2> QED
    BY <2>1
<1>5. ASSUME Report(i), UNCHANGED taskFrame, UNCHANGED dbVars \/ Save(i)
      PROVE  \E t : Outcome(i, t)
  <2>1. Outcome(i, ended)
    BY <1>2, <1>5 DEF Report, Outcome
  <2> QED
    BY <2>1
<1>6. ASSUME NEW where \in TaskPC \ {"save"}, Goto(i, where), counted' = counted,
             UNCHANGED taskFrame, UNCHANGED dbVars
      PROVE  \E t : Outcome(i, t)
  <2> DEFINE t == [u EXCEPT !.pc = where]
  <2>1. t \in Task /\ t.docs = u.docs /\ t.pc = where
    BY <1>1 DEF Task
  <2>2. tasks' = [tasks EXCEPT ![i] = t]
    BY <1>1, <1>3, <1>6 DEF Goto
  <2>3. SaveReady(t)
    BY <2>1 DEF SaveReady
  <2> HIDE DEF t
  <2>4. Outcome(i, t)
    BY <1>6, <2>1, <2>2, <2>3 DEF Outcome
  <2> QED
    BY <2>4
<1> HIDE DEF ended
<1>7. CASE Acquire(i)
  BY <1>1, <1>4, <1>6, <1>7 DEF Acquire, TaskPC
<1>8. CASE BackoffEnds(i)
  BY <1>1, <1>4, <1>6, <1>8 DEF BackoffEnds, TaskPC
<1>9. CASE PostFails(i)
  BY <1>1, <1>5, <1>9 DEF PostFails
<1>10. CASE Save(i)
  BY <1>1, <1>5, <1>10 DEF Save
<1>11. CASE Conflict(i)
  <2>1. CASE Report(i)
    BY <1>1, <1>5, <1>11, <2>1 DEF Conflict
  <2>2. CASE ~(cancelled \/ u.attempt = MaxRetries - 1)
    <3> DEFINE t == [u EXCEPT !.pc = "backoff", !.attempt = @ + 1, !.got = <<>>, !.found = <<>>]
    <3>1. u.attempt + 1 \in 0..(MaxRetries - 1)
      BY <1>1, <2>2, Sizes DEF Task
    <3>2. t \in Task /\ t.docs = u.docs /\ t.pc = "backoff"
      BY <1>1, <3>1, EmptyMaps DEF Task, TaskPC
    <3>3. tasks' = [tasks EXCEPT ![i] = t] /\ counted' = counted
      BY <1>1, <1>3, <1>11, <2>2 DEF Conflict, Task
    <3>4. SaveReady(t)
      BY <3>2 DEF SaveReady
    <3> HIDE DEF t
    <3>5. Outcome(i, t)
      BY <1>11, <3>2, <3>3, <3>4 DEF Outcome, Conflict
    <3> QED
      BY <1>1, <1>11, <3>5 DEF Conflict
  <2> QED
    BY <1>1, <1>11, <2>1, <2>2 DEF Conflict
<1>12. CASE Post(i)
  <2> DEFINE Sees(got) == {j \in u.docs : got[j] # {}}
             About(got) == {DocOf[j] : j \in Sees(got)}
  <2>1. PICK got \in Verifications(u.docs) :
           IF Sees(got) = {}
             THEN Report(i)
             ELSE \E f \in Lookups(About(got)) :
                    /\ tasks' = [tasks EXCEPT ![i].pc = "save", ![i].got = Restrict(got, Sees(got)),
                                              ![i].found = f]
                    /\ counted' = counted
    BY <1>12 DEF Post
  <2>2. UNCHANGED taskFrame /\ UNCHANGED dbVars /\ u.pc = "post"
    BY <1>12 DEF Post
  <2>3. CASE Sees(got) = {}
    BY <1>1, <1>5, <2>1, <2>2, <2>3
  <2>4. CASE Sees(got) # {}
    <3>1. PICK f \in Lookups(About(got)) :
            /\ tasks' = [tasks EXCEPT ![i].pc = "save", ![i].got = Restrict(got, Sees(got)),
                                      ![i].found = f]
            /\ counted' = counted
      BY <2>1, <2>4
    <3> DEFINE J == Sees(got)
               g == Restrict(got, J)
               t == [u EXCEPT !.pc = "save", !.got = g, !.found = f]
    <3>2. got \in [u.docs -> SUBSET Cid] /\ u.docs \subseteq Job
      BY <1>1, Sizes DEF Verifications, Task
    <3>3. J \subseteq u.docs /\ g \in [J -> SUBSET Cid] /\ g \in Got
      <4>1. J \subseteq u.docs /\ J \in SUBSET Job
        BY <3>2
      <4> HIDE DEF J
      <4>2. g \in [J -> SUBSET Cid]
        BY <3>2, <4>1 DEF Restrict
      <4> HIDE DEF g
      <4> QED
        BY <4>1, <4>2 DEF Got
    <3>4. /\ f \in [About(got) -> Answers] /\ About(got) \subseteq Doc
          /\ \A d \in About(got) : f[d] # <<>> => f[d][1][1] = d
      <4>1. /\ f \in [About(got) -> {<<>>} \cup {<<id, records[id].cids>> : id \in DOMAIN records}]
            /\ \A d \in About(got) :
                 f[d] # <<>> => f[d][1] \in {id \in DOMAIN records : records[id].doc = d}
        BY <3>1 DEF Lookups, RecordsOf
      <4>2. \A id \in DOMAIN records : <<id, records[id].cids>> \in Answers /\ records[id].doc = id[1]
        BY DEF TypeInv, Answers, Record
      <4>3. About(got) \subseteq Doc
        BY <3>2, Sizes
      <4>4. <<>> \in Answers
        BY DEF Answers
      <4> HIDE DEF About
      <4> QED
        BY <4>1, <4>2, <4>3, <4>4
    <3>5. f \in Found
      BY <3>4 DEF Found
    <3>6. t \in Task /\ t.docs = u.docs /\ t.pc = "save" /\ t.got = g /\ t.found = f
      BY <1>1, <3>3, <3>5 DEF Task, TaskPC
    <3>7. tasks' = [tasks EXCEPT ![i] = t]
      BY <1>1, <1>3, <3>1 DEF Task
    <3>8. SaveReady(t)
      <4>1. DOMAIN g = J /\ DOMAIN f = About(got) /\ \A j \in J : DocOf[j] \in About(got)
        BY <3>3, <3>4
      <4> HIDE DEF t, g, J, About
      <4> QED
        BY <3>3, <3>4, <3>6, <4>1 DEF SaveReady
    <3> HIDE DEF t
    <3>9. Outcome(i, t)
      BY <2>2, <3>1, <3>6, <3>7, <3>8 DEF Outcome
    <3> QED
      BY <1>1, <2>2, <3>9
  <2> QED
    BY <2>3, <2>4
<1>13. tasks[i].pc # "gone"
  BY DEF TaskStep, Acquire, Post, Save, Conflict, BackoffEnds, PostFails
<1> QED
  BY <1>1, <1>7, <1>8, <1>9, <1>10, <1>11, <1>12, <1>13 DEF TaskStep

\* The documents a save writes to: the record of a job's document, or a new one for it, with
\* all that the jobs that share it contribute.
Wrote(t) ==
  /\ \A j \in DOMAIN t.got :
       /\ j \in Job /\ t.got[j] \subseteq Cid /\ Seen(t, j) \subseteq Cid
       /\ Target(t, j) \in ID /\ Target(t, j)[1] = DocOf[j]
       /\ Target(t, j) \in DOMAIN records'
       /\ records'[Target(t, j)] = [doc |-> DocOf[j], cids |-> Merge(t, Target(t, j))]
       /\ Seen(t, j) \cup t.got[j] \subseteq Merge(t, Target(t, j))
       /\ Merge(t, Target(t, j)) \subseteq Cid
  /\ DOMAIN records' = DOMAIN records \cup {Target(t, j) : j \in DOMAIN t.got}
  /\ \A id \in DOMAIN records :
       id \notin {Target(t, j) : j \in DOMAIN t.got} => records'[id] = records[id]

LEMMA SaveFacts ==
  ASSUME TypeInv, NEW i \in DOMAIN tasks, Save(i)
  PROVE  Wrote(tasks[i])
<1> DEFINE t == tasks[i]
<1> DEFINE ids == {Target(t, j) : j \in DOMAIN t.got}
           owner(id) == CHOOSE j \in DOMAIN t.got : Target(t, j) = id
<1>1. /\ t.pc = "save" /\ t \in Task
      /\ records' = [id \in DOMAIN records \cup ids |->
                       IF id \in ids THEN [doc |-> DocOf[owner(id)], cids |-> Merge(t, id)]
                                     ELSE records[id]]
  BY ElementOfSeq, LenProperties DEF Save, TypeInv
<1>2. ASSUME NEW j \in DOMAIN t.got
      PROVE  /\ j \in Job /\ t.got[j] \subseteq Cid /\ Seen(t, j) \subseteq Cid
             /\ Target(t, j) \in ID /\ Target(t, j)[1] = DocOf[j]
  <2>1. j \in Job /\ t.got[j] \subseteq Cid /\ DocOf[j] \in Doc
    <3>1. DOMAIN t.got \subseteq Job /\ \A k \in DOMAIN t.got : t.got[k] \subseteq Cid
      BY <1>1 DEF Task, Got
    <3> QED
      BY <3>1, Sizes
  <2>2. /\ DocOf[j] \in DOMAIN t.found
        /\ t.found[DocOf[j]] # <<>> => t.found[DocOf[j]][1][1] = DocOf[j]
    BY <1>1 DEF TypeInv, SaveReady
  <2>3. t.found[DocOf[j]] \in Answers
    <3>1. \A d \in DOMAIN t.found : t.found[d] \in Answers
      BY <1>1 DEF Task, Found
    <3> QED
      BY <2>2, <3>1
  <2>4. CASE t.found[DocOf[j]] = <<>>
    BY <2>1, <2>4 DEF Seen, Target, NewDocID, ID
  <2>5. CASE t.found[DocOf[j]] # <<>>
    <3>1. t.found[DocOf[j]] \in ID \X SUBSET Cid
      BY <2>3, <2>5 DEF Answers
    <3> QED
      BY <2>1, <2>2, <2>5, <3>1 DEF Seen, Target
  <2> QED
    BY <2>1, <2>4, <2>5
<1> HIDE DEF owner
<1>3. ASSUME NEW j \in DOMAIN t.got
      PROVE  /\ Target(t, j) \in DOMAIN records'
             /\ records'[Target(t, j)] = [doc |-> DocOf[j], cids |-> Merge(t, Target(t, j))]
  <2>1. Target(t, j) \in ids
    OBVIOUS
  <2>2. owner(Target(t, j)) \in DOMAIN t.got /\ Target(t, owner(Target(t, j))) = Target(t, j)
    BY DEF owner
  <2>3. DocOf[owner(Target(t, j))] = DocOf[j]
    BY <1>2, <2>2
  <2> HIDE DEF ids
  <2> QED
    BY <1>1, <2>1, <2>3
<1>4. ASSUME NEW j \in DOMAIN t.got
      PROVE  /\ Seen(t, j) \cup t.got[j] \subseteq Merge(t, Target(t, j))
             /\ Merge(t, Target(t, j)) \subseteq Cid
  BY <1>2 DEF Merge
<1>5. /\ DOMAIN records' = DOMAIN records \cup ids
      /\ \A id \in DOMAIN records : id \notin ids => records'[id] = records[id]
  BY <1>1
<1> HIDE DEF ids
<1>6. ASSUME NEW j \in DOMAIN t.got
      PROVE  /\ j \in Job /\ t.got[j] \subseteq Cid /\ Seen(t, j) \subseteq Cid
             /\ Target(t, j) \in ID /\ Target(t, j)[1] = DocOf[j]
             /\ Target(t, j) \in DOMAIN records'
             /\ records'[Target(t, j)] = [doc |-> DocOf[j], cids |-> Merge(t, Target(t, j))]
             /\ Seen(t, j) \cup t.got[j] \subseteq Merge(t, Target(t, j))
             /\ Merge(t, Target(t, j)) \subseteq Cid
  BY <1>2, <1>3, <1>4
<1> QED
  BY <1>5, <1>6 DEF ids, Wrote

\* What a step of a writer comes to: a job joins the batch, or a batch is handed over.
Moves(w) ==
  /\ jobQueue # <<>> /\ jobQueue' = Tail(jobQueue)
  /\ batch' = [batch EXCEPT ![w] = Append(batch[w], Head(jobQueue))]
  /\ UNCHANGED <<processed, tasks>>

Hands(w, jobs) ==
  /\ \/ jobs = batch[w] /\ jobQueue' = jobQueue
     \/ jobQueue # <<>> /\ jobs = Append(batch[w], Head(jobQueue)) /\ jobQueue' = Tail(jobQueue)
  /\ Flush(w, jobs)

LEMMA WriterFacts ==
  ASSUME TypeInv, NEW w \in Writer, WriterStep(w)
  PROVE  /\ wpc[w] = "run"
         /\ wpc' = wpc \/ wpc' = [wpc EXCEPT ![w] = "gone"]
         /\ Moves(w) \/ \E jobs \in Seq(Job) : Hands(w, jobs)
         /\ UNCHANGED <<useBlockSignatures, stopVars, counted, dbVars, faults, submitted>>
<1>1. batch[w] \in Seq(Job) /\ jobQueue \in Seq(Job)
  BY DEF TypeInv, TypeOK
<1>2. CASE Receive(w)
  <2> DEFINE jobs == Append(batch[w], Head(jobQueue))
  <2>1. jobQueue # <<>> /\ jobs \in Seq(Job)
    BY <1>1, <1>2, HeadTailProperties, AppendProperties DEF Receive
  <2>2. Hands(w, jobs) \/ Moves(w)
    BY <1>2, <2>1 DEF Receive, Hands, Moves
  <2> HIDE DEF jobs
  <2> QED
    BY <1>2, <2>1, <2>2 DEF Receive
<1>3. CASE FlushTimer(w)
  BY <1>1, <1>3 DEF FlushTimer, Hands
<1>4. CASE WriterExit(w)
  BY <1>1, <1>4 DEF WriterExit, Hands
<1> QED
  BY <1>2, <1>3, <1>4 DEF WriterStep

\* A goroutine for a batch.
LEMMA BatchTask ==
  ASSUME TypeInv, NEW jobs \in Seq(Job), ProcessBatch(jobs)
  PROVE  /\ tasks' \in Seq(Task) /\ processed' \in Nat
         /\ \/ tasks' = tasks
            \/ tasks' = Append(tasks, [NoTask EXCEPT !.docs = Range(jobs)])
         /\ Range(jobs) \in SUBSET Job
<1>1. Range(jobs) \in SUBSET Job
  BY ElementOfSeq, LenProperties DEF Range
<1>2. tasks \in Seq(Task) /\ processed \in Nat /\ Len(jobs) \in Nat
  BY LenProperties DEF TypeInv, TypeOK
<1>3. [NoTask EXCEPT !.docs = Range(jobs)] \in Task
  BY <1>1, TaskEnds
<1>4. Append(tasks, [NoTask EXCEPT !.docs = Range(jobs)]) \in Seq(Task)
  BY <1>2, <1>3, AppendProperties
<1> QED
  BY <1>1, <1>2, <1>4 DEF ProcessBatch

-----------------------------------------------------------------------------
(* The type invariant.                                                     *)

LEMMA TypeInit == Init => TypeInv
<1> SUFFICES ASSUME Init PROVE TypeInv
  OBVIOUS
<1>1. /\ jobQueue = <<>> /\ tasks = <<>> /\ records = <<>>
      /\ \A w \in Writer : <<>> \in Seq(Job)
      /\ batch \in [Writer -> Seq(Job)] /\ wpc \in [Writer -> {"run", "gone"}]
  BY EmptySeq DEF Init
<1>2. Len(jobQueue) = 0 /\ DOMAIN tasks = {} /\ DOMAIN records = {}
  BY <1>1
<1>3. /\ Len(jobQueue) <= QueueSize /\ jobQueue \in Seq(Job) /\ tasks \in Seq(Task)
      /\ DOMAIN records \subseteq ID
  BY <1>1, <1>2, Sizes, EmptySeq
<1>4. /\ processed \in Nat /\ counted \in Nat /\ submitted \subseteq Job /\ raced \subseteq Doc
      /\ saved \subseteq Doc \X Cid
  BY DEF Init
<1>5. TypeOK
  BY <1>1, <1>2, <1>3, <1>4 DEF Init, TypeOK
<1> QED
  BY <1>2, <1>3, <1>5 DEF TypeInv

\* What TypeOK says of the tasks follows from their being tasks.
LEMMA TasksTyped ==
  ASSUME NEW s \in Seq(Task), NEW i \in DOMAIN s
  PROVE  s[i].docs \subseteq Job /\ s[i].pc \in TaskPC /\ s[i].attempt \in 0..(MaxRetries - 1)
<1>1. s[i] \in Task
  BY ElementOfSeq, LenProperties
<1> QED
  BY <1>1 DEF Task

LEMMA TypeStep == TypeInv /\ [Next]_vars => TypeInv'
<1> SUFFICES ASSUME TypeInv, [Next]_vars PROVE TypeInv'
  OBVIOUS
<1> USE DEF poolVars, stopVars, dbVars, taskFrame, stopFrame
<1>1. ASSUME NEW j \in Job, Submit(j) PROVE TypeInv'
  <2>1. /\ jobQueue' \in Seq(Job) /\ Len(jobQueue') = Len(jobQueue) + 1 /\ Len(jobQueue) \in Nat
        /\ Len(jobQueue) < QueueSize /\ submitted' \subseteq Job
    BY <1>1, AppendProperties, LenProperties DEF Submit, TypeInv, TypeOK
  <2>2. Len(jobQueue') <= QueueSize
    BY <2>1, Sizes
  <2>3. UNCHANGED <<useBlockSignatures, batch, wpc, processed, tasks, stopVars, counted, dbVars>>
    BY <1>1 DEF Submit
  <2> QED
    BY <2>1, <2>2, <2>3 DEF TypeInv, TypeOK, SaveReady
<1>2. ASSUME NEW w \in Writer, WriterStep(w) PROVE TypeInv'
  <2>1. /\ wpc' = wpc \/ wpc' = [wpc EXCEPT ![w] = "gone"]
        /\ UNCHANGED <<useBlockSignatures, stopVars, counted, dbVars, faults, submitted>>
    BY <1>2, WriterFacts
  <2>2. wpc' \in [Writer -> {"run", "gone"}]
    BY <2>1 DEF TypeInv, TypeOK
  <2>3. ASSUME jobQueue # <<>>
        PROVE  /\ Head(jobQueue) \in Job /\ Tail(jobQueue) \in Seq(Job)
               /\ Len(Tail(jobQueue)) <= QueueSize
    <3>1. /\ Head(jobQueue) \in Job /\ Tail(jobQueue) \in Seq(Job)
          /\ Len(Tail(jobQueue)) = Len(jobQueue) - 1 /\ Len(jobQueue) \in Nat
      BY <2>3, HeadTailProperties, LenProperties DEF TypeInv, TypeOK
    <3> QED
      BY <3>1, Sizes DEF TypeInv, TypeOK
  <2>4. jobQueue' \in Seq(Job) /\ Len(jobQueue') <= QueueSize
    <3>1. jobQueue' = jobQueue \/ (jobQueue # <<>> /\ jobQueue' = Tail(jobQueue))
      BY <1>2, WriterFacts DEF Moves, Hands
    <3> QED
      BY <2>3, <3>1 DEF TypeInv, TypeOK
  <2>5. /\ batch' \in [Writer -> Seq(Job)] /\ processed' \in Nat
        /\ tasks' \in Seq(Task)
        /\ \A i \in DOMAIN tasks' : SaveReady(tasks'[i])
    <3>1. CASE Moves(w)
      <4>1. Append(batch[w], Head(jobQueue)) \in Seq(Job)
        BY <2>3, <3>1, AppendProperties DEF Moves, TypeInv, TypeOK
      <4> QED
        BY <3>1, <4>1 DEF Moves, TypeInv, TypeOK
    <3>2. ASSUME NEW jobs \in Seq(Job), Hands(w, jobs)
          PROVE  /\ batch' \in [Writer -> Seq(Job)] /\ processed' \in Nat
                 /\ tasks' \in Seq(Task)
                 /\ \A i \in DOMAIN tasks' : SaveReady(tasks'[i])
      <4>1. ProcessBatch(jobs) /\ batch' = [batch EXCEPT ![w] = <<>>] /\ <<>> \in Seq(Job)
        BY <3>2, EmptySeq DEF Hands, Flush
      <4>2. batch' \in [Writer -> Seq(Job)]
        BY <4>1 DEF TypeInv, TypeOK
      <4> DEFINE t == [NoTask EXCEPT !.docs = Range(jobs)]
      <4>3. t \in Task /\ SaveReady(t)
        BY <4>1, BatchTask, TaskEnds DEF SaveReady, NoTask
      <4> HIDE DEF t
      <4>4. CASE tasks' = tasks
        BY <4>1, <4>2, <4>4, BatchTask DEF TypeInv
      <4>5. CASE tasks' = Append(tasks, t)
        <5>1. /\ DOMAIN tasks = 1..Len(tasks) /\ Len(tasks) \in Nat
              /\ DOMAIN tasks' = 1..Len(tasks) + 1
              /\ \A i \in 1..Len(tasks) : tasks'[i] = tasks[i]
              /\ tasks'[Len(tasks) + 1] = t
          BY <4>3, <4>5, AppendProperties, LenProperties DEF TypeInv
        <5>2. ASSUME NEW i \in DOMAIN tasks' PROVE SaveReady(tasks'[i])
          <6>1. CASE i = Len(tasks) + 1
            BY <4>3, <5>1, <6>1
          <6>2. CASE i # Len(tasks) + 1
            <7>1. i \in DOMAIN tasks /\ tasks'[i] = tasks[i]
              BY <5>1, <6>2
            <7> QED
              BY <7>1 DEF TypeInv
          <6> QED
            BY <6>1, <6>2
        <5> QED
          BY <4>1, <4>2, <5>2, BatchTask
      <4> QED
        BY <4>1, <4>2, <4>4, <4>5, BatchTask DEF t
    <3> QED
      BY <1>2, <3>1, <3>2, WriterFacts
  <2>6. \A i \in DOMAIN tasks' : /\ tasks'[i].docs \subseteq Job
                                /\ tasks'[i].pc \in {"start", "post", "save", "backoff", "gone"}
                                /\ tasks'[i].attempt \in 0..(MaxRetries - 1)
    BY <2>5, TasksTyped DEF TaskPC
  <2> QED
    BY <2>1, <2>2, <2>4, <2>5, <2>6 DEF TypeInv, TypeOK
<1>3. ASSUME NEW i \in 1..Cardinality(Job), TaskStep(i) PROVE TypeInv'
  <2>1. PICK t : Outcome(i, t)
    BY <1>3, TaskFacts
  <2>2. /\ i \in DOMAIN tasks /\ tasks[i] \in Task /\ tasks \in Seq(Task)
        /\ t \in Task /\ SaveReady(t) /\ UNCHANGED taskFrame
    BY <1>3, <2>1, TaskFacts DEF Outcome, TypeInv
  <2>3. /\ tasks' \in Seq(Task) /\ DOMAIN tasks' = DOMAIN tasks /\ tasks'[i] = t
        /\ \A k \in DOMAIN tasks : k # i => tasks'[k] = tasks[k]
    BY <2>1, <2>2, TaskSet DEF Outcome
  <2>4. \A k \in DOMAIN tasks' : SaveReady(tasks'[k])
    BY <2>2, <2>3 DEF TypeInv
  <2>5. \A k \in DOMAIN tasks' : /\ tasks'[k].docs \subseteq Job
                                /\ tasks'[k].pc \in {"start", "post", "save", "backoff", "gone"}
                                /\ tasks'[k].attempt \in 0..(MaxRetries - 1)
    BY <2>3, TasksTyped DEF TaskPC
  <2>6. counted' \in Nat
    <3>1. tasks[i].docs \in SUBSET Job
      BY <2>2 DEF Task
    <3>2. IsFiniteSet(tasks[i].docs)
      BY <3>1, Sizes, FS_Subset
    <3>3. Cardinality(tasks[i].docs) \in Nat /\ counted \in Nat
      BY <3>2, FS_CardinalityType DEF TypeInv, TypeOK
    <3> QED
      BY <2>1, <3>3 DEF Outcome
  <2>7. /\ DOMAIN records' \subseteq ID
        /\ \A id \in DOMAIN records' : records'[id] \in Record /\ records'[id].doc = id[1]
        /\ raced' \subseteq Doc /\ saved' \subseteq Doc \X Cid
    <3>1. CASE UNCHANGED dbVars
      BY <3>1 DEF TypeInv, TypeOK
    <3>2. CASE Save(i)
      <4> DEFINE u == tasks[i]
                 ids == {Target(u, j) : j \in DOMAIN u.got}
      <4>0. Wrote(u)
        BY <2>2, <3>2, SaveFacts
      <4> HIDE DEF u
      <4>1. /\ \A j \in DOMAIN u.got :
                 /\ j \in Job /\ u.got[j] \subseteq Cid
                 /\ Target(u, j) \in ID /\ Target(u, j)[1] = DocOf[j]
                 /\ records'[Target(u, j)] = [doc |-> DocOf[j], cids |-> Merge(u, Target(u, j))]
                 /\ Merge(u, Target(u, j)) \subseteq Cid
            /\ DOMAIN records' = DOMAIN records \cup ids
            /\ \A id \in DOMAIN records : id \notin ids => records'[id] = records[id]
        BY <4>0 DEF Wrote
      <4>2. DOMAIN records' \subseteq ID
        BY <4>1 DEF TypeInv
      <4>3. ASSUME NEW id \in DOMAIN records'
            PROVE  records'[id] \in Record /\ records'[id].doc = id[1]
        <5>1. CASE id \in ids
          <6>1. PICK j \in DOMAIN u.got : id = Target(u, j)
            BY <5>1
          <6> QED
            <7>1. /\ records'[id] = [doc |-> DocOf[j], cids |-> Merge(u, id)]
                  /\ DocOf[j] \in Doc /\ Merge(u, id) \subseteq Cid /\ id[1] = DocOf[j]
              BY <4>1, <6>1, Sizes
            <7> QED
              BY <7>1 DEF Record
        <5>2. CASE id \notin ids
          BY <4>1, <5>2 DEF TypeInv
        <5> QED
          BY <5>1, <5>2
      <4>4. raced' \subseteq Doc
        <5>1. \A j \in DOMAIN u.got : DocOf[j] \in Doc
          BY <4>1, Sizes
        <5>2. Stale(u) \subseteq Doc
          BY <5>1 DEF Stale
        <5> QED
          BY <3>2, <5>2 DEF Save, TypeInv, TypeOK, u
      <4>5. saved' \subseteq Doc \X Cid
        <5>1. \A j \in DOMAIN u.got : {DocOf[j]} \X u.got[j] \subseteq Doc \X Cid
          BY <4>1, Sizes
        <5> QED
          BY <3>2, <5>1 DEF Save, TypeInv, TypeOK, u
      <4> QED
        BY <4>2, <4>3, <4>4, <4>5
    <3> QED
      BY <2>1, <3>1, <3>2 DEF Outcome
  <2>8. \A id \in DOMAIN records' : records'[id].doc \in Doc /\ records'[id].cids \subseteq Cid
    BY <2>7 DEF Record
  <2> QED
    BY <2>2, <2>3, <2>4, <2>5, <2>6, <2>7, <2>8 DEF TypeInv, TypeOK
<1>4. CASE Cancel \/ StopStep
  <2>1. /\ UNCHANGED <<useBlockSignatures, jobQueue, batch, wpc, processed, tasks, counted,
                       dbVars, faults, submitted>>
        /\ cancelled' \in BOOLEAN /\ closed' \in BOOLEAN
        /\ spc' \in {"none", "close", "writers", "tasks", "returned"}
    BY <1>4 DEF Cancel, StopStep, CloseQueue, WritersGone, Return, TypeInv, TypeOK
  <2> QED
    BY <2>1 DEF TypeInv, TypeOK, SaveReady
<1>5. CASE UNCHANGED vars
  BY <1>5 DEF vars, TypeInv, TypeOK, SaveReady
<1> QED
  BY <1>1, <1>2, <1>3, <1>4, <1>5 DEF Next

\* The type invariant holds for any jobs, sizes and number of writers.
THEOREM TypeCorrect == Spec => []TypeOK
<1>1. TypeInv => TypeOK
  BY DEF TypeInv
<1> QED
  BY <1>1, TypeInit, TypeStep, PTL DEF Spec

-----------------------------------------------------------------------------
(* What was saved stays.                                                   *)

LEMMA KeptStep == TypeInv /\ SavedKept /\ [Next]_vars => SavedKept'
<1> SUFFICES ASSUME TypeInv, SavedKept, [Next]_vars PROVE SavedKept'
  OBVIOUS
<1> USE DEF poolVars, stopVars, dbVars, taskFrame, stopFrame
<1>u. ASSUME UNCHANGED dbVars PROVE SavedKept'
  BY <1>u DEF SavedKept, RecordsOf
<1>1. ASSUME NEW i \in 1..Cardinality(Job), TaskStep(i), Save(i) PROVE SavedKept'
  <2> DEFINE t == tasks[i]
             ids == {Target(t, j) : j \in DOMAIN t.got}
  <2>0. i \in DOMAIN tasks /\ Wrote(t)
    BY <1>1, SaveFacts DEF TaskStep
  <2>1. /\ \A j \in DOMAIN t.got :
             /\ Target(t, j)[1] = DocOf[j] /\ Target(t, j) \in DOMAIN records'
             /\ records'[Target(t, j)] = [doc |-> DocOf[j], cids |-> Merge(t, Target(t, j))]
             /\ Seen(t, j) \cup t.got[j] \subseteq Merge(t, Target(t, j))
        /\ DOMAIN records' = DOMAIN records \cup ids
        /\ \A id \in DOMAIN records : id \notin ids => records'[id] = records[id]
    BY <2>0 DEF Wrote
  <2>2. /\ saved' = saved \cup UNION {{DocOf[j]} \X t.got[j] : j \in DOMAIN t.got}
        /\ raced' = raced \cup Stale(t)
    BY <1>1 DEF Save
  <2> SUFFICES ASSUME NEW s \in saved', s[1] \notin raced'
               PROVE  \E id \in DOMAIN records' : records'[id].doc = s[1] /\ s[2] \in records'[id].cids
    BY DEF SavedKept, RecordsOf
  <2>3. CASE s \in saved
    <3>1. s[1] \notin raced /\ s[1] \notin Stale(t)
      BY <2>2
    <3>2. PICK id \in DOMAIN records : records[id].doc = s[1] /\ s[2] \in records[id].cids
      BY <2>3, <3>1 DEF SavedKept, RecordsOf
    <3>3. CASE id \notin ids
      BY <2>1, <3>2, <3>3
    <3>4. CASE id \in ids
      <4>1. PICK j \in DOMAIN t.got : id = Target(t, j)
        BY <3>4
      <4>2. DocOf[j] = s[1]
        BY <2>1, <3>2, <4>1 DEF TypeInv
      <4>3. id \in RecordsOf(DocOf[j])
        BY <3>2, <4>2 DEF RecordsOf
      <4>4. ~ \/ t.found[DocOf[j]] = <<>> /\ RecordsOf(DocOf[j]) # {}
              \/ t.found[DocOf[j]] # <<>> /\ records[Target(t, j)].cids # Seen(t, j)
        BY <3>1, <4>2 DEF Stale
      <4>5. records[id].cids = Seen(t, j)
        BY <4>1, <4>3, <4>4
      <4>6. s[2] \in Merge(t, Target(t, j))
        BY <2>1, <3>2, <4>5
      <4>7. Target(t, j) \in DOMAIN records' /\ records'[Target(t, j)].doc = s[1]
            /\ s[2] \in records'[Target(t, j)].cids
        <5>1. /\ Target(t, j) \in DOMAIN records'
              /\ records'[Target(t, j)] = [doc |-> DocOf[j], cids |-> Merge(t, Target(t, j))]
          BY <2>1
        <5> HIDE DEF t
        <5> QED
          BY <4>2, <4>6, <5>1
      <4> QED
        BY <4>7
    <3> QED
      BY <3>3, <3>4
  <2>4. CASE s \notin saved
    <3>1. PICK j \in DOMAIN t.got : s \in {DocOf[j]} \X t.got[j]
      BY <2>2, <2>4
    <3>2. s[1] = DocOf[j] /\ s[2] \in t.got[j]
      BY <3>1
    <3>3. Target(t, j) \in DOMAIN records' /\ records'[Target(t, j)].doc = s[1]
          /\ s[2] \in records'[Target(t, j)].cids
      <4>1. /\ Target(t, j) \in DOMAIN records' /\ t.got[j] \subseteq Merge(t, Target(t, j))
            /\ records'[Target(t, j)] = [doc |-> DocOf[j], cids |-> Merge(t, Target(t, j))]
        BY <2>1
      <4> HIDE DEF t
      <4> QED
        BY <3>2, <4>1
    <3> QED
      BY <3>3
  <2> QED
    BY <2>3, <2>4
<1>2. ASSUME NEW i \in 1..Cardinality(Job), TaskStep(i) PROVE SavedKept'
  BY <1>1, <1>2, <1>u, TaskFacts DEF Outcome
<1>3. ASSUME NEW w \in Writer, WriterStep(w) PROVE SavedKept'
  BY <1>3, <1>u, WriterFacts
<1>4. ASSUME NEW j \in Job, Submit(j) PROVE SavedKept'
  BY <1>4, <1>u DEF Submit
<1>5. CASE Cancel \/ StopStep \/ UNCHANGED vars
  BY <1>5, <1>u DEF Cancel, StopStep, CloseQueue, WritersGone, Return, vars
<1> QED
  BY <1>2, <1>3, <1>4, <1>5 DEF Next

\* A CID that a batch saved for a document stays in a record of the document unless two
\* batches raced for it, for any number of jobs of one document in any batches.
THEOREM SavedKeptCorrect == Spec => []SavedKept
<1>1. Init => SavedKept
  BY DEF Init, SavedKept
<1>2. TypeInv /\ SavedKept /\ [Next]_vars => (TypeInv /\ SavedKept)'
  BY TypeStep, KeptStep
<1> QED
  BY <1>1, <1>2, TypeInit, PTL DEF Spec

-----------------------------------------------------------------------------
(* The two pools.                                                          *)

\* No job twice.
Once(s) == \A a, b \in DOMAIN s : s[a] = s[b] => a = b

LEMMA RangeEmpty == Range(<<>>) = {} /\ Once(<<>>)
BY DEF Range, Once

LEMMA RangeAppend ==
  ASSUME NEW s \in Seq(Job), NEW e \in Job
  PROVE  /\ Range(Append(s, e)) = Range(s) \cup {e}
         /\ Once(s) /\ e \notin Range(s) => Once(Append(s, e))
<1> DEFINE r == Append(s, e)
           n == Len(s)
<1>1. /\ n \in Nat /\ DOMAIN s = 1..n /\ DOMAIN r = 1..n + 1
      /\ \A k \in 1..n : r[k] = s[k]
      /\ r[n + 1] = e
  BY AppendProperties, LenProperties
<1> HIDE DEF r, n
<1>2. \A k \in DOMAIN r : k = n + 1 \/ (k \in DOMAIN s /\ r[k] = s[k])
  BY <1>1
<1>3. n + 1 \in DOMAIN r /\ \A k \in DOMAIN s : k \in DOMAIN r /\ r[k] = s[k]
  BY <1>1
<1>4. Range(r) = Range(s) \cup {e}
  <2>1. ASSUME NEW k \in DOMAIN r PROVE r[k] \in Range(s) \cup {e}
    BY <1>1, <1>2 DEF Range
  <2>2. Range(s) \cup {e} \subseteq Range(r)
    BY <1>1, <1>3 DEF Range
  <2> QED
    BY <2>1, <2>2 DEF Range
<1>5. ASSUME Once(s), e \notin Range(s), NEW a \in DOMAIN r, NEW b \in DOMAIN r, r[a] = r[b]
      PROVE  a = b
  <2>1. \A k \in DOMAIN s : s[k] # e
    BY <1>5 DEF Range
  <2> QED
    BY <1>1, <1>2, <1>5, <2>1 DEF Once
<1> QED
  BY <1>4, <1>5 DEF Once, r

LEMMA RangeTail ==
  ASSUME NEW s \in Seq(Job), s # <<>>
  PROVE  /\ Head(s) \in Job /\ Tail(s) \in Seq(Job)
         /\ Range(s) = {Head(s)} \cup Range(Tail(s))
         /\ Once(s) => Once(Tail(s)) /\ Head(s) \notin Range(Tail(s))
<1> DEFINE r == Tail(s)
<1>1. /\ Head(s) \in Job /\ r \in Seq(Job) /\ Head(s) = s[1]
      /\ Len(r) = Len(s) - 1
      /\ \A k \in 1..Len(r) : r[k] = s[k + 1]
  BY HeadTailProperties
<1>2. Len(s) \in Nat /\ Len(s) # 0 /\ DOMAIN s = 1..Len(s) /\ DOMAIN r = 1..(Len(s) - 1)
  BY <1>1, LenProperties, EmptySeq
<1>3. \A k \in DOMAIN r : k + 1 \in DOMAIN s /\ 1 # k + 1 /\ r[k] = s[k + 1] /\ k \in Nat
  BY <1>1, <1>2
<1>4. \A k \in DOMAIN s : k = 1 \/ (k - 1 \in DOMAIN r /\ r[k - 1] = s[k])
  BY <1>1, <1>2
<1>5. 1 \in DOMAIN s
  BY <1>2
<1> HIDE DEF r
<1>6. Range(s) = {Head(s)} \cup Range(r)
  <2>1. {Head(s)} \cup Range(r) \subseteq Range(s)
    BY <1>1, <1>3, <1>5 DEF Range
  <2>2. ASSUME NEW k \in DOMAIN s PROVE s[k] \in {Head(s)} \cup Range(r)
    BY <1>1, <1>4 DEF Range
  <2> QED
    BY <2>1, <2>2 DEF Range
<1>7. ASSUME Once(s) PROVE Once(r) /\ Head(s) \notin Range(r)
  <2>1. ASSUME NEW a \in DOMAIN r, NEW b \in DOMAIN r, r[a] = r[b] PROVE a = b
    <3>1. a + 1 = b + 1
      BY <1>3, <1>7, <2>1 DEF Once
    <3> QED
      BY <1>3, <3>1
  <2>2. ASSUME NEW a \in DOMAIN r, r[a] = Head(s) PROVE FALSE
    BY <1>1, <1>3, <1>5, <1>7, <2>2 DEF Once
  <2> QED
    BY <2>1, <2>2 DEF Once, Range
<1> QED
  BY <1>1, <1>6, <1>7 DEF r

LEMMA RangeSize ==
  ASSUME NEW s \in Seq(Job), Once(s)
  PROVE  Cardinality(Range(s)) = Len(s)
<1>1. Len(s) \in Nat /\ DOMAIN s = 1..Len(s) /\ s \in [1..Len(s) -> Job]
  BY LenProperties
<1>2. s \in Bijection(1..Len(s), Range(s))
  <2>1. s \in [1..Len(s) -> Range(s)]
    BY <1>1 DEF Range
  <2>2. \A a, b \in 1..Len(s) : s[a] = s[b] => a = b
    BY <1>1 DEF Once
  <2>3. \A x \in Range(s) : \E a \in 1..Len(s) : s[a] = x
    BY <1>1 DEF Range
  <2> QED
    BY <2>1, <2>2, <2>3 DEF Bijection, Injection, IsInjective, Surjection
<1>3. ExistsBijection(1..Len(s), Range(s))
  BY <1>2 DEF ExistsBijection
<1>4. IsFiniteSet(1..Len(s)) /\ Cardinality(1..Len(s)) = Len(s)
  BY <1>1, FS_Interval
<1> QED
  BY <1>3, <1>4, FS_Bijection

\* The items of the two pools.
Waiting == Range(jobQueue) \cup UNION {InBatch(w) : w \in Writer}
Started == UNION {tasks[i].docs : i \in DOMAIN tasks}

\* A job waits in one place only,
Apart ==
  /\ Once(jobQueue)
  /\ \A w \in Writer : Once(batch[w]) /\ Range(jobQueue) \cap InBatch(w) = {}
  /\ \A w, v \in Writer : w # v => InBatch(w) \cap InBatch(v) = {}

\* belongs to one task only, and does not wait again once it has one;
Assigned ==
  /\ \A i, k \in DOMAIN tasks : i # k => tasks[i].docs \cap tasks[k].docs = {}
  /\ Waiting \cap Started = {}
  /\ Waiting \cup Started \subseteq submitted

\* and Stop is past the writers and the tasks only when they are gone.
Stopping ==
  /\ cancelled => spc # "none"
  /\ spc \in {"tasks", "returned"} => \A w \in Writer : wpc[w] = "gone"
  /\ spc = "returned" => \A i \in DOMAIN tasks : tasks[i].pc = "gone"

PoolInv == Apart /\ Assigned /\ Stopping

LEMMA PoolInit == Init => PoolInv
<1> SUFFICES ASSUME Init PROVE PoolInv
  OBVIOUS
<1>1. Range(jobQueue) = {} /\ Once(jobQueue) /\ \A w \in Writer : InBatch(w) = {} /\ Once(batch[w])
  BY RangeEmpty DEF Init, InBatch
<1>2. DOMAIN tasks = {} /\ cancelled = FALSE /\ spc = "none"
  BY DEF Init
<1>3. Waiting = {} /\ Started = {}
  BY <1>1, <1>2 DEF Waiting, Started
<1> QED
  BY <1>1, <1>2, <1>3 DEF PoolInv, Apart, Assigned, Stopping

\* A job that moves into a batch still waits.
LEMMA MovesKeep ==
  ASSUME TypeInv, Apart, NEW w \in Writer, Moves(w)
  PROVE  Apart' /\ Waiting' = Waiting
<1> DEFINE h == Head(jobQueue)
           Q == Range(jobQueue)
           R == Range(Tail(jobQueue))
<1>1. /\ jobQueue \in Seq(Job) /\ jobQueue # <<>> /\ batch \in [Writer -> Seq(Job)]
      /\ jobQueue' = Tail(jobQueue)
      /\ batch' = [batch EXCEPT ![w] = Append(batch[w], h)]
  BY DEF TypeInv, TypeOK, Moves
<1>2. h \in Job /\ Q = {h} \cup R /\ Once(jobQueue') /\ h \notin R
  BY <1>1, RangeTail DEF Apart
<1>3. h \notin InBatch(w) /\ batch[w] \in Seq(Job) /\ Once(batch[w])
  BY <1>1, <1>2 DEF Apart
<1>4. InBatch(w)' = InBatch(w) \cup {h} /\ Once(batch'[w])
  BY <1>1, <1>2, <1>3, RangeAppend DEF InBatch
<1>5. \A v \in Writer : v # w => batch'[v] = batch[v] /\ InBatch(v)' = InBatch(v)
  BY <1>1 DEF InBatch
<1>6. Range(jobQueue') = R
  BY <1>1
<1> HIDE DEF h, Q, R
<1>7. \A v \in Writer : Q \cap InBatch(v) = {} /\ Once(batch[v])
  BY DEF Apart, Q
<1>8. \A v \in Writer : Once(batch'[v]) /\ R \cap InBatch(v)' = {}
  BY <1>2, <1>4, <1>5, <1>7
<1>9. \A v, u \in Writer : v # u => InBatch(v) \cap InBatch(u) = {}
  BY DEF Apart
<1>10. \A v, u \in Writer : v # u => InBatch(v)' \cap InBatch(u)' = {}
  BY <1>2, <1>4, <1>5, <1>7, <1>9
<1>11. UNION {InBatch(v)' : v \in Writer} = {h} \cup UNION {InBatch(v) : v \in Writer}
  <2>1. \A v \in Writer : InBatch(v)' \subseteq {h} \cup InBatch(v) /\ InBatch(v) \subseteq InBatch(v)'
    BY <1>4, <1>5
  <2>2. h \in InBatch(w)'
    BY <1>4
  <2> QED
    BY <2>1, <2>2
<1>12. Waiting' = Waiting
  BY <1>2, <1>6, <1>11 DEF Waiting, Q
<1> QED
  BY <1>2, <1>6, <1>8, <1>10, <1>12 DEF Apart

\* A batch that is handed over holds jobs that waited, each once, and they wait no more.
LEMMA HandsOver ==
  ASSUME TypeInv, Apart, NEW w \in Writer, NEW jobs \in Seq(Job), Hands(w, jobs)
  PROVE  /\ Apart' /\ Once(jobs)
         /\ Range(jobs) \subseteq Waiting /\ Waiting' = Waiting \ Range(jobs)
<1> DEFINE Q == Range(jobQueue)
           R == Range(jobQueue')
           J == Range(jobs)
<1>1. /\ jobQueue \in Seq(Job) /\ batch \in [Writer -> Seq(Job)]
      /\ batch' = [batch EXCEPT ![w] = <<>>]
  BY DEF TypeInv, TypeOK, Hands, Flush
<1>2. \A v \in Writer : Q \cap InBatch(v) = {} /\ Once(batch[v])
  BY DEF Apart
<1>3. \A v, u \in Writer : v # u => InBatch(v) \cap InBatch(u) = {}
  BY DEF Apart
<1>4. InBatch(w)' = {} /\ Once(batch'[w])
  BY <1>1, RangeEmpty DEF InBatch
<1>5. \A v \in Writer : v # w => batch'[v] = batch[v] /\ InBatch(v)' = InBatch(v)
  BY <1>1 DEF InBatch
<1>6. /\ Once(jobs) /\ Once(jobQueue') /\ R \subseteq Q /\ J \cap R = {}
      /\ InBatch(w) \subseteq J /\ Q \subseteq R \cup J /\ J \subseteq Q \cup InBatch(w)
  <2>1. CASE jobs = batch[w] /\ jobQueue' = jobQueue
    BY <1>2, <2>1 DEF Apart, InBatch
  <2>2. CASE /\ jobQueue # <<>> /\ jobs = Append(batch[w], Head(jobQueue))
             /\ jobQueue' = Tail(jobQueue)
    <3>1. /\ Head(jobQueue) \in Job /\ Q = {Head(jobQueue)} \cup R
          /\ Once(jobQueue') /\ Head(jobQueue) \notin R
      BY <1>1, <2>2, RangeTail DEF Apart
    <3>2. Head(jobQueue) \notin InBatch(w) /\ batch[w] \in Seq(Job)
      BY <1>1, <1>2, <3>1
    <3>3. J = InBatch(w) \cup {Head(jobQueue)} /\ Once(jobs)
      BY <1>2, <2>2, <3>1, <3>2, RangeAppend DEF InBatch
    <3> HIDE DEF Q, R, J
    <3> QED
      BY <1>2, <3>1, <3>3
  <2> QED
    BY <2>1, <2>2 DEF Hands
<1> HIDE DEF Q, R, J
<1>7. \A v \in Writer : Once(batch'[v]) /\ R \cap InBatch(v)' = {}
  BY <1>2, <1>4, <1>5, <1>6
<1>8. \A v, u \in Writer : v # u => InBatch(v)' \cap InBatch(u)' = {}
  BY <1>3, <1>4, <1>5
<1>9. UNION {InBatch(v)' : v \in Writer} = (UNION {InBatch(v) : v \in Writer}) \ InBatch(w)
  BY <1>3, <1>4, <1>5
<1>10. J \cap UNION {InBatch(v) : v \in Writer} = InBatch(w)
  <2>1. \A v \in Writer : v # w => J \cap InBatch(v) = {}
    BY <1>2, <1>3, <1>6
  <2> QED
    BY <1>6, <2>1
<1>11. J \subseteq Waiting /\ Waiting' = Waiting \ J
  <2> DEFINE B == UNION {InBatch(v) : v \in Writer}
  <2>1. Waiting = Q \cup B /\ Waiting' = R \cup (B \ InBatch(w)) /\ J \cap B = InBatch(w)
    BY <1>9, <1>10 DEF Waiting, Q, R
  <2>2. InBatch(w) \subseteq B
    OBVIOUS
  <2> HIDE DEF B
  <2> QED
    BY <1>6, <2>1, <2>2
<1> QED
  BY <1>6, <1>7, <1>8, <1>11 DEF Apart, R, J

\* A step of one task leaves the documents of the others alone.
LEMMA TaskPool ==
  ASSUME TypeInv, Assigned, NEW i \in DOMAIN tasks, NEW t \in Task,
         tasks' = [tasks EXCEPT ![i] = t], t.docs = tasks[i].docs \/ t.docs = {}
  PROVE  /\ \A k, l \in DOMAIN tasks' : k # l => tasks'[k].docs \cap tasks'[l].docs = {}
         /\ t.docs = tasks[i].docs => Started' = Started
         /\ t.docs = {} => Started' = Started \ tasks[i].docs
         /\ tasks[i].docs \subseteq Started
<1>1. /\ DOMAIN tasks' = DOMAIN tasks /\ tasks'[i] = t
      /\ \A k \in DOMAIN tasks : k # i => tasks'[k] = tasks[k]
  BY TaskSet DEF TypeInv
<1> DEFINE D(k) == tasks[k].docs
           E(k) == tasks'[k].docs
<1>2. \A k, l \in DOMAIN tasks : k # l => D(k) \cap D(l) = {}
  BY DEF Assigned
<1>3. (\A k \in DOMAIN tasks : k # i => E(k) = D(k)) /\ E(i) = t.docs
  BY <1>1
<1>4. E(i) = D(i) \/ E(i) = {}
  BY <1>3
<1>5. /\ Started = UNION {D(k) : k \in DOMAIN tasks}
      /\ Started' = UNION {E(k) : k \in DOMAIN tasks}
  BY <1>1 DEF Started
<1> HIDE DEF D, E
<1>6. \A k, l \in DOMAIN tasks : k # l => E(k) \cap E(l) = {}
  BY <1>2, <1>3, <1>4
<1>7. E(i) = D(i) => Started' = Started
  BY <1>3, <1>5
<1>8. E(i) = {} => Started' = Started \ D(i)
  BY <1>2, <1>3, <1>5
<1>9. D(i) \subseteq Started
  BY <1>5
<1> QED
  BY <1>1, <1>3, <1>6, <1>7, <1>8, <1>9 DEF D, E

\* A new task takes over the jobs of its batch.
LEMMA BatchPool ==
  ASSUME TypeInv, Assigned, NEW jobs \in Seq(Job), ProcessBatch(jobs),
         Range(jobs) \subseteq Waiting
  PROVE  /\ \A k, l \in DOMAIN tasks' : k # l => tasks'[k].docs \cap tasks'[l].docs = {}
         /\ Started' = Started \/ Started' = Started \cup Range(jobs)
         /\ tasks' = tasks \/ Started' = Started \cup Range(jobs)
<1>1. CASE tasks' = tasks
  BY <1>1 DEF Assigned, Started
<1>2. CASE tasks' = Append(tasks, [NoTask EXCEPT !.docs = Range(jobs)])
  <2> DEFINE t == [NoTask EXCEPT !.docs = Range(jobs)]
             n == Len(tasks)
             D(k) == tasks'[k].docs
  <2>1. t \in Task /\ t.docs = Range(jobs)
    BY BatchTask, TaskEnds DEF NoTask
  <2> HIDE DEF t
  <2>2. /\ n \in Nat /\ DOMAIN tasks = 1..n /\ DOMAIN tasks' = 1..n + 1
        /\ \A k \in 1..n : tasks'[k] = tasks[k]
        /\ tasks'[n + 1] = t
    BY <1>2, <2>1, AppendProperties, LenProperties DEF TypeInv, t
  <2> HIDE DEF n
  <2>3. \A k \in DOMAIN tasks' : k = n + 1 \/ k \in DOMAIN tasks
    BY <2>2
  <2>4. /\ n + 1 \in DOMAIN tasks' /\ n + 1 \notin DOMAIN tasks
        /\ \A k \in DOMAIN tasks : k \in DOMAIN tasks'
    BY <2>2
  <2>5. D(n + 1) = Range(jobs) /\ \A k \in DOMAIN tasks : D(k) = tasks[k].docs
    BY <2>1, <2>2
  <2>6. Started' = UNION {D(k) : k \in DOMAIN tasks'} /\ Started = UNION {D(k) : k \in DOMAIN tasks}
    BY <2>5 DEF Started
  <2>7. \A k, l \in DOMAIN tasks : k # l => D(k) \cap D(l) = {}
    BY <2>5 DEF Assigned
  <2>8. Range(jobs) \cap Started = {}
    BY DEF Assigned
  <2> HIDE DEF D
  <2>9. Started' = Started \cup Range(jobs)
    BY <2>3, <2>4, <2>5, <2>6
  <2>10. \A k \in DOMAIN tasks : D(k) \cap D(n + 1) = {}
    BY <2>5, <2>6, <2>8
  <2>11. \A k, l \in DOMAIN tasks' : k # l => D(k) \cap D(l) = {}
    BY <2>3, <2>7, <2>10
  <2> QED
    BY <2>9, <2>11 DEF D
<1> QED
  BY <1>1, <1>2, BatchTask

-----------------------------------------------------------------------------
(* The pools stay in order.                                                *)

LEMMA PoolStep == TypeInv /\ PoolInv /\ [Next]_vars => PoolInv'
<1> SUFFICES ASSUME TypeInv, PoolInv, [Next]_vars PROVE PoolInv'
  OBVIOUS
<1> USE DEF poolVars, stopVars, taskFrame, stopFrame
<1>1. ASSUME NEW j \in Job, Submit(j) PROVE PoolInv'
  <2>1. /\ jobQueue' = Append(jobQueue, j) /\ submitted' = submitted \cup {j}
        /\ UNCHANGED <<batch, wpc, tasks, cancelled, spc>>
        /\ j \notin submitted /\ jobQueue \in Seq(Job)
    BY <1>1 DEF Submit, TypeInv, TypeOK
  <2>2. j \notin Waiting /\ j \notin Started
    BY <2>1 DEF PoolInv, Assigned
  <2>3. j \notin Range(jobQueue) /\ \A w \in Writer : j \notin InBatch(w)
    BY <2>2 DEF Waiting
  <2>4. Range(jobQueue)' = Range(jobQueue) \cup {j} /\ Once(jobQueue')
    BY <2>1, <2>3, RangeAppend DEF PoolInv, Apart
  <2>5. (\A w \in Writer : InBatch(w)' = InBatch(w)) /\ Started' = Started
    BY <2>1 DEF InBatch, Started
  <2>6. Waiting' = Waiting \cup {j}
    BY <2>4, <2>5 DEF Waiting
  <2>7. Apart'
    BY <2>1, <2>3, <2>4, <2>5 DEF PoolInv, Apart
  <2>8. Assigned'
    BY <2>1, <2>2, <2>5, <2>6 DEF PoolInv, Assigned
  <2>9. Stopping'
    BY <2>1 DEF PoolInv, Stopping
  <2> QED
    BY <2>7, <2>8, <2>9 DEF PoolInv
<1>2. ASSUME NEW w \in Writer, WriterStep(w) PROVE PoolInv'
  <2>1. /\ wpc[w] = "run" /\ UNCHANGED <<stopVars, submitted>>
        /\ wpc' = wpc \/ wpc' = [wpc EXCEPT ![w] = "gone"]
    BY <1>2, WriterFacts
  <2>2. spc \notin {"tasks", "returned"}
    BY <2>1 DEF PoolInv, Stopping
  <2>3. Stopping'
    BY <2>1, <2>2 DEF PoolInv, Stopping
  <2>4. CASE Moves(w)
    <3>1. Apart' /\ Waiting' = Waiting /\ UNCHANGED tasks
      BY <2>4, MovesKeep DEF PoolInv, Moves
    <3>2. Assigned'
      BY <2>1, <3>1 DEF PoolInv, Assigned, Started
    <3> QED
      BY <2>3, <3>1, <3>2 DEF PoolInv
  <2>5. ASSUME NEW jobs \in Seq(Job), Hands(w, jobs) PROVE PoolInv'
    <3>1. Apart' /\ Range(jobs) \subseteq Waiting /\ Waiting' = Waiting \ Range(jobs)
      BY <2>5, HandsOver DEF PoolInv
    <3>2. /\ \A k, l \in DOMAIN tasks' : k # l => tasks'[k].docs \cap tasks'[l].docs = {}
          /\ Started' = Started \/ Started' = Started \cup Range(jobs)
      BY <2>5, <3>1, BatchPool DEF PoolInv, Hands, Flush
    <3>3. Waiting \cap Started = {} /\ Waiting \cup Started \subseteq submitted
      BY DEF PoolInv, Assigned
    <3>4. Assigned'
      BY <2>1, <3>1, <3>2, <3>3 DEF Assigned
    <3> QED
      BY <2>3, <3>1, <3>4 DEF PoolInv
  <2> QED
    BY <1>2, <2>4, <2>5, WriterFacts
<1>3. ASSUME NEW i \in 1..Cardinality(Job), TaskStep(i) PROVE PoolInv'
  <2>1. PICK t : Outcome(i, t)
    BY <1>3, TaskFacts
  <2>2. i \in DOMAIN tasks /\ tasks[i].pc # "gone" /\ t \in Task /\ UNCHANGED taskFrame
    BY <1>3, <2>1, TaskFacts DEF Outcome
  <2>3. tasks' = [tasks EXCEPT ![i] = t] /\ (t.docs = tasks[i].docs \/ t.docs = {})
    BY <2>1 DEF Outcome
  <2>4. /\ \A k, l \in DOMAIN tasks' : k # l => tasks'[k].docs \cap tasks'[l].docs = {}
        /\ Started' \subseteq Started
    BY <2>2, <2>3, TaskPool DEF PoolInv
  <2>5. Waiting' = Waiting /\ Apart'
    BY <2>2 DEF PoolInv, Apart, Waiting, InBatch
  <2>6. Assigned'
    BY <2>2, <2>4, <2>5 DEF PoolInv, Assigned
  <2>7. spc # "returned"
    BY <2>2 DEF PoolInv, Stopping
  <2>8. Stopping'
    BY <2>2, <2>7 DEF PoolInv, Stopping
  <2> QED
    BY <2>5, <2>6, <2>8 DEF PoolInv
<1>4. CASE Cancel \/ StopStep \/ UNCHANGED vars
  <2>1. UNCHANGED <<jobQueue, batch, wpc, tasks, submitted>>
    BY <1>4 DEF Cancel, StopStep, CloseQueue, WritersGone, Return, vars
  <2>2. Apart' /\ Assigned'
    BY <2>1 DEF PoolInv, Apart, Assigned, Waiting, Started, InBatch
  <2>3. Stopping'
    BY <1>4, <2>1 DEF Cancel, StopStep, CloseQueue, WritersGone, Return, vars, PoolInv, Stopping
  <2> QED
    BY <2>2, <2>3 DEF PoolInv
<1> QED
  BY <1>1, <1>2, <1>3, <1>4 DEF Next

-----------------------------------------------------------------------------
(* Every step of the pipeline is a step of each pool, or none.             *)

LEMMA Phases ==
  ASSUME TypeInv
  PROVE  /\ Phase \in {"open", "closing", "closed"}
         /\ Phase = "open" <=> spc = "none"
         /\ Phase = "closed" <=> spc = "returned"
BY DEF TypeInv, TypeOK, Phase

\* The variables of the pools.
LEMMA PoolVars ==
  /\ Receiving!vars = <<Waiting, processed, Phase>>
  /\ Attesting!vars = <<Started, counted, Phase>>
BY DEF Receiving!vars, Attesting!vars, Waiting, Started

\* The pools count as the pipeline does.
LEMMA PoolCounts ==
  ASSUME NEW S
  PROVE  Receiving!Cardinality(S) = Cardinality(S) /\ Attesting!Cardinality(S) = Cardinality(S)
BY DEF Receiving!Cardinality, Attesting!Cardinality, Cardinality, IsFiniteSet,
       Receiving!IsFiniteSet, Attesting!IsFiniteSet

LEMMA ReceivingStep ==
  TypeInv /\ PoolInv /\ [Next]_vars => [Receiving!Next]_(Receiving!vars)
<1> SUFFICES ASSUME TypeInv, PoolInv, [Next]_vars PROVE [Receiving!Next]_(Receiving!vars)
  OBVIOUS
<1> USE DEF poolVars, stopVars, taskFrame, stopFrame
<1>0. Waiting \subseteq Job
  BY DEF PoolInv, Assigned, TypeInv, TypeOK
<1>1. ASSUME NEW j \in Job, Submit(j) PROVE Receiving!Next
  <2>1. /\ jobQueue' = Append(jobQueue, j) /\ UNCHANGED <<batch, processed, spc>>
        /\ j \notin submitted /\ spc = "none" /\ jobQueue \in Seq(Job)
    BY <1>1 DEF Submit, TypeInv, TypeOK
  <2>2. j \notin Waiting
    BY <2>1 DEF PoolInv, Assigned
  <2>3. Range(jobQueue)' = Range(jobQueue) \cup {j} /\ \A w \in Writer : InBatch(w)' = InBatch(w)
    BY <2>1, RangeAppend DEF InBatch
  <2>4. Waiting' = Waiting \cup {j}
    BY <2>3 DEF Waiting
  <2>5. Phase # "closed" /\ Phase' = Phase
    BY <2>1, Phases DEF Phase
  <2>6. Receiving!Add({j})
    BY <2>1, <2>4, <2>5 DEF Receiving!Add, Waiting
  <2>7. {j} \in SUBSET (Job \ (Range(jobQueue) \cup UNION {InBatch(w) : w \in Writer}))
    BY <2>2 DEF Waiting
  <2> QED
    BY <2>6, <2>7 DEF Receiving!Next
<1>2. ASSUME NEW w \in Writer, WriterStep(w) PROVE [Receiving!Next]_(Receiving!vars)
  <2>1. wpc[w] = "run" /\ spc' = spc
    BY <1>2, WriterFacts
  <2>2. Phase # "closed" /\ Phase' = Phase
    BY <2>1, Phases DEF Phase, PoolInv, Stopping
  <2>3. CASE Moves(w)
    <3>1. Waiting' = Waiting /\ processed' = processed
      BY <2>3, MovesKeep DEF PoolInv, Moves
    <3> QED
      BY <2>2, <3>1, PoolVars DEF Receiving!vars, Waiting
  <2>4. ASSUME NEW jobs \in Seq(Job), Hands(w, jobs) PROVE Receiving!Next
    <3>1. Once(jobs) /\ Range(jobs) \subseteq Waiting /\ Waiting' = Waiting \ Range(jobs)
      BY <2>4, HandsOver DEF PoolInv
    <3>2. processed' = processed + Cardinality(Range(jobs))
      BY <2>4, <3>1, RangeSize DEF Hands, Flush, ProcessBatch
    <3>3. Receiving!Finish(Range(jobs))
      BY <2>2, <3>1, <3>2, PoolCounts DEF Receiving!Finish, Waiting
    <3>4. Range(jobs) \in SUBSET (Range(jobQueue) \cup UNION {InBatch(v) : v \in Writer})
      BY <3>1 DEF Waiting
    <3> QED
      BY <3>3, <3>4 DEF Receiving!Next
  <2> QED
    BY <1>2, <2>3, <2>4, WriterFacts
<1>3. ASSUME UNCHANGED <<jobQueue, batch, processed, spc>> PROVE UNCHANGED Receiving!vars
  BY <1>3 DEF Receiving!vars, InBatch, Phase
<1>4. ASSUME NEW i \in 1..Cardinality(Job), TaskStep(i) PROVE UNCHANGED Receiving!vars
  BY <1>3, <1>4, TaskFacts DEF Outcome
<1>5. CASE Cancel
  <2>1. UNCHANGED <<jobQueue, batch, processed>> /\ Phase = "open" /\ Phase' = "closing"
    BY <1>5 DEF Cancel, Phase
  <2>2. Receiving!Close
    BY <2>1 DEF Receiving!Close, InBatch
  <2> QED
    BY <2>2 DEF Receiving!Next
<1>6. CASE Return
  <2>1. UNCHANGED <<jobQueue, batch, processed>> /\ Phase = "closing" /\ Phase' = "closed"
    BY <1>6 DEF Return, Phase
  <2>2. Receiving!Closed
    BY <2>1 DEF Receiving!Closed, InBatch
  <2> QED
    BY <2>2 DEF Receiving!Next
<1>7. CASE CloseQueue \/ WritersGone
  <2>1. UNCHANGED <<jobQueue, batch, processed>> /\ Phase' = Phase
    BY <1>7 DEF CloseQueue, WritersGone, Phase
  <2> QED
    BY <2>1 DEF Receiving!vars, InBatch
<1>8. CASE UNCHANGED vars
  BY <1>3, <1>8 DEF vars
<1> QED
  BY <1>1, <1>2, <1>4, <1>5, <1>6, <1>7, <1>8 DEF Next, StopStep

LEMMA AttestingStep ==
  TypeInv /\ PoolInv /\ [Next]_vars => [Attesting!Next]_(Attesting!vars)
<1> SUFFICES ASSUME TypeInv, PoolInv, [Next]_vars PROVE [Attesting!Next]_(Attesting!vars)
  OBVIOUS
<1> USE DEF poolVars, stopVars, taskFrame, stopFrame
<1>1. ASSUME UNCHANGED <<tasks, counted, spc>> PROVE UNCHANGED Attesting!vars
  BY <1>1 DEF Attesting!vars, Phase
<1>2. ASSUME NEW w \in Writer, WriterStep(w) PROVE [Attesting!Next]_(Attesting!vars)
  <2>1. wpc[w] = "run" /\ spc' = spc /\ counted' = counted
    BY <1>2, WriterFacts
  <2>2. Phase # "closed" /\ Phase' = Phase
    BY <2>1, Phases DEF Phase, PoolInv, Stopping
  <2>3. CASE Moves(w)
    BY <1>1, <2>1, <2>3 DEF Moves
  <2>4. ASSUME NEW jobs \in Seq(Job), Hands(w, jobs) PROVE [Attesting!Next]_(Attesting!vars)
    <3>1. Range(jobs) \subseteq Waiting
      BY <2>4, HandsOver DEF PoolInv
    <3>2. CASE tasks' = tasks
      BY <1>1, <2>1, <3>2
    <3>3. CASE Started' = Started \cup Range(jobs)
      <4>1. Range(jobs) \in SUBSET (Job \ Started)
        BY <3>1 DEF PoolInv, Assigned, TypeInv, TypeOK
      <4>2. Attesting!Add(Range(jobs))
        BY <2>1, <2>2, <3>3 DEF Attesting!Add, Started
      <4> QED
        BY <4>1, <4>2 DEF Attesting!Next, Started
    <3> QED
      BY <2>4, <3>1, <3>2, <3>3, BatchPool DEF PoolInv, Hands, Flush
  <2> QED
    BY <1>2, <2>3, <2>4, WriterFacts
<1>3. ASSUME NEW i \in 1..Cardinality(Job), TaskStep(i) PROVE [Attesting!Next]_(Attesting!vars)
  <2>1. PICK t : Outcome(i, t)
    BY <1>3, TaskFacts
  <2>2. /\ i \in DOMAIN tasks /\ tasks[i].pc # "gone" /\ t \in Task /\ spc' = spc
        /\ tasks' = [tasks EXCEPT ![i] = t]
    BY <1>3, <2>1, TaskFacts DEF Outcome
  <2>3. Phase # "closed" /\ Phase' = Phase
    BY <2>2, Phases DEF Phase, PoolInv, Stopping
  <2>s. PICK S : S = tasks[i].docs
    OBVIOUS
  <2>4. S \in SUBSET Started
    BY <2>2, <2>s DEF Started
  <2>5. CASE t.docs = S /\ counted' = counted
    <3>1. Started' = Started
      BY <2>2, <2>5, <2>s, TaskPool DEF PoolInv
    <3> QED
      BY <2>3, <2>5, <3>1, PoolVars DEF Attesting!vars, Started
  <2>6. CASE t.docs = {} /\ counted' = counted + Cardinality(S)
    <3>1. Started' = Started \ S
      BY <2>2, <2>6, <2>s, TaskPool DEF PoolInv
    <3>2. Attesting!Finish(S)
      BY <2>3, <2>6, <3>1, PoolCounts DEF Attesting!Finish, Started
    <3> QED
      BY <2>4, <3>2 DEF Attesting!Next, Started
  <2>7. CASE cancelled /\ t.docs = {} /\ counted' = counted
    <3>1. Started' = Started \ S
      BY <2>2, <2>7, <2>s, TaskPool DEF PoolInv
    <3>2. Phase = "closing"
      BY <2>3, <2>7, Phases DEF PoolInv, Stopping
    <3>3. Attesting!Drop(S)
      BY <2>3, <2>7, <3>1, <3>2 DEF Attesting!Drop, Started
    <3> QED
      BY <2>4, <3>3 DEF Attesting!Next, Started
  <2> QED
    BY <2>1, <2>s, <2>5, <2>6, <2>7 DEF Outcome
<1>4. ASSUME NEW j \in Job, Submit(j) PROVE UNCHANGED Attesting!vars
  BY <1>1, <1>4 DEF Submit
<1>5. CASE Cancel
  <2>1. UNCHANGED <<tasks, counted>> /\ Phase = "open" /\ Phase' = "closing"
    BY <1>5 DEF Cancel, Phase
  <2>2. Attesting!Close
    BY <2>1 DEF Attesting!Close
  <2> QED
    BY <2>2 DEF Attesting!Next
<1>6. CASE Return
  <2>1. UNCHANGED <<tasks, counted>> /\ Phase = "closing" /\ Phase' = "closed"
    BY <1>6 DEF Return, Phase
  <2>2. Attesting!Closed
    BY <2>1 DEF Attesting!Closed
  <2> QED
    BY <2>2 DEF Attesting!Next
<1>7. CASE CloseQueue \/ WritersGone
  <2>1. UNCHANGED <<tasks, counted>> /\ Phase' = Phase
    BY <1>7 DEF CloseQueue, WritersGone, Phase
  <2> QED
    BY <2>1 DEF Attesting!vars
<1>8. CASE UNCHANGED vars
  BY <1>1, <1>8 DEF vars
<1> QED
  BY <1>2, <1>3, <1>4, <1>5, <1>6, <1>7, <1>8 DEF Next, StopStep

\* The pipeline implements the safety part of WorkPool twice.  Its writers take every job
\* once and count it once, however its batch came to be flushed; its attestation tasks
\* count every document of a batch once, and give one up only after Stop; and nothing
\* moves in either after Stop returned.
THEOREM PoolsRefined == Spec => Receiving!Safe /\ Attesting!Safe
<1>1. Init => Receiving!Init /\ Attesting!Init
  <2> SUFFICES ASSUME Init PROVE Receiving!Init /\ Attesting!Init
    OBVIOUS
  <2>1. /\ Range(jobQueue) = {} /\ \A w \in Writer : InBatch(w) = {}
        /\ DOMAIN tasks = {} /\ processed = 0 /\ counted = 0 /\ spc = "none"
    BY RangeEmpty DEF Init, InBatch
  <2>2. Phase = "open"
    BY <2>1 DEF Phase
  <2> QED
    BY <2>1, <2>2 DEF Receiving!Init, Attesting!Init
<1>2. TypeInv /\ PoolInv /\ [Next]_vars => (TypeInv /\ PoolInv)'
  BY TypeStep, PoolStep
<1> QED
  BY <1>1, <1>2, TypeInit, PoolInit, ReceivingStep, AttestingStep, PTL
     DEF Spec, Receiving!Safe, Attesting!Safe
=============================================================================
