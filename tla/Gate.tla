-------------------------------- MODULE Gate --------------------------------
(***************************************************************************)
(* The life of a query behind the billing gate (pkg/acp/middleware.go):    *)
(* which of the collections it names are views, whether it passes unbilled,*)
(* is refused or is billed, the service record of a served query, and the  *)
(* shutdown that waits for both (Host.Close).  The gate decides by the     *)
(* view manager's table of active views (pkg/view/viewManager.go) while    *)
(* DefraDB answers from its own store, which outlives the process.         *)
(*                                                                         *)
(* The balance decision is the subject of Authorization; here a payer is   *)
(* allowed or not.                                                         *)
(***************************************************************************)
EXTENDS Integers, FiniteSets

CONSTANTS Handler,        \* the HTTP server's request goroutines
          View,           \* view collections
          Addressed,      \* the views with a contract address
          Concurrency,    \* defaultRecordConcurrency
          MaxRestarts     \* bound: starts of the host after the first

ASSUME GateAssumption ==
  /\ Addressed \subseteq View
  /\ IsFiniteSet(Handler)
  /\ Concurrency \in Nat \ {0}
  /\ MaxRestarts \in Nat

VARIABLES
  stored,    \* the views in DefraDB's store
  active,    \* Manager.activeViews
  adding,    \* the view RegisterView is adding while it holds the manager's lock, if any
  hpc,       \* where each handler is
  names,     \* the collections its query names and collectViewLookups has not seen yet
  lookups,   \* the views it has found
  sem,       \* tokens in recordSem
  posting,   \* record goroutines at work: recordWG's count
  stage,     \* how far Host.Close is
  expired,   \* Close's context is done
  restarts,
  \* history
  had,       \* the views of the query that DefraDB had when it arrived
  known,     \* those of them that were active
  owed       \* billed responses whose record has not ended yet

viewVars == <<stored, active, adding>>
handlerVars == <<hpc, names, lookups, had, known>>
recordVars == <<sem, posting, owed>>
closeVars == <<stage, expired, restarts>>
vars == <<viewVars, handlerVars, recordVars, closeVars>>

HandlerState == {"idle", "lookup", "free", "billed", "stream", "submit"}
Stage == {"up", "shutdown", "drain", "closed"}

\* The handlers whose request is not answered yet.
Busy == {h \in Handler : hpc[h] # "idle"}
At(where) == {h \in Handler : hpc[h] = where}

TypeOK ==
  /\ stored \subseteq View /\ active \subseteq stored
  /\ adding = {} \/ \E v \in View \ active : adding = {v}
  /\ hpc \in [Handler -> HandlerState]
  /\ names \in [Handler -> SUBSET View]
  /\ lookups \in [Handler -> SUBSET View]
  /\ had \in [Handler -> SUBSET View]
  /\ known \in [Handler -> SUBSET View]
  /\ sem \in 0..Concurrency /\ posting = sem
  /\ owed \in Nat
  /\ stage \in Stage /\ expired \in BOOLEAN
  /\ restarts \in 0..MaxRestarts

NoOne == [h \in Handler |-> {}]

Init ==
  /\ stored = {} /\ active = {} /\ adding = {}
  /\ hpc = [h \in Handler |-> "idle"]
  /\ names = NoOne /\ lookups = NoOne /\ had = NoOne /\ known = NoOne
  /\ sem = 0 /\ posting = 0 /\ owed = 0
  /\ stage = "up" /\ expired = FALSE /\ restarts = 0

-----------------------------------------------------------------------------
(* RegisterView, called for the views found at startup and for those the   *)
(* hub announces.                                                          *)

\* The manager's lock is taken; a view that is active already is refused.
Lock(v) ==
  /\ stage = "up"
  /\ adding = {}
  /\ v \notin active
  /\ adding' = {v}
  /\ UNCHANGED <<stored, active, handlerVars, recordVars, closeVars>>

\* prepareWasm, setupLens or AddView failed.
RegistrationFails ==
  /\ adding # {}
  /\ adding' = {}
  /\ UNCHANGED <<stored, active, handlerVars, recordVars, closeVars>>

\* AddView stores the view, or finds it stored, and the view becomes active.  The lock is
\* held from one to the other, so no lookup sees the store ahead of the table.
Register(v) ==
  /\ v \in adding
  /\ stored' = stored \cup {v}
  /\ active' = active \cup {v}
  /\ adding' = {}
  /\ UNCHANGED <<handlerVars, recordVars, closeVars>>

-----------------------------------------------------------------------------
(* handleGraphQL.                                                          *)

Goto(h, where) == hpc' = [hpc EXCEPT ![h] = where]

\* The names of the query matter until the decision is taken.
Forget(h) ==
  /\ names' = [names EXCEPT ![h] = {}]
  /\ lookups' = [lookups EXCEPT ![h] = {}]
  /\ had' = [had EXCEPT ![h] = {}]
  /\ known' = [known EXCEPT ![h] = {}]

\* The handler returns.
Answer(h) == Goto(h, "idle") /\ Forget(h)

\* A well-formed request arrives.
Arrive(h) ==
  /\ stage = "up"
  /\ hpc[h] = "idle"
  /\ Goto(h, "lookup")
  /\ \E q \in SUBSET View \ {{}} :
       /\ names' = [names EXCEPT ![h] = q]
       /\ had' = [had EXCEPT ![h] = q \cap stored]
       /\ known' = [known EXCEPT ![h] = q \cap active]
  /\ UNCHANGED <<viewVars, lookups, recordVars, closeVars>>

\* Variant: a view without an address is taken for a plain collection.
LookupSkipping(h) ==
  /\ hpc[h] = "lookup" /\ adding = {}
  /\ \E v \in names[h] :
       /\ names' = [names EXCEPT ![h] = @ \ {v}]
       /\ lookups' = [lookups EXCEPT ![h] = IF v \in active \cap Addressed THEN @ \cup {v} ELSE @]
       /\ UNCHANGED <<hpc, had, known>>
  /\ UNCHANGED <<viewVars, recordVars, closeVars>>

\* collectViewLookups, one name: it reads the manager's table under the lock.  An active
\* view without an address is answered 503.
Lookup(h) ==
  /\ hpc[h] = "lookup" /\ adding = {}
  /\ \E v \in names[h] :
       IF v \in active \ Addressed
         THEN Answer(h)
         ELSE /\ names' = [names EXCEPT ![h] = @ \ {v}]
              /\ lookups' = [lookups EXCEPT ![h] = IF v \in active THEN @ \cup {v} ELSE @]
              /\ UNCHANGED <<hpc, had, known>>
  /\ UNCHANGED <<viewVars, recordVars, closeVars>>

\* No view: pass through.
Pass(h) ==
  /\ hpc[h] = "lookup" /\ names[h] = {}
  /\ lookups[h] = {}
  /\ Goto(h, "free")
  /\ UNCHANGED <<viewVars, names, lookups, had, known, recordVars, closeVars>>

\* One view, a good signature, a pool and a funded payer: forward and capture.
Allow(h) ==
  /\ hpc[h] = "lookup" /\ names[h] = {}
  /\ Cardinality(lookups[h]) = 1
  /\ Goto(h, "billed") /\ Forget(h)
  /\ UNCHANGED <<viewVars, recordVars, closeVars>>

\* Two views, no signature, a stale or mismatched one, no pool, no balance, or no answer
\* from the authorizer.
Refuse(h) ==
  /\ hpc[h] = "lookup" /\ names[h] = {}
  /\ lookups[h] # {}
  /\ Answer(h)
  /\ UNCHANGED <<viewVars, recordVars, closeVars>>

\* DefraDB answers a query that was passed through, with the rows of what it stores.
ServeFree(h) ==
  /\ hpc[h] = "free"
  /\ Answer(h)
  /\ UNCHANGED <<viewVars, recordVars, closeVars>>

\* DefraDB answers a billed query: a 2xx response in which the view served is due a
\* record; any other is not, and none is where no accounting service is configured.
Serve(h) ==
  /\ hpc[h] = "billed"
  /\ Goto(h, "submit")
  /\ owed' = owed + 1
  /\ UNCHANGED <<viewVars, names, lookups, had, known, sem, posting, closeVars>>

ServeNothing(h) ==
  /\ hpc[h] = "billed"
  /\ Answer(h)
  /\ UNCHANGED <<viewVars, recordVars, closeVars>>

\* A subscription: an event stream is not captured, and lasts until the client leaves.
Stream(h) ==
  /\ hpc[h] = "billed"
  /\ Goto(h, "stream")
  /\ UNCHANGED <<viewVars, names, lookups, had, known, recordVars, closeVars>>

StreamEnds(h) ==
  /\ hpc[h] = "stream"
  /\ Answer(h)
  /\ UNCHANGED <<viewVars, recordVars, closeVars>>

\* Variant: past the limit the record is dropped.
SubmitOrDrop(h) ==
  /\ hpc[h] = "submit"
  /\ IF sem < Concurrency THEN sem' = sem + 1 /\ posting' = posting + 1
                          ELSE UNCHANGED <<sem, posting>>
  /\ Answer(h)
  /\ UNCHANGED <<viewVars, owed, closeVars>>

\* submitRecord: take a token, waiting for one if there is none, and start the record.
Submit(h) ==
  /\ hpc[h] = "submit"
  /\ sem < Concurrency
  /\ sem' = sem + 1
  /\ posting' = posting + 1
  /\ Answer(h)
  /\ UNCHANGED <<viewVars, owed, closeVars>>

\* Variant: a record that fails keeps its token.
RecordEndsKeepingToken ==
  /\ posting > 0
  /\ posting' = posting - 1
  /\ sem' \in {sem, sem - 1}
  /\ owed' = owed - 1
  /\ UNCHANGED <<viewVars, handlerVars, closeVars>>

\* Variant: a record that panics is not taken off the wait group.
RecordEndsUncounted ==
  /\ sem > 0
  /\ sem' = sem - 1
  /\ posting' \in IF posting = sem THEN {posting, posting - 1} ELSE {posting - 1}
  /\ owed' = owed - (posting - posting')
  /\ UNCHANGED <<viewVars, handlerVars, closeVars>>

\* record: the accounting service took it, refused it, did not answer in time, or the
\* submission panicked.  Whichever, the token goes back and the wait group is told.
RecordEnds ==
  /\ posting > 0
  /\ posting' = posting - 1
  /\ sem' = sem - 1
  /\ owed' = owed - 1
  /\ UNCHANGED <<viewVars, handlerVars, closeVars>>

-----------------------------------------------------------------------------
(* Host.Close, and the process around it.                                  *)

\* The server stops accepting requests.
Close ==
  /\ stage = "up"
  /\ stage' = "shutdown"
  /\ UNCHANGED <<viewVars, handlerVars, recordVars, expired, restarts>>

\* Close's context is done, if it has an end at all: that of main has none.
Expire ==
  /\ stage \in {"shutdown", "drain"} /\ ~expired
  /\ expired' = TRUE
  /\ UNCHANGED <<viewVars, handlerVars, recordVars, stage, restarts>>

\* Variant: the records are drained while handlers may still submit some.
ShutdownEarly ==
  /\ stage = "shutdown"
  /\ stage' = "drain"
  /\ UNCHANGED <<viewVars, handlerVars, recordVars, expired, restarts>>

\* acpServer.Shutdown returns: every handler has, or the context is done.
Shutdown ==
  /\ stage = "shutdown"
  /\ Busy = {} \/ expired
  /\ stage' = "drain"
  /\ UNCHANGED <<viewVars, handlerVars, recordVars, expired, restarts>>

\* Drain returns, and Close with it.
Drain ==
  /\ stage = "drain"
  /\ posting = 0 \/ expired
  /\ stage' = "closed"
  /\ UNCHANGED <<viewVars, handlerVars, recordVars, expired, restarts>>

\* The process ends, after Close or without it, and a new one starts on the same store.
\* Its GraphQL server answers before the first view is registered, when the table of
\* active views is empty.
Restart ==
  /\ restarts < MaxRestarts
  /\ restarts' = restarts + 1
  /\ active' = {} /\ adding' = {}
  /\ hpc' = [h \in Handler |-> "idle"]
  /\ names' = NoOne /\ lookups' = NoOne /\ had' = NoOne /\ known' = NoOne
  /\ sem' = 0 /\ posting' = 0 /\ owed' = 0
  /\ stage' = "up" /\ expired' = FALSE
  /\ stored' = stored

-----------------------------------------------------------------------------

Handle(h) ==
  \/ Lookup(h) \/ Pass(h) \/ Allow(h) \/ Refuse(h)
  \/ ServeFree(h) \/ Serve(h) \/ ServeNothing(h) \/ Stream(h)

Next ==
  \/ \E v \in View : Lock(v) \/ Register(v)
  \/ RegistrationFails
  \/ \E h \in Handler : Arrive(h) \/ Handle(h) \/ StreamEnds(h) \/ Submit(h)
  \/ RecordEnds
  \/ Close \/ Expire \/ Shutdown \/ Drain
  \/ Restart

Spec == Init /\ [][Next]_vars

\* What holds the manager's lock lets it go; handlers run and DefraDB answers them; a
\* record ends within its timeout; senders blocked on a Go channel are served in order,
\* so one that finds a token again and again gets it.  Nothing is assumed of clients that
\* hold a stream, nor of Close's context: main passes context.Background().
FairSpec ==
  /\ Spec
  /\ WF_vars(RegistrationFails \/ \E v \in View : Register(v))
  /\ \A h \in Handler : WF_vars(Handle(h)) /\ SF_vars(Submit(h))
  /\ WF_vars(RecordEnds)
  /\ WF_vars(Shutdown) /\ WF_vars(Drain)

-----------------------------------------------------------------------------
(* Properties.                                                             *)

(***************************************************************************)
(* "Past the cap the gate blocks rather than drop a record": every billed  *)
(* response whose record has not ended is being recorded, or waits in its  *)
(* handler for a token, and no response is recorded twice.                 *)
(***************************************************************************)
OneRecordEach == owed = posting + Cardinality(At("submit"))

(***************************************************************************)
(* A query that names a view which was active when the query arrived is    *)
(* never passed through unbilled, with or without an address, whatever is  *)
(* registered while the gate looks the names up.                           *)
(***************************************************************************)
ActiveViewsGated == \A h \in At("free") : known[h] = {}

(***************************************************************************)
(* "Records already accepted are not lost on shutdown": when Close returns *)
(* before its context is done, no handler is at work and no record is on   *)
(* its way, and none can be begun.                                         *)
(***************************************************************************)
QuietClose == stage = "closed" /\ ~expired => Busy = {} /\ posting = 0

(***************************************************************************)
(* A handler that waits for a token gets one, however slow or broken the   *)
(* accounting service is: each record gives its token back.                *)
(***************************************************************************)
SubmitReturns == \A h \in Handler : hpc[h] = "submit" ~> hpc[h] # "submit"

(***************************************************************************)
(* Close returns without any deadline, once the clients have left their    *)
(* streams: no handler waits for a token, no record for an answer and no   *)
(* lookup for the manager's lock in a way that would hold it up.           *)
(***************************************************************************)
CloseReturns ==
  (\A h \in Handler : []<>(hpc[h] # "stream")) =>
    (stage = "shutdown" ~> stage \in {"closed", "up"})

\* The strengthening of ActiveViewsGated: a known view is active, and until it is found
\* it is among the names to look up.
KnownPending ==
  \A h \in Handler :
    /\ known[h] \subseteq active
    /\ hpc[h] \in {"lookup", "free"} => known[h] \subseteq names[h] \cup lookups[h]
    /\ hpc[h] = "free" => names[h] = {} /\ lookups[h] = {}

\* The strengthening of QuietClose: no handler is at work while the records are drained.
QuietDrain == stage \in {"drain", "closed"} /\ ~expired => Busy = {}

(***************************************************************************)
(* The decision tree passes a request through when it names "No view       *)
(* collections", there being "nothing to bill": no request for a view that *)
(* DefraDB had in its store when the request came passes through, also in  *)
(* a process that was just started on that store.                          *)
(***************************************************************************)
ViewsBilled == \A h \in At("free") : had[h] = {}
=============================================================================
