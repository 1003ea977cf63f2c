----------------------------- MODULE GateProofs -----------------------------
(***************************************************************************)
(* The gate, for any number of handlers and views and any record limit:    *)
(* no billed response goes without its record, no view that was active     *)
(* when the query arrived is passed through, and an orderly Close leaves   *)
(* nothing behind.                                                         *)
(***************************************************************************)
EXTENDS Gate, FiniteSetTheorems, TLAPS

\* The invariant: OneRecordEach keeps owed from falling below zero.
GInv == TypeOK /\ OneRecordEach

LEMMA AtSubmit ==
  ASSUME NEW w \in [Handler -> HandlerState]
  PROVE  /\ IsFiniteSet({h \in Handler : w[h] = "submit"})
         /\ Cardinality({h \in Handler : w[h] = "submit"}) \in Nat
<1>1. {h \in Handler : w[h] = "submit"} \subseteq Handler
  OBVIOUS
<1>2. IsFiniteSet({h \in Handler : w[h] = "submit"})
  BY <1>1, GateAssumption, FS_Subset
<1> QED
  BY <1>2, FS_CardinalityType

LEMMA GInit == Init => GInv
<1> SUFFICES ASSUME Init PROVE GInv
  OBVIOUS
<1>1. At("submit") = {}
  BY DEF Init, At
<1>2. Cardinality(At("submit")) = 0
  BY <1>1, FS_EmptySet
<1>3. OneRecordEach
  BY <1>2 DEF Init, OneRecordEach
<1>4. hpc \in [Handler -> HandlerState] /\ NoOne \in [Handler -> SUBSET View]
  BY DEF Init, HandlerState, NoOne
<1>5. expired \in BOOLEAN
  BY DEF Init
<1> QED
  BY <1>3, <1>4, <1>5, GateAssumption DEF Init, GInv, TypeOK, Stage

\* The type invariant, part by part.
ViewType == /\ stored \subseteq View /\ active \subseteq stored
            /\ adding = {} \/ \E v \in View \ active : adding = {v}
HandlerType == /\ hpc \in [Handler -> HandlerState]
               /\ names \in [Handler -> SUBSET View]
               /\ lookups \in [Handler -> SUBSET View]
               /\ had \in [Handler -> SUBSET View]
               /\ known \in [Handler -> SUBSET View]
RecordType == sem \in 0..Concurrency /\ posting = sem /\ owed \in Nat
CloseType == stage \in Stage /\ expired \in BOOLEAN /\ restarts \in 0..MaxRestarts

LEMMA TypeParts == TypeOK <=> ViewType /\ HandlerType /\ RecordType /\ CloseType
  BY DEF TypeOK, ViewType, HandlerType, RecordType, CloseType

LEMMA ViewStep == TypeOK /\ [Next]_vars => ViewType'
<1> SUFFICES ASSUME TypeOK, [Next]_vars PROVE ViewType'
  OBVIOUS
<1> USE DEF viewVars
<1>0. ViewType
  BY TypeParts
<1>u. ASSUME UNCHANGED viewVars PROVE ViewType'
  BY <1>0, <1>u DEF ViewType
<1>1. ASSUME NEW v \in View, Lock(v) PROVE ViewType'
  BY <1>0, <1>1 DEF Lock, ViewType
<1>2. ASSUME NEW v \in View, Register(v) PROVE ViewType'
  BY <1>0, <1>2 DEF Register, ViewType
<1>3. CASE RegistrationFails
  BY <1>0, <1>3 DEF RegistrationFails, ViewType
<1>4. CASE Restart
  BY <1>0, <1>4 DEF Restart, ViewType
<1>5. ASSUME NEW h \in Handler, Arrive(h) \/ Handle(h) \/ StreamEnds(h) \/ Submit(h)
      PROVE  UNCHANGED viewVars
  BY <1>5 DEF Arrive, Handle, Lookup, Pass, Allow, Refuse, ServeFree, Serve, ServeNothing,
              Stream, StreamEnds, Submit
<1>6. ASSUME RecordEnds \/ Close \/ Expire \/ Shutdown \/ Drain PROVE UNCHANGED viewVars
  BY <1>6 DEF RecordEnds, Close, Expire, Shutdown, Drain
<1>7. CASE UNCHANGED vars
  BY <1>7, <1>u DEF vars
<1> QED
  BY <1>1, <1>2, <1>3, <1>4, <1>5, <1>6, <1>7, <1>u DEF Next

LEMMA HandlerStep == TypeOK /\ [Next]_vars => HandlerType'
<1> SUFFICES ASSUME TypeOK, [Next]_vars PROVE HandlerType'
  OBVIOUS
<1> USE DEF handlerVars
<1>0. HandlerType
  BY TypeParts
<1>u. ASSUME UNCHANGED handlerVars PROVE HandlerType'
  BY <1>0, <1>u DEF HandlerType
<1>g. ASSUME NEW h \in Handler, NEW where \in HandlerState, Goto(h, where)
      PROVE  hpc' \in [Handler -> HandlerState]
  BY <1>0, <1>g DEF Goto, HandlerType
<1>f. ASSUME NEW h \in Handler, NEW where \in HandlerState, Goto(h, where), Forget(h)
      PROVE  HandlerType'
  BY <1>0, <1>f, <1>g DEF Forget, HandlerType
<1>k. ASSUME NEW h \in Handler, NEW where \in HandlerState, Goto(h, where),
             UNCHANGED <<names, lookups, had, known>>
      PROVE  HandlerType'
  BY <1>0, <1>k, <1>g DEF HandlerType
<1>s. "idle" \in HandlerState /\ "lookup" \in HandlerState /\ "free" \in HandlerState
      /\ "billed" \in HandlerState /\ "stream" \in HandlerState /\ "submit" \in HandlerState
  BY DEF HandlerState
<1>1. ASSUME NEW h \in Handler, Arrive(h) PROVE HandlerType'
  <2>1. hpc' \in [Handler -> HandlerState]
    BY <1>1, <1>g, <1>s DEF Arrive
  <2>2. PICK q \in SUBSET View \ {{}} : /\ names' = [names EXCEPT ![h] = q]
                                        /\ had' = [had EXCEPT ![h] = q \cap stored]
                                        /\ known' = [known EXCEPT ![h] = q \cap active]
    BY <1>1 DEF Arrive
  <2>3. lookups' = lookups
    BY <1>1 DEF Arrive
  <2> QED
    BY <1>0, <2>1, <2>2, <2>3 DEF HandlerType
<1>2. ASSUME NEW h \in Handler, Lookup(h) PROVE HandlerType'
  <2>1. PICK v \in names[h] :
          IF v \in active \ Addressed
            THEN Answer(h)
            ELSE /\ names' = [names EXCEPT ![h] = @ \ {v}]
                 /\ lookups' = [lookups EXCEPT ![h] = IF v \in active THEN @ \cup {v} ELSE @]
                 /\ UNCHANGED <<hpc, had, known>>
    BY <1>2 DEF Lookup
  <2>2. v \in View
    BY <1>0 DEF HandlerType
  <2>3. CASE v \in active \ Addressed
    BY <2>1, <2>3, <1>f, <1>s DEF Answer
  <2>4. CASE ~(v \in active \ Addressed)
    BY <1>0, <2>1, <2>2, <2>4 DEF HandlerType
  <2> QED
    BY <2>3, <2>4
<1>3. ASSUME NEW h \in Handler, Pass(h) \/ Serve(h) \/ Stream(h) PROVE HandlerType'
  BY <1>3, <1>k, <1>s DEF Pass, Serve, Stream
<1>4. ASSUME NEW h \in Handler,
             Allow(h) \/ Refuse(h) \/ ServeFree(h) \/ ServeNothing(h) \/ StreamEnds(h) \/ Submit(h)
      PROVE  HandlerType'
  BY <1>4, <1>f, <1>s DEF Allow, Refuse, ServeFree, ServeNothing, StreamEnds, Submit, Answer
<1>5. CASE Restart
  <2>1. hpc' \in [Handler -> HandlerState]
    BY <1>5, <1>s DEF Restart
  <2>2. NoOne \in [Handler -> SUBSET View]
    BY DEF NoOne
  <2> QED
    BY <1>5, <2>1, <2>2 DEF Restart, HandlerType
<1>6. ASSUME NEW v \in View, Lock(v) \/ Register(v) PROVE UNCHANGED handlerVars
  BY <1>6 DEF Lock, Register
<1>7. ASSUME RegistrationFails \/ RecordEnds \/ Close \/ Expire \/ Shutdown \/ Drain
      PROVE  UNCHANGED handlerVars
  BY <1>7 DEF RegistrationFails, RecordEnds, Close, Expire, Shutdown, Drain
<1>8. CASE UNCHANGED vars
  BY <1>8, <1>u DEF vars
<1> QED
  BY <1>1, <1>2, <1>3, <1>4, <1>5, <1>6, <1>7, <1>8, <1>u DEF Next, Handle

LEMMA CloseStep == TypeOK /\ [Next]_vars => CloseType'
<1> SUFFICES ASSUME TypeOK, [Next]_vars PROVE CloseType'
  OBVIOUS
<1> USE DEF closeVars
<1>0. CloseType
  BY TypeParts
<1>u. ASSUME UNCHANGED closeVars PROVE CloseType'
  BY <1>0, <1>u DEF CloseType
<1>1. CASE Close \/ Shutdown \/ Drain
  BY <1>0, <1>1 DEF Close, Shutdown, Drain, CloseType, Stage
<1>2. CASE Expire
  BY <1>0, <1>2 DEF Expire, CloseType, Stage
<1>3. CASE Restart
  <2>1. restarts' \in 0..MaxRestarts
    BY <1>0, <1>3, GateAssumption DEF Restart, CloseType
  <2>2. stage' \in Stage /\ expired' \in BOOLEAN
    BY <1>3, Zenon DEF Restart, Stage
  <2> QED
    BY <2>1, <2>2 DEF CloseType
<1>4. ASSUME NEW h \in Handler, Arrive(h) \/ Handle(h) \/ StreamEnds(h) \/ Submit(h)
      PROVE  UNCHANGED closeVars
  BY <1>4 DEF Arrive, Handle, Lookup, Pass, Allow, Refuse, ServeFree, Serve, ServeNothing,
              Stream, StreamEnds, Submit
<1>5. ASSUME NEW v \in View, Lock(v) \/ Register(v) PROVE UNCHANGED closeVars
  BY <1>5 DEF Lock, Register
<1>6. ASSUME RegistrationFails \/ RecordEnds PROVE UNCHANGED closeVars
  BY <1>6 DEF RegistrationFails, RecordEnds
<1>7. CASE UNCHANGED vars
  BY <1>7, <1>u DEF vars
<1> QED
  BY <1>1, <1>2, <1>3, <1>4, <1>5, <1>6, <1>7, <1>u DEF Next

LEMMA RecordStep == GInv /\ [Next]_vars => RecordType' /\ OneRecordEach'
<1> SUFFICES ASSUME GInv, [Next]_vars PROVE RecordType' /\ OneRecordEach'
  OBVIOUS
<1> DEFINE S == At("submit")
<1>0. /\ hpc \in [Handler -> HandlerState]
      /\ sem \in Nat /\ sem <= Concurrency /\ posting = sem /\ owed \in Nat
      /\ owed = posting + Cardinality(S)
      /\ Concurrency \in Nat
  BY GateAssumption DEF GInv, TypeOK, OneRecordEach
<1>c. IsFiniteSet(S) /\ Cardinality(S) \in Nat
  BY <1>0, AtSubmit DEF At
<1>u. ASSUME UNCHANGED recordVars, S' = S PROVE RecordType' /\ OneRecordEach'
  BY <1>0, <1>u DEF recordVars, RecordType, OneRecordEach
<1>g. ASSUME NEW h \in Handler, NEW where, Goto(h, where), hpc[h] # "submit", where # "submit"
      PROVE  S' = S
  BY <1>0, <1>g DEF Goto, At
<1>1. ASSUME NEW h \in Handler, Serve(h) PROVE RecordType' /\ OneRecordEach'
  <2>1. h \notin S /\ S' = S \cup {h}
    BY <1>0, <1>1 DEF Serve, Goto, At
  <2>2. Cardinality(S') = Cardinality(S) + 1
    BY <1>c, <2>1, FS_AddElement
  <2> QED
    BY <1>0, <1>1, <1>c, <2>2 DEF Serve, RecordType, OneRecordEach
<1>2. ASSUME NEW h \in Handler, Submit(h) PROVE RecordType' /\ OneRecordEach'
  <2>1. h \in S /\ S' = S \ {h}
    BY <1>0, <1>2 DEF Submit, Answer, Goto, At
  <2>2. Cardinality(S') = Cardinality(S) - 1
    BY <1>c, <2>1, FS_RemoveElement
  <2> QED
    BY <1>0, <1>2, <1>c, <2>2 DEF Submit, RecordType, OneRecordEach
<1>3. CASE RecordEnds
  <2>1. S' = S
    BY <1>3 DEF RecordEnds, handlerVars, At
  <2> QED
    BY <1>0, <1>3, <1>c, <2>1 DEF RecordEnds, RecordType, OneRecordEach
<1>4. CASE Restart
  <2>1. S' = {}
    BY <1>4 DEF Restart, At
  <2>2. Cardinality(S') = 0
    BY <2>1, FS_EmptySet
  <2> QED
    BY <1>0, <1>4, <2>2 DEF Restart, RecordType, OneRecordEach
<1>5. ASSUME NEW h \in Handler,
             Arrive(h) \/ Pass(h) \/ Allow(h) \/ Refuse(h) \/ ServeFree(h)
               \/ ServeNothing(h) \/ Stream(h) \/ StreamEnds(h)
      PROVE  UNCHANGED recordVars /\ S' = S
  BY <1>5, <1>g DEF Arrive, Pass, Allow, Refuse, ServeFree, ServeNothing, Stream, StreamEnds, Answer
<1>6. ASSUME NEW h \in Handler, Lookup(h) PROVE UNCHANGED recordVars /\ S' = S
  <2>1. CASE Answer(h)
    BY <1>6, <1>g, <2>1 DEF Lookup, Answer
  <2>2. CASE hpc' = hpc
    BY <1>6, <2>2 DEF Lookup, At
  <2> QED
    BY <1>6, <2>1, <2>2 DEF Lookup
<1>7. ASSUME NEW v \in View, Lock(v) \/ Register(v) PROVE UNCHANGED recordVars /\ S' = S
  BY <1>7 DEF Lock, Register, handlerVars, At
<1>8. ASSUME RegistrationFails \/ Close \/ Expire \/ Shutdown \/ Drain
      PROVE  UNCHANGED recordVars /\ S' = S
  BY <1>8 DEF RegistrationFails, Close, Expire, Shutdown, Drain, handlerVars, At
<1>9. CASE UNCHANGED vars
  BY <1>9, <1>u DEF vars, handlerVars, At
<1> QED
  BY <1>1, <1>2, <1>3, <1>4, <1>5, <1>6, <1>7, <1>8, <1>9, <1>u DEF Next, Handle

LEMMA GStep == GInv /\ [Next]_vars => GInv'
<1> SUFFICES ASSUME GInv, [Next]_vars PROVE GInv'
  OBVIOUS
<1>1. ViewType' /\ HandlerType' /\ CloseType'
  BY ViewStep, HandlerStep, CloseStep DEF GInv
<1>2. RecordType' /\ OneRecordEach'
  BY RecordStep
<1>3. TypeOK'
  BY <1>1, <1>2 DEF TypeOK, ViewType, HandlerType, RecordType, CloseType
<1> QED
  BY <1>2, <1>3 DEF GInv

LEMMA GAlways == Spec => []GInv
<1> QED
  BY GInit, GStep, PTL DEF Spec

\* Every variable of the gate keeps its type; in particular the tokens taken are the
\* records at work, and never more than the limit.
THEOREM TypeCorrect == Spec => []TypeOK
<1>1. GInv => TypeOK
  BY DEF GInv
<1> QED
  BY GAlways, <1>1, PTL

\* A billed response has exactly one record, submitted or waiting for a token, until
\* that record ends: the limit delays records and never drops one.
THEOREM OneRecordCorrect == Spec => []OneRecordEach
<1>1. GInv => OneRecordEach
  BY DEF GInv
<1> QED
  BY GAlways, <1>1, PTL

-----------------------------------------------------------------------------
(* Known views stay among the names to look up or the views found.         *)

LEMMA KnownInit == Init => KnownPending
  BY DEF Init, KnownPending, NoOne

LEMMA KnownStep == TypeOK /\ KnownPending /\ [Next]_vars => KnownPending'
<1> SUFFICES ASSUME TypeOK, KnownPending, [Next]_vars PROVE KnownPending'
  OBVIOUS
<1>0. /\ hpc \in [Handler -> HandlerState] /\ names \in [Handler -> SUBSET View]
      /\ lookups \in [Handler -> SUBSET View] /\ known \in [Handler -> SUBSET View]
  BY DEF TypeOK
<1>u. ASSUME UNCHANGED handlerVars, active \subseteq active' PROVE KnownPending'
  BY <1>u DEF KnownPending, handlerVars
<1>f. ASSUME NEW h \in Handler, NEW where, Goto(h, where), Forget(h), active' = active,
             where # "lookup", where # "free"
      PROVE  KnownPending'
  BY <1>0, <1>f DEF KnownPending, Goto, Forget
<1>k. ASSUME NEW h \in Handler, NEW where, Goto(h, where), where # "lookup", where # "free",
             UNCHANGED <<names, lookups, known, active>>
      PROVE  KnownPending'
  BY <1>0, <1>k DEF KnownPending, Goto
<1>1. ASSUME NEW h \in Handler, Arrive(h) PROVE KnownPending'
  <2>1. PICK q \in SUBSET View \ {{}} : /\ names' = [names EXCEPT ![h] = q]
                                        /\ known' = [known EXCEPT ![h] = q \cap active]
    BY <1>1 DEF Arrive
  <2>2. hpc' = [hpc EXCEPT ![h] = "lookup"] /\ lookups' = lookups /\ active' = active
    BY <1>1 DEF Arrive, Goto, viewVars
  <2> QED
    BY <1>0, <2>1, <2>2 DEF KnownPending
<1>2. ASSUME NEW h \in Handler, Lookup(h) PROVE KnownPending'
  <2>1. PICK v \in names[h] :
          IF v \in active \ Addressed
            THEN Answer(h)
            ELSE /\ names' = [names EXCEPT ![h] = @ \ {v}]
                 /\ lookups' = [lookups EXCEPT ![h] = IF v \in active THEN @ \cup {v} ELSE @]
                 /\ UNCHANGED <<hpc, had, known>>
    BY <1>2 DEF Lookup
  <2>2. hpc[h] = "lookup" /\ active' = active
    BY <1>2 DEF Lookup, viewVars
  <2>3. CASE v \in active \ Addressed
    BY <2>1, <2>2, <2>3, <1>f DEF Answer
  <2>4. CASE ~(v \in active \ Addressed)
    <3>1. v \in known[h] => v \in active
      BY DEF KnownPending
    <3>2. known[h] \subseteq names[h] \cup lookups[h]
      BY <2>2 DEF KnownPending
    <3>3. known[h] \subseteq names'[h] \cup lookups'[h]
      BY <1>0, <2>1, <2>4, <3>1, <3>2
    <3>4. \A g \in Handler \ {h} : names'[g] = names[g] /\ lookups'[g] = lookups[g]
      BY <1>0, <2>1, <2>4
    <3>5. hpc' = hpc /\ known' = known
      BY <2>1, <2>4
    <3> QED
      BY <2>2, <3>3, <3>4, <3>5 DEF KnownPending
  <2> QED
    BY <2>3, <2>4
<1>3. ASSUME NEW h \in Handler, Pass(h) PROVE KnownPending'
  BY <1>0, <1>3 DEF Pass, Goto, viewVars, KnownPending
<1>4. ASSUME NEW h \in Handler, Serve(h) \/ Stream(h) PROVE KnownPending'
  BY <1>4, <1>k DEF Serve, Stream, viewVars
<1>5. ASSUME NEW h \in Handler,
             Allow(h) \/ Refuse(h) \/ ServeFree(h) \/ ServeNothing(h) \/ StreamEnds(h) \/ Submit(h)
      PROVE  KnownPending'
  BY <1>5, <1>f DEF Allow, Refuse, ServeFree, ServeNothing, StreamEnds, Submit, Answer, viewVars
<1>6. CASE Restart
  BY <1>6 DEF Restart, NoOne, KnownPending
<1>7. ASSUME NEW v \in View, Lock(v) \/ Register(v) PROVE KnownPending'
  BY <1>7, <1>u DEF Lock, Register
<1>8. ASSUME RegistrationFails \/ RecordEnds \/ Close \/ Expire \/ Shutdown \/ Drain
      PROVE  KnownPending'
  BY <1>8, <1>u DEF RegistrationFails, RecordEnds, Close, Expire, Shutdown, Drain, viewVars
<1>9. CASE UNCHANGED vars
  BY <1>9, <1>u DEF vars, viewVars
<1> QED
  BY <1>1, <1>2, <1>3, <1>4, <1>5, <1>6, <1>7, <1>8, <1>9 DEF Next, Handle

\* A view that was active when the query arrived is found by collectViewLookups, or the
\* query is answered 503: the gate never passes it through.
THEOREM ActiveViewsGatedCorrect == Spec => []ActiveViewsGated
<1>1. KnownPending => ActiveViewsGated
  BY DEF KnownPending, ActiveViewsGated, At
<1>2. TypeOK /\ [Next]_vars /\ KnownPending => KnownPending'
  BY KnownStep
<1> QED
  BY TypeCorrect, KnownInit, <1>1, <1>2, PTL DEF Spec

-----------------------------------------------------------------------------
(* Close.                                                                  *)

LEMMA QuietInit == Init => QuietDrain /\ QuietClose
  BY DEF Init, QuietDrain, QuietClose

LEMMA QuietStep ==
  TypeOK /\ QuietDrain /\ QuietClose /\ [Next]_vars => (QuietDrain /\ QuietClose)'
<1> SUFFICES ASSUME TypeOK, QuietDrain, QuietClose, [Next]_vars
             PROVE  QuietDrain' /\ QuietClose'
  OBVIOUS
<1>u. ASSUME UNCHANGED closeVars, stage = "closed" /\ ~expired => posting' = posting,
             stage \in {"drain", "closed"} /\ ~expired => Busy' = Busy
      PROVE  QuietDrain' /\ QuietClose'
  BY <1>u DEF QuietDrain, QuietClose, closeVars
<1>h. ASSUME NEW h \in Handler, hpc[h] # "idle"
      PROVE  ~(stage \in {"drain", "closed"} /\ ~expired)
  BY <1>h DEF QuietDrain, Busy
<1>1. ASSUME NEW h \in Handler, Arrive(h) PROVE QuietDrain' /\ QuietClose'
  BY <1>1, <1>u DEF Arrive
<1>2. ASSUME NEW h \in Handler, Handle(h) \/ StreamEnds(h) \/ Submit(h)
      PROVE  QuietDrain' /\ QuietClose'
  <2>1. hpc[h] # "idle" /\ UNCHANGED closeVars
    BY <1>2 DEF Handle, Lookup, Pass, Allow, Refuse, ServeFree, Serve, ServeNothing, Stream,
                StreamEnds, Submit
  <2> QED
    BY <2>1, <1>h, <1>u
<1>3. CASE RecordEnds
  <2>1. stage = "closed" /\ ~expired => FALSE
    BY <1>3 DEF RecordEnds, QuietClose
  <2> QED
    BY <1>3, <1>u, <2>1 DEF RecordEnds, handlerVars, Busy
<1>4. CASE Close
  BY <1>4 DEF Close, QuietDrain, QuietClose
<1>5. CASE Expire
  BY <1>5 DEF Expire, QuietDrain, QuietClose
<1>6. CASE Shutdown
  BY <1>6 DEF Shutdown, handlerVars, QuietDrain, QuietClose, Busy
<1>7. CASE Drain
  BY <1>7 DEF Drain, handlerVars, recordVars, QuietDrain, QuietClose, Busy
<1>8. CASE Restart
  BY <1>8 DEF Restart, QuietDrain, QuietClose
<1>9. ASSUME NEW v \in View, Lock(v) \/ Register(v) PROVE QuietDrain' /\ QuietClose'
  BY <1>9, <1>u DEF Lock, Register, handlerVars, recordVars, Busy
<1>10. CASE RegistrationFails
  BY <1>10, <1>u DEF RegistrationFails, handlerVars, recordVars, Busy
<1>11. CASE UNCHANGED vars
  BY <1>11, <1>u DEF vars, handlerVars, recordVars, Busy
<1> QED
  BY <1>1, <1>2, <1>3, <1>4, <1>5, <1>6, <1>7, <1>8, <1>9, <1>10, <1>11 DEF Next

\* Close that is not cut short leaves no handler at work and no record on its way: the
\* server is shut down before the records are drained.
THEOREM QuietCloseCorrect == Spec => []QuietClose
<1>1. TypeOK /\ QuietDrain /\ QuietClose /\ [Next]_vars => (QuietDrain /\ QuietClose)'
  BY QuietStep
<1> QED
  BY TypeCorrect, QuietInit, <1>1, PTL DEF Spec
=============================================================================
