-------------------------------- MODULE Views --------------------------------
(***************************************************************************)
(* The view manager (pkg/view/viewManager.go, view.go), the registry file  *)
(* views.json and the WASM files beside it (pkg/view/wasmRegistry.go): how *)
(* one view is prepared, registered with DefraDB and saved.                *)
(*                                                                         *)
(* Two goroutines register views: "main", which loads them at start-up     *)
(* (LoadAndRegisterViews), and "handler", which receives the events of the *)
(* hub (Host.handleIncomingEvents).  A registration is a sequence of steps *)
(* because the process can die between them and because both save the one  *)
(* file.  Module Hub gives both goroutines their views.                    *)
(***************************************************************************)
EXTENDS Integers, Sequences, FiniteSets, Functions

CONSTANTS View,         \* views on the hub: the keys it lists them by
          NameOf,       \* the type name ExtractNameFromSDL finds in the SDL
          PartsOf,      \* what a bundle holds: "wire" when it decodes, "name", "query", "sdl"
          FlawsOf,      \* what is wrong with its query
          LensOf,       \* the kind of its lens path
          MaxFaults     \* bound: failing calls of DefraDB, the disk, the hub and the network

ASSUME ViewAssumption ==
  /\ View \subseteq Nat \ {0} /\ IsFiniteSet(View)
  /\ DOMAIN NameOf = View /\ DOMAIN PartsOf = View
  /\ FlawsOf \in [View -> SUBSET {"inputData", "bare", "typo", "unknown"}]
  /\ LensOf \in [View -> {"none", "http", "base64", "junk", "text"}]
  /\ MaxFaults \in Nat

VARIABLES
  file,     \* views.json: its entries in order, or Torn
  wasm,     \* the WASM file of each view: absent, torn or whole
  defs,     \* the view whose definition DefraDB stores under a name
  active,   \* Manager.activeViews: the view registered under a name
  gauge,    \* the metric ViewsActive
  task,     \* each goroutine's place in the registration of its view
  faults,
  \* history
  refused,  \* the views this process could not register
  saved     \* the names a completed save has put in the file

viewVars == <<file, wasm, defs, active, gauge, task, faults, refused, saved>>

Name == {NameOf[v] : v \in View}
NoView == -1
Unset == [n \in Name |-> NoView]

\* A file that does not parse.
Torn == <<[id |-> NoView, flaws |-> {}, lens |-> "none"]>>

\* A View value as the goroutines pass it around: its identity, the flaws its query still
\* has and where its lens is.
Fetched(v) == [id |-> v, flaws |-> FlawsOf[v], lens |-> LensOf[v]]
NameIn(x) == NameOf[x.id]
NamesIn(s) == {NameIn(x) : x \in Range(s)}

Proc == {"main", "handler"}
Idle == [pc |-> "idle", x |-> <<>>, read |-> <<>>]
Gone == [pc |-> "gone", x |-> <<>>, read |-> <<>>]

ViewsInit ==
  /\ file = <<>>
  /\ wasm = [v \in View |-> "absent"]
  /\ defs = Unset /\ active = Unset /\ gauge = 0
  /\ task = [main |-> Idle, handler |-> Gone]
  /\ faults = 0 /\ refused = {} /\ saved = {}

Fault ==
  /\ faults < MaxFaults
  /\ faults' = faults + 1

Active == {n \in Name : active[n] # NoView}

-----------------------------------------------------------------------------
(* Decoding and validation.                                                *)

\* View.Validate: name, query and SDL are there and an inline lens is base64.
Validate(x) == {"name", "query", "sdl"} \subseteq PartsOf[x.id] /\ x.lens # "text"

\* ProcessViewFromWireFormat: base64, the bundle and the view in it.
Decodes(v) == "wire" \in PartsOf[v] /\ Validate(Fetched(v))

\* needsWasmConversion: the lens is inline.
Inline(x) == x.lens \in {"base64", "junk", "text"}

\* fixQueryInputData, fixCollectionName and attemptQueryCorrection each mend one flaw.
Mend(x, flaw) == [x EXCEPT !.flaws = @ \ {flaw}]

\* A finite set of numbers in increasing order (there is one such listing).
Listings(P) ==
  {f \in [1..Cardinality(P) -> P] :
     \A a, b \in 1..Cardinality(P) : a < b => f[a] < f[b]}

\* deduplicateViews: the first of each name stays.
Firsts(s) == {i \in DOMAIN s : \A k \in 1..(i - 1) : NameIn(s[k]) # NameIn(s[i])}
Deduplicate(s) == {[k \in DOMAIN f |-> s[f[k]]] : f \in Listings(Firsts(s))}

-----------------------------------------------------------------------------
(* RegisterView and SaveViewToRegistry, as goroutine p goes through them.  *)

At(p, where) == task[p].pc = where
Goto(p, where, x) == task' = [task EXCEPT ![p] = [pc |-> where, x |-> x, read |-> <<>>]]

\* Goroutine p begins with a view.  The handler writes its WASM before RegisterView looks
\* at it; main leaves that to RegisterView.
Begin(p, x) == Goto(p, IF p = "handler" /\ Inline(x) THEN "post" ELSE "check", x)

\* The manager's mutex is held from the look at activeViews to the insertion.
Holds(p) == \/ task[p].pc \in {"lens", "insert"}
            \/ p = "main" /\ task[p].pc \in {"post", "posting"}

\* Variant: the handler returns where it should go on with the next event.
GiveUpAndReturn(p) ==
  /\ task' = [task EXCEPT ![p] = IF p = "handler" THEN Gone ELSE Idle]
  /\ refused' = refused \cup {task[p].x.id}

\* p's view is given up; the caller logs it and goes on.
GiveUp(p) ==
  /\ task' = [task EXCEPT ![p] = Idle]
  /\ refused' = refused \cup {task[p].x.id}

\* Validate, fixQueryInputData, and the look for a view of that name.
Check(p) ==
  LET x == Mend(task[p].x, "inputData") IN
  /\ At(p, "check")
  /\ \A q \in Proc : ~Holds(q)
  /\ IF Validate(x) /\ NameIn(x) \notin Active
       THEN /\ Goto(p, IF Inline(x) THEN "post" ELSE "lens", x)
            /\ refused' = refused
       ELSE GiveUp(p)
  /\ UNCHANGED <<file, wasm, defs, active, gauge, faults, saved>>

\* PostWasmToFile: what is not a WASM module is refused; os.WriteFile truncates the file
\* that may be there.  One lens stands for all the lenses of a view, which are written one
\* after the other: "torn" until the last of them is,
Post(p) ==
  /\ At(p, "post")
  /\ IF task[p].x.lens = "base64"
       THEN /\ wasm' = [wasm EXCEPT ![task[p].x.id] = "torn"]
            /\ Goto(p, "posting", task[p].x)
            /\ refused' = refused
       ELSE GiveUp(p) /\ wasm' = wasm
  /\ UNCHANGED <<file, defs, active, gauge, faults, saved>>

\* and fills it; the lens path becomes the file's.
Posted(p) ==
  LET x == [task[p].x EXCEPT !.lens = "file"] IN
  /\ At(p, "posting")
  /\ wasm' = [wasm EXCEPT ![x.id] = "whole"]
  /\ Goto(p, IF p = "handler" THEN "check" ELSE "lens", x)
  /\ UNCHANGED <<file, defs, active, gauge, faults, refused, saved>>

\* Variant: the query is corrected on a copy, the caller's view keeps its typo.
ConfiguredCopy(x) == Mend(x, "bare")

\* The view after fixCollectionName and ConfigureLens: a field that AddView does not know
\* is replaced by the one it suggests and AddView is tried once more.
Configured(x) == Mend(Mend(x, "bare"), "typo")

\* AddLens loads the WASM.  (DefraDB)
AddLens(x) == x.lens = "file" => wasm[x.id] = "whole"

\* setupLens, fixCollectionName and configureLensAndSubscribe.  A name DefraDB has already
\* keeps its definition: "already exists" is no error.  What SubscribeTo returns is logged.
Configure(p) ==
  LET x == Configured(task[p].x)
      n == NameIn(x)
  IN
  /\ At(p, "lens")
  /\ IF AddLens(x) /\ "unknown" \notin x.flaws
       THEN /\ defs' = [defs EXCEPT ![n] = IF @ = NoView THEN x.id ELSE @]
            /\ Goto(p, "insert", x)
            /\ refused' = refused
       ELSE GiveUp(p) /\ defs' = defs
  /\ UNCHANGED <<file, wasm, active, gauge, faults, saved>>

\* The disk or DefraDB fails on the way; so do DefraDB's calls once the handler's context is
\* cancelled (Hub).
RegistrationFails(p) ==
  /\ task[p].pc \in {"post", "posting", "lens"}
  /\ Fault
  /\ GiveUp(p)
  /\ UNCHANGED <<file, wasm, defs, active, gauge, saved>>

\* updateMetrics, then the insertion.
Insert(p) ==
  LET x == task[p].x IN
  /\ At(p, "insert")
  /\ gauge' = Cardinality(Active)
  /\ active' = [active EXCEPT ![NameIn(x)] = x.id]
  /\ Goto(p, "load", x)
  /\ UNCHANGED <<file, wasm, defs, faults, refused, saved>>

\* SaveViewToRegistry reads the whole file; one that does not parse ends the save,
Load(p) ==
  /\ At(p, "load")
  /\ task' = [task EXCEPT ![p] = IF file = Torn THEN Idle ELSE
                                   [pc |-> "save", x |-> task[p].x, read |-> file]]
  /\ UNCHANGED <<file, wasm, defs, active, gauge, faults, refused, saved>>

\* truncates it,
Truncate(p) ==
  /\ At(p, "save")
  /\ file' = Torn
  /\ task' = [task EXCEPT ![p].pc = "saving"]
  /\ UNCHANGED <<wasm, defs, active, gauge, faults, refused, saved>>

\* The entry of that name is replaced, or one is appended.
Upsert(s, x) ==
  IF NameIn(x) \in NamesIn(s)
    THEN [i \in DOMAIN s |-> IF NameIn(s[i]) = NameIn(x) THEN x ELSE s[i]]
    ELSE Append(s, x)

\* and writes what it read with the view put in.
Saved(p) ==
  /\ At(p, "saving")
  /\ file' = Upsert(task[p].read, task[p].x)
  /\ saved' = saved \cup {NameIn(task[p].x)}
  /\ task' = [task EXCEPT ![p] = Idle]
  /\ UNCHANGED <<wasm, defs, active, gauge, faults, refused>>

\* The disk fails: the save is given up where it is.
SaveFails(p) ==
  /\ task[p].pc \in {"load", "save", "saving"}
  /\ Fault
  /\ task' = [task EXCEPT ![p] = Idle]
  /\ UNCHANGED <<file, wasm, defs, active, gauge, refused, saved>>

RegisterStep(p) ==
  \/ Check(p)
  \/ Post(p)
  \/ Posted(p)
  \/ Configure(p)
  \/ RegistrationFails(p)
  \/ Insert(p)
  \/ Load(p)
  \/ Truncate(p)
  \/ Saved(p)
  \/ SaveFails(p)
=============================================================================
