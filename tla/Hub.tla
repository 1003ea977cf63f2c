--------------------------------- MODULE Hub ---------------------------------
(***************************************************************************)
(* How the host learns of the views on ShinzoHub: the listing at start-up  *)
(* (pkg/shinzohub/query.go, pkg/host/host.go), the local registry file,    *)
(* and the event subscription (pkg/shinzohub/events.go) whose loop reads a *)
(* WebSocket, reconnects, fetches the announced bundles and hands them to  *)
(* the handler over a bounded channel.  Registering and saving a view is   *)
(* in module Views.                                                        *)
(*                                                                         *)
(* The hub keeps its views and announces each one once, to whoever is      *)
(* subscribed at that moment.  The process may crash anywhere; the store,  *)
(* the file and the WASM files survive.                                    *)
(***************************************************************************)
EXTENDS Views

CONSTANTS PageLimit,     \* views in a page of the listing
          Queries,       \* subscription queries, each answered before the next
          Capacity,      \* of the event channel
          Attempts,      \* hydrateMaxAttempts
          PanicReads,    \* reads of a failed connection before the library panics
          MaxStarts      \* bound: starts of the host

ASSUME HubAssumption ==
  /\ PageLimit \in Nat \ {0} /\ Queries \in Nat \ {0} /\ Capacity \in Nat \ {0}
  /\ Attempts \in Nat \ {0} /\ PanicReads \in Nat \ {0} /\ MaxStarts \in Nat

VARIABLES
  hub,       \* the views registered on the hub
  phase,     \* how far the host is
  cursor,    \* the key after which the next page of the listing begins
  todo,      \* the views still to be loaded
  urls,      \* the views whose WASM is still to be ensured
  conn,      \* the WebSocket: its state, the queries sent on it, the reads that failed
  wire,      \* messages on the socket: announced views, and Answer
  owed,      \* queries sent on it that the hub has not answered
  loop,      \* the event loop: where it is, with which view, at which attempt
  chan,      \* the event channel
  closed,    \* is it closed?
  stopping,  \* the contexts of the loop and of the handler are cancelled
  starts,
  \* history, for the process at hand
  lost,      \* views on the hub that were not listed to it and not heard by it
  dropped,   \* views whose bundle could not be fetched or decoded
  kept       \* the names in views.json when it started

startVars == <<phase, cursor, todo, urls, starts, kept>>
socketVars == <<conn, wire, owed>>
loopVars == <<loop, chan, closed>>
vars == <<viewVars, hub, startVars, socketVars, loopVars, stopping, lost, dropped>>

viewRest == <<file, wasm, defs, active, gauge, task, refused, saved>>

\* The hub's answer to a query or to a ping.
Answer == 0

NoConn == [st |-> "none", k |-> 0]
Off == [pc |-> "off", v |-> NoView, try |-> 0]
Dead == [pc |-> "dead", v |-> NoView, try |-> 0]

\* The views among some messages.
Announced(msgs) == {v \in View : \E i \in DOMAIN msgs : msgs[i] = v}

TypeOK ==
  /\ file = Torn \/ \A x \in Range(file) : x.id \in View
  /\ wasm \in [View -> {"absent", "torn", "whole"}]
  /\ defs \in [Name -> View \cup {NoView}]
  /\ \A n \in Active : active[n] \in View /\ defs[n] # NoView
  /\ hub \subseteq View /\ lost \subseteq hub /\ dropped \subseteq hub /\ urls \subseteq View
  /\ phase \in {"down", "fetch", "local", "wasm", "register", "dial", "running"}
  /\ conn.st \in {"none", "ask", "reply", "up", "cut", "expired"}
  /\ owed \in 0..Queries
  /\ loop.pc \in {"off", "read", "hydrate", "send", "backoff", "dialing", "dead"}
  /\ Len(chan) <= Capacity
  /\ stopping => phase = "running"

Init ==
  /\ ViewsInit
  /\ hub = {} /\ lost = {} /\ dropped = {}
  /\ phase = "down" /\ cursor = 0 /\ todo = <<>> /\ urls = {}
  /\ conn = NoConn /\ wire = <<>> /\ owed = 0
  /\ loop = Off /\ chan = <<>> /\ closed = FALSE /\ stopping = FALSE
  /\ starts = 0 /\ kept = {}

-----------------------------------------------------------------------------
(* The hub and the process.                                                *)

\* The hub has answered the first query, the one for registered views.
Subscribed == conn.st \in {"ask", "reply", "up"} /\ conn.k > owed

\* Someone registers a view on the hub.
HubRegisters(v) ==
  /\ v \notin hub
  /\ hub' = hub \cup {v}
  /\ IF Subscribed
       THEN wire' = Append(wire, v) /\ lost' = lost
       ELSE lost' = lost \cup {v} /\ wire' = wire
  /\ UNCHANGED <<viewVars, startVars, conn, owed, loopVars, stopping, dropped>>

\* The hub answers the query that has waited longest, when it pleases: it may never do so.
HubAnswers ==
  /\ owed > 0
  /\ owed' = owed - 1
  /\ wire' = Append(wire, Answer)
  /\ UNCHANGED <<viewVars, hub, startVars, conn, loopVars, stopping, lost, dropped>>

Start ==
  /\ phase = "down"
  /\ starts < MaxStarts
  /\ starts' = starts + 1
  /\ phase' = "fetch"
  /\ kept' = IF file = Torn THEN {} ELSE NamesIn(file)
  /\ UNCHANGED <<viewVars, hub, cursor, todo, urls, socketVars, loopVars, stopping, lost, dropped>>

\* What is left of the process when it ends.
Vanish ==
  /\ phase' = "down" /\ cursor' = 0 /\ todo' = <<>> /\ urls' = {} /\ kept' = {}
  /\ conn' = NoConn /\ wire' = <<>> /\ owed' = 0
  /\ loop' = Off /\ chan' = <<>> /\ closed' = FALSE /\ stopping' = FALSE
  /\ active' = Unset /\ gauge' = 0 /\ refused' = {}
  /\ task' = [main |-> Idle, handler |-> Gone]
  /\ lost' = hub /\ dropped' = {}
  /\ UNCHANGED <<file, wasm, defs, saved, hub, starts>>

\* The process crashes, or ends after Close, which does not wait for the goroutines.
Exit ==
  /\ phase # "down"
  /\ faults' = faults
  /\ Vanish

-----------------------------------------------------------------------------
(* StartHosting: FetchAllRegisteredViews and LoadAndRegisterViews.         *)

\* The page after the cursor.
Page ==
  {v \in hub : v > cursor /\ Cardinality({u \in hub : cursor < u /\ u <= v}) <= PageLimit}

\* decodeLCDViews: a bundle that is missing or malformed is skipped.
DecodeLCDViews(vs) ==
  {[k \in DOMAIN f |-> Fetched(f[k])] : f \in Listings({v \in vs : Decodes(v)})}

\* A page is read; next_key is empty when nothing follows it.
FetchPage ==
  /\ phase = "fetch"
  /\ \E views \in DecodeLCDViews(Page) : todo' = todo \o views
  /\ lost' = lost \ Page
  /\ dropped' = dropped \cup {v \in Page : ~Decodes(v)}
  /\ cursor' = IF Page = {} THEN cursor ELSE CHOOSE v \in Page : \A u \in Page : u <= v
  /\ phase' = IF \E v \in hub : v > cursor' THEN "fetch" ELSE "local"
  /\ UNCHANGED <<viewVars, hub, urls, starts, kept, socketVars, loopVars, stopping>>

\* A page fails: the views of the pages before it are used all the same.
FetchFails ==
  /\ phase = "fetch"
  /\ Fault
  /\ phase' = "local"
  /\ UNCHANGED <<viewRest, hub, cursor, todo, urls, starts, kept, socketVars, loopVars,
                 stopping, lost, dropped>>

\* Variant: the file is read only when the hub listed nothing.
LocalIfNothingListed == IF file = Torn \/ todo # <<>> THEN <<>> ELSE file

\* AddViewsFromLensRegistry: a file that does not parse gives no views.
LocalViews == IF file = Torn THEN <<>> ELSE file

\* The hub's views and the local ones, one of each name; the WASM of those with a URL is
\* to be ensured.
LoadLocal ==
  /\ phase = "local"
  /\ todo' \in Deduplicate(todo \o LocalViews)
  /\ urls' = {x.id : x \in {y \in Range(todo') : y.lens = "http"}}
  /\ phase' = "wasm"
  /\ UNCHANGED <<viewVars, hub, cursor, starts, kept, socketVars, loopVars, stopping, lost, dropped>>

\* EnsureWASM: the file is there, or is downloaded next to its place and renamed; a failed
\* download leaves nothing, and the view is registered all the same.
EnsureWASM(v) ==
  /\ phase = "wasm"
  /\ v \in urls
  /\ urls' = urls \ {v}
  /\ \/ wasm' = [wasm EXCEPT ![v] = "whole"] /\ faults' = faults
     \/ wasm[v] # "whole" /\ wasm' = wasm /\ Fault
  /\ UNCHANGED <<file, defs, active, gauge, task, refused, saved, hub, phase, cursor,
                 todo, starts, kept, socketVars, loopVars, stopping, lost, dropped>>

Ensured ==
  /\ phase = "wasm"
  /\ urls = {}
  /\ phase' = "register"
  /\ UNCHANGED <<viewVars, hub, cursor, todo, urls, starts, kept, socketVars, loopVars,
                 stopping, lost, dropped>>

\* The next view is registered and saved, whatever became of the one before.
LoadNext ==
  /\ phase = "register"
  /\ todo # <<>>
  /\ At("main", "idle")
  /\ Begin("main", Head(todo))
  /\ todo' = Tail(todo)
  /\ UNCHANGED <<file, wasm, defs, active, gauge, faults, refused, saved, hub, phase, cursor,
                 urls, starts, kept, socketVars, loopVars, stopping, lost, dropped>>

\* All views are loaded; the P2P network and the pipeline start before the subscription.
Loaded ==
  /\ phase = "register"
  /\ todo = <<>>
  /\ At("main", "idle")
  /\ phase' = "dial"
  /\ UNCHANGED <<viewVars, hub, cursor, todo, urls, starts, kept, socketVars, loopVars,
                 stopping, lost, dropped>>

-----------------------------------------------------------------------------
(* dialAndSubscribe, by StartEventSubscription and again by reconnect.     *)

Dialing == phase = "dial" \/ loop.pc = "dialing"

Dial ==
  /\ Dialing
  /\ conn = NoConn
  /\ conn' = [st |-> "ask", k |-> 0]
  /\ UNCHANGED <<viewVars, hub, startVars, wire, owed, loopVars, stopping, lost, dropped>>

\* The next query is sent.
Ask ==
  /\ Dialing
  /\ conn.st = "ask"
  /\ conn' = [st |-> "reply", k |-> conn.k + 1]
  /\ owed' = owed + 1
  /\ UNCHANGED <<viewVars, hub, startVars, wire, loopVars, stopping, lost, dropped>>

\* The loop's next iteration: it ends when its context is cancelled.
Top == loop' = IF stopping THEN Dead ELSE [Off EXCEPT !.pc = "read"]
ClosedBy == closed' = (closed \/ loop'.pc = "dead")

\* The next message is taken for the answer, whatever it is; the read has neither a
\* deadline nor the loop's context, so a hub that sends nothing holds it.  After the last one the loop
\* (and, at start-up, the handler) begins.
Reply ==
  /\ Dialing
  /\ conn.st = "reply"
  /\ wire # <<>>
  /\ wire' = Tail(wire)
  /\ lost' = lost \cup Announced(<<Head(wire)>>)
  /\ IF conn.k < Queries
       THEN /\ conn' = [conn EXCEPT !.st = "ask"]
            /\ UNCHANGED <<loop, closed, phase, task>>
       ELSE /\ conn' = [conn EXCEPT !.st = "up"]
            /\ Top /\ ClosedBy
            /\ phase' = "running"
            /\ task' = IF phase = "dial" THEN [task EXCEPT !.handler = Idle] ELSE task
  /\ UNCHANGED <<file, wasm, defs, active, gauge, faults, refused, saved, hub, cursor, todo,
                 urls, starts, kept, owed, chan, stopping, dropped>>

\* The dial fails: the loop backs off; at start-up StartHosting returns the error and the
\* process ends.
DialFails ==
  /\ Dialing
  /\ Fault
  /\ IF phase = "dial"
       THEN Vanish
       ELSE /\ conn' = NoConn /\ wire' = <<>> /\ owed' = 0
            /\ lost' = lost \cup Announced(wire)
            /\ loop' = [Off EXCEPT !.pc = "backoff"]
            /\ UNCHANGED <<viewRest, hub, startVars, chan, closed, stopping, dropped>>

-----------------------------------------------------------------------------
(* The socket.                                                             *)

\* The connection breaks with what is on it.
Breaks ==
  /\ conn.st = "up"
  /\ Fault
  /\ conn' = [conn EXCEPT !.st = "cut"]
  /\ wire' = <<>> /\ owed' = 0
  /\ lost' = lost \cup Announced(wire)
  /\ UNCHANGED <<viewRest, hub, startVars, loopVars, stopping, dropped>>

\* Nothing has come for readTimeout, although startPing asks for the status twice in that
\* time: the read fails, and the library fails every later read of the connection alike.
Expires ==
  /\ conn.st = "up"
  /\ wire = <<>>
  /\ loop.pc = "read"
  /\ Fault
  /\ conn' = [st |-> "expired", k |-> 0]
  /\ owed' = 0
  /\ UNCHANGED <<viewRest, hub, startVars, wire, loopVars, stopping, lost, dropped>>

\* The hub answers a ping.
Pong ==
  /\ conn.st = "up"
  /\ wire = <<>>
  /\ wire' = <<Answer>>
  /\ UNCHANGED <<viewVars, hub, startVars, conn, owed, loopVars, stopping, lost, dropped>>

-----------------------------------------------------------------------------
(* eventLoop.                                                              *)

\* A message: answers are no events (extractShinzoEvents), a view has to be fetched.
Read ==
  /\ loop.pc = "read"
  /\ conn.st = "up"
  /\ wire # <<>>
  /\ wire' = Tail(wire)
  /\ IF Head(wire) = Answer
       THEN Top
       ELSE loop' = [pc |-> "hydrate", v |-> Head(wire), try |-> 1]
  /\ ClosedBy
  /\ UNCHANGED <<viewVars, hub, startVars, conn, owed, chan, stopping, lost, dropped>>

\* hydrateViewBundle: the bundle has been fetched; one that does not decode is dropped.
Hydrate ==
  /\ loop.pc = "hydrate"
  /\ IF Decodes(loop.v)
       THEN loop' = [loop EXCEPT !.pc = "send"] /\ dropped' = dropped
       ELSE Top /\ dropped' = dropped \cup {loop.v}
  /\ ClosedBy
  /\ UNCHANGED <<viewVars, hub, startVars, socketVars, chan, stopping, lost>>

\* The fetch fails.  A transient error is tried again a number of times, another, or the
\* end of the context, drops the event.
HydrateFails ==
  /\ loop.pc = "hydrate"
  /\ Fault \/ (stopping /\ faults' = faults)
  /\ \/ /\ ~stopping
        /\ loop.try < Attempts
        /\ loop' = [loop EXCEPT !.try = @ + 1]
        /\ dropped' = dropped
     \/ Top /\ dropped' = dropped \cup {loop.v}
  /\ ClosedBy
  /\ UNCHANGED <<viewRest, hub, startVars, socketVars, chan, stopping, lost>>

\* Variants: an event that does not fit is not sent; the end of the context is not awaited.
SendOrSkip ==
  /\ loop.pc = "send"
  /\ chan' = IF Len(chan) < Capacity THEN Append(chan, loop.v) ELSE chan
  /\ Top
  /\ ClosedBy
  /\ UNCHANGED <<viewVars, hub, startVars, socketVars, stopping, lost, dropped>>

SendOnly ==
  /\ loop.pc = "send"
  /\ Len(chan) < Capacity
  /\ chan' = Append(chan, loop.v)
  /\ Top
  /\ ClosedBy
  /\ UNCHANGED <<viewVars, hub, startVars, socketVars, stopping, lost, dropped>>

\* dispatchEvents waits for room in the channel or for the end of the context.
Send ==
  /\ loop.pc = "send"
  /\ \/ /\ Len(chan) < Capacity
        /\ chan' = Append(chan, loop.v)
        /\ Top
     \/ /\ stopping
        /\ loop' = Dead
        /\ chan' = chan
  /\ ClosedBy
  /\ UNCHANGED <<viewVars, hub, startVars, socketVars, stopping, lost, dropped>>

\* The context is cancelled: a read returns, at the latest at its deadline, and the wait
\* for the next dial ends.
LoopStops ==
  /\ stopping
  /\ loop.pc \in {"read", "backoff"}
  /\ loop' = Dead
  /\ ClosedBy
  /\ UNCHANGED <<viewVars, hub, startVars, socketVars, chan, stopping, lost, dropped>>

\* handleReadError: a connection that broke is closed; the loop dials after the backoff.
ReadFails ==
  /\ loop.pc = "read"
  /\ conn.st = "cut"
  /\ ~stopping
  /\ conn' = NoConn
  /\ loop' = [Off EXCEPT !.pc = "backoff"]
  /\ UNCHANGED <<viewVars, hub, startVars, wire, owed, chan, closed, stopping, lost, dropped>>

\* reconnect: the backoff is over.
Redial ==
  /\ loop.pc = "backoff"
  /\ loop' = [Off EXCEPT !.pc = "dialing"]
  /\ UNCHANGED <<viewVars, hub, startVars, socketVars, chan, closed, stopping, lost, dropped>>

\* A timeout keeps the connection and reads it again.  The library counts the reads of a
\* failed connection and panics in the end; recoverPanic ends the loop.
ReadAgain ==
  /\ loop.pc = "read"
  /\ conn.st = "expired"
  /\ ~stopping
  /\ conn' = [conn EXCEPT !.k = @ + 1]
  /\ loop' = IF conn'.k < PanicReads THEN loop ELSE Dead
  /\ ClosedBy
  /\ UNCHANGED <<viewVars, hub, startVars, wire, owed, chan, stopping, lost, dropped>>

LoopStep ==
  \/ Dial \/ Ask \/ Reply
  \/ Read \/ Hydrate \/ HydrateFails \/ Send
  \/ LoopStops \/ ReadFails \/ Redial \/ ReadAgain

-----------------------------------------------------------------------------
(* handleIncomingEvents and Close.                                         *)

Take ==
  /\ At("handler", "idle")
  /\ chan # <<>>
  /\ chan' = Tail(chan)
  /\ Begin("handler", Fetched(Head(chan)))
  /\ UNCHANGED <<file, wasm, defs, active, gauge, faults, refused, saved, hub, startVars,
                 socketVars, loop, closed, stopping, lost, dropped>>

\* The context is cancelled or the channel is closed and empty.
HandlerExit ==
  /\ At("handler", "idle")
  /\ stopping \/ (closed /\ chan = <<>>)
  /\ task' = [task EXCEPT !.handler = Gone]
  /\ UNCHANGED <<file, wasm, defs, active, gauge, faults, refused, saved, hub, startVars,
                 socketVars, loopVars, stopping, lost, dropped>>

\* DefraDB refuses the handler's calls when its context is cancelled.
Cancelled ==
  /\ stopping
  /\ At("handler", "lens")
  /\ GiveUp("handler")
  /\ UNCHANGED <<file, wasm, defs, active, gauge, faults, saved, hub, startVars, socketVars,
                 loopVars, stopping, lost, dropped>>

\* Host.Close cancels both contexts and waits for neither goroutine.
Close ==
  /\ phase = "running"
  /\ ~stopping
  /\ stopping' = TRUE
  /\ UNCHANGED <<viewVars, hub, startVars, socketVars, loopVars, lost, dropped>>

MainStep ==
  \/ FetchPage \/ FetchFails \/ LoadLocal
  \/ \E v \in View : EnsureWASM(v)
  \/ Ensured \/ LoadNext \/ Loaded

HandlerStep == Take \/ HandlerExit \/ Cancelled

RegisterStepOf(p) ==
  /\ RegisterStep(p)
  /\ UNCHANGED <<hub, startVars, socketVars, loopVars, stopping, lost, dropped>>

Next ==
  \/ \E v \in View : HubRegisters(v)
  \/ Start
  \/ Exit
  \/ MainStep
  \/ \E p \in Proc : RegisterStepOf(p)
  \/ HubAnswers \/ DialFails \/ Breaks \/ Expires \/ Pong
  \/ LoopStep
  \/ HandlerStep
  \/ Close

Spec == Init /\ [][Next]_vars

\* The host's goroutines run; the hub and the network owe nothing.
Fairness ==
  /\ WF_vars(LoopStep)
  /\ WF_vars(HandlerStep)
  /\ \A p \in Proc : WF_vars(RegisterStepOf(p))

FairSpec == Spec /\ Fairness

-----------------------------------------------------------------------------
(* Properties.                                                             *)

\* The views the process has heard of and not dealt with.
InFlight ==
  Announced(wire) \cup Announced(chan) \cup {loop.v} \cup
  {task[p].x.id : p \in {q \in Proc : task[q].x # <<>>}}

RefusedNames == {NameOf[v] : v \in refused}

(***************************************************************************)
(* While the subscription is alive no announcement disappears between the  *)
(* socket and the manager: every view on the hub is active, in flight,     *)
(* given up for a reason that was logged, or was neither listed to this    *)
(* process nor heard by it.  A view that shares its name with another one  *)
(* shares its fate: deduplicateViews leaves only the first of them, and    *)
(* the second is not tried when the first is given up.                     *)
(***************************************************************************)
Accounted ==
  phase = "running" /\ ~stopping =>
    \A v \in hub : \/ NameOf[v] \in Active \cup RefusedNames
                   \/ v \in InFlight \cup dropped \cup lost

(***************************************************************************)
(* "Persist view to local registry for next startup": whatever the hub     *)
(* answers, a host that has loaded its views has every view of the         *)
(* registry file active again, but for those it had to give up.            *)
(***************************************************************************)
Recovered ==
  phase \in {"dial", "running"} =>
    kept \subseteq Active \cup RefusedNames

(***************************************************************************)
(* A save keeps the entries of all other views, although the file is read, *)
(* truncated and written in separate steps, and an entry can be registered *)
(* again as it is: "with any auto-corrections applied", its lens a file.   *)
(***************************************************************************)
RegistryKeeps ==
  file # Torn =>
    /\ saved \subseteq NamesIn(file)
    /\ \A x \in Range(file) : x.flaws = {} /\ ~Inline(x)

(***************************************************************************)
(* An event that reaches the socket of a host that stays up is dealt with, *)
(* unless the connection breaks, is silent for too long or the host is     *)
(* closed: a full channel only delays it.                                  *)
(***************************************************************************)
EventsHandled ==
  \A v \in View :
    v \in Announced(wire) ~>
      \/ NameOf[v] \in Active \cup RefusedNames
      \/ v \in dropped \cup lost
      \/ stopping \/ phase = "down"

\* The loop waits in reconnect for an answer of the hub.
Waiting == loop.pc = "dialing" /\ conn.st = "reply" /\ wire = <<>>

(***************************************************************************)
(* Close ends the handler and the event loop: neither stays behind on a    *)
(* full channel, in a backoff or in a read of a live subscription.  The    *)
(* loop's end depends on the hub in one place: the read of a               *)
(* subscription's answer has no deadline, and Close does not reach it.     *)
(***************************************************************************)
ShutsDown ==
  /\ stopping ~> At("handler", "gone") \/ phase = "down"
  /\ []<>(~Waiting) => (stopping ~> loop = Dead \/ phase = "down")
=============================================================================
