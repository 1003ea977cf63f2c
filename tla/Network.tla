------------------------------- MODULE Network -------------------------------
(***************************************************************************)
(* The P2P network handler (pkg/defradb/network_handler.go): one thread    *)
(* starts and stops the network, peers are added and removed at any time,  *)
(* and while the network is active a reconnection loop, a listener for     *)
(* no-peers events and one goroutine per reconnection attempt work on the  *)
(* peers.  Every access to the peers is made under peersMu, which          *)
(* connectWithRetryLocked releases while it dials and while it backs off;  *)
(* StopNetwork cancels the context and waits for every goroutine.          *)
(*                                                                         *)
(* A goroutine dials for the PeerState it found: a peer that is removed    *)
(* and added again has a new one, and an old dialer has lost its own.      *)
(***************************************************************************)
EXTENDS Integers

CONSTANTS Addr,        \* peer addresses
          Control,     \* the thread that starts and stops the network
          Attempt,     \* goroutines of attemptReconnect that have begun
          MaxRetries,  \* P2P.MaxRetries
          MaxPending,  \* bound: attempts for an address that have not begun
          EnableAutoReconnect

ASSUME NetworkAssumption ==
  /\ Control \notin Attempt
  /\ MaxRetries \in Nat \ {0}   \* NewNetworkHandler replaces 0
  /\ MaxPending \in Nat \ {0}
  /\ EnableAutoReconnect \in BOOLEAN

Dialer == Attempt \cup {Control}

VARIABLES
  active,     \* networkActive
  cancelled,  \* the context is cancelled
  peers,      \* the state of each peer, "none" if it is not in the map
  control,    \* what the control thread is doing
  todo,       \* the peers StartNetwork has not visited yet
  pending,    \* attempts that wait for the lock
  dialer,     \* the goroutines in connectWithRetryLocked
  loop,       \* the reconnection loop
  seen,       \* the peers checkPeerHealth found active
  listener,   \* the no-peers listener
  \* the network
  up,         \* addresses that can be reached
  links       \* open connections

handlerVars == <<active, cancelled, control, todo>>
loopVars == <<loop, seen, listener>>
netVars == <<up, links>>
vars == <<handlerVars, peers, pending, dialer, loopVars, netVars>>

PeerState == {"none", "Disconnected", "Connecting", "Connected", "Failed"}

Idle == [pc |-> "idle"]
Job == [pc : {"dial", "backoff"}, addr : Addr, own : BOOLEAN, attempt : 1..MaxRetries]

TypeOK ==
  /\ active \in BOOLEAN /\ cancelled \in BOOLEAN
  /\ peers \in [Addr -> PeerState]
  /\ control \in {"idle", "starting", "stopping"}
  /\ todo \subseteq Addr
  /\ pending \in [Addr -> 0..MaxPending]
  /\ dialer \in [Dialer -> Job \cup {Idle}]
  /\ loop \in {"none", "wait", "mark", "list"}
  /\ listener \in {"none", "wait", "force", "list"}
  /\ seen \subseteq Addr /\ up \subseteq Addr /\ links \subseteq Addr

Working(d) == dialer[d].pc # "idle"
Known == {a \in Addr : peers[a] # "none"}

\* The goroutines that work on the peer in the map.
DialersOf(a) == {d \in Dialer : Working(d) /\ dialer[d].addr = a /\ dialer[d].own}

\* NewNetworkHandler.
Init ==
  /\ active = FALSE /\ cancelled = FALSE
  /\ peers \in [Addr -> {"none", "Disconnected"}]
  /\ control = "idle" /\ todo = {}
  /\ pending = [a \in Addr |-> 0]
  /\ dialer = [d \in Dialer |-> Idle]
  /\ loop = "none" /\ seen = {} /\ listener = "none"
  /\ up \in SUBSET Addr /\ links = {}

-----------------------------------------------------------------------------
(* connectWithRetryLocked.                                                 *)

\* The state of its peer, if it still is in the map, and the end of the job.
Return(d, state) ==
  /\ peers' = IF dialer[d].own THEN [peers EXCEPT ![dialer[d].addr] = state] ELSE peers
  /\ dialer' = [dialer EXCEPT ![d] = Idle]

Dial(d, a) ==
  /\ peers' = [peers EXCEPT ![a] = "Connecting"]
  /\ dialer' = [dialer EXCEPT ![d] = [pc |-> "dial", addr |-> a, own |-> TRUE, attempt |-> 1]]

\* connectToPeers connects, or finds itself connected; a cancelled context may be too late.
DialSucceeds(d) ==
  /\ Working(d) /\ dialer[d].pc = "dial"
  /\ dialer[d].addr \in up
  /\ links' = links \cup {dialer[d].addr}
  /\ Return(d, "Connected")
  /\ UNCHANGED <<handlerVars, pending, loopVars, up>>

\* Variant: a cancelled attempt leaves its peer as it is.
DialFailsLeaving(d) ==
  /\ Working(d) /\ dialer[d].pc = "dial"
  /\ cancelled \/ dialer[d].addr \notin up
  /\ IF cancelled
       THEN Return(d, peers[dialer[d].addr])
       ELSE /\ dialer' = [dialer EXCEPT ![d].pc = "backoff"]
            /\ UNCHANGED peers
  /\ UNCHANGED <<handlerVars, pending, loopVars, netVars>>

\* It fails: back to the caller if the context is cancelled, else wait.
DialFails(d) ==
  /\ Working(d) /\ dialer[d].pc = "dial"
  /\ cancelled \/ dialer[d].addr \notin up
  /\ IF cancelled
       THEN Return(d, "Disconnected")
       ELSE /\ dialer' = [dialer EXCEPT ![d].pc = "backoff"]
            /\ UNCHANGED peers
  /\ UNCHANGED <<handlerVars, pending, loopVars, netVars>>

\* The delay is over: the next attempt, or none is left.
BackoffEnds(d) ==
  /\ Working(d) /\ dialer[d].pc = "backoff"
  /\ IF dialer[d].attempt < MaxRetries
       THEN /\ dialer' = [dialer EXCEPT ![d].pc = "dial", ![d].attempt = @ + 1]
            /\ UNCHANGED peers
       ELSE Return(d, "Failed")
  /\ UNCHANGED <<handlerVars, pending, loopVars, netVars>>

BackoffCancelled(d) ==
  /\ Working(d) /\ dialer[d].pc = "backoff"
  /\ cancelled
  /\ Return(d, "Disconnected")
  /\ UNCHANGED <<handlerVars, pending, loopVars, netVars>>

-----------------------------------------------------------------------------
(* attemptReconnect.                                                       *)

\* Attempts for these addresses are spawned, up to the bound.
Spawned(addrs) ==
  [a \in Addr |-> IF a \in addrs /\ pending[a] < MaxPending THEN pending[a] + 1 ELSE pending[a]]

\* Variant: whatever the peer's state.
BeginAttemptAlways(d, a) ==
  /\ pending[a] > 0 /\ ~Working(d)
  /\ peers[a] \in {"Disconnected", "Failed", "Connecting"}
  /\ pending' = [pending EXCEPT ![a] = @ - 1]
  /\ Dial(d, a)
  /\ UNCHANGED <<handlerVars, loopVars, netVars>>

\* The peer is there and nobody is connecting it.
BeginAttempt(d, a) ==
  /\ pending[a] > 0 /\ ~Working(d)
  /\ peers[a] \in {"Disconnected", "Failed"}
  /\ pending' = [pending EXCEPT ![a] = @ - 1]
  /\ Dial(d, a)
  /\ UNCHANGED <<handlerVars, loopVars, netVars>>

\* It was removed, is connected or is being connected.
DropAttempt(a) ==
  /\ pending[a] > 0
  /\ peers[a] \in {"none", "Connected", "Connecting"}
  /\ pending' = [pending EXCEPT ![a] = @ - 1]
  /\ UNCHANGED <<handlerVars, peers, dialer, loopVars, netVars>>

-----------------------------------------------------------------------------
(* StartNetwork and StopNetwork.  The handler is toggled by one thread; a  *)
(* call that finds the network as it wants it returns at once.             *)

StartNetwork ==
  /\ control = "idle" /\ ~active
  /\ control' = "starting"
  /\ todo' = Known
  /\ UNCHANGED <<active, cancelled, peers, pending, dialer, loopVars, netVars>>

\* Each peer in turn.
Visit(a) ==
  /\ control = "starting" /\ ~Working(Control)
  /\ a \in todo
  /\ todo' = todo \ {a}
  /\ Dial(Control, a)
  /\ UNCHANGED <<active, cancelled, control, pending, loopVars, netVars>>

\* All visited: the network is active, and startReconnectionLoop.  When the subscription
\* to the no-peers events fails there is no listener.
Started ==
  /\ control = "starting" /\ ~Working(Control)
  /\ todo = {}
  /\ active' = TRUE
  /\ control' = "idle"
  /\ loop' = IF EnableAutoReconnect THEN "wait" ELSE loop
  /\ listener' \in IF EnableAutoReconnect THEN {"wait", "none"} ELSE {listener}
  /\ UNCHANGED <<cancelled, peers, todo, pending, dialer, seen, netVars>>

Disconnected == [a \in Addr |-> IF a \in Known THEN "Disconnected" ELSE "none"]

\* Variant: the loop is only told through reconnectStop, which is nil when it looks again.
StopUncancelled ==
  /\ control = "idle" /\ active
  /\ control' = "stopping"
  /\ active' = FALSE
  /\ peers' = Disconnected
  /\ UNCHANGED <<cancelled, todo, pending, dialer, loopVars, netVars>>

\* Up to the wait.  The connections stay open.
StopNetwork ==
  /\ control = "idle" /\ active
  /\ control' = "stopping"
  /\ active' = FALSE
  /\ cancelled' = TRUE
  /\ peers' = Disconnected
  /\ UNCHANGED <<todo, pending, dialer, loopVars, netVars>>

\* The wait group's goroutines.
AtWork ==
  \/ loop # "none" \/ listener # "none"
  \/ \E a \in Addr : pending[a] > 0
  \/ \E d \in Attempt : Working(d)

\* Variant: only the loop and the listener are waited for.
StoppedEarly ==
  /\ control = "stopping"
  /\ loop = "none" /\ listener = "none"
  /\ control' = "idle"
  /\ cancelled' = FALSE
  /\ UNCHANGED <<active, todo, peers, pending, dialer, loopVars, netVars>>

\* wg.Wait returns, and a new context is made.
Stopped ==
  /\ control = "stopping"
  /\ ~AtWork
  /\ control' = "idle"
  /\ cancelled' = FALSE
  /\ UNCHANGED <<active, todo, peers, pending, dialer, loopVars, netVars>>

-----------------------------------------------------------------------------
(* AddPeer and RemovePeer.                                                 *)

\* An entry added while StartNetwork ranges over the map is visited or not.
AddPeer(a) ==
  /\ peers[a] = "none"
  /\ peers' = [peers EXCEPT ![a] = "Disconnected"]
  /\ pending' = IF active THEN Spawned({a}) ELSE pending
  /\ \/ UNCHANGED todo
     \/ control = "starting" /\ todo' = todo \cup {a}
  /\ UNCHANGED <<active, cancelled, control, dialer, loopVars, netVars>>

\* An entry removed before it is visited is not visited.  A goroutine that works on the
\* peer goes on with a PeerState nobody sees.
RemovePeer(a) ==
  /\ peers[a] # "none"
  /\ peers' = [peers EXCEPT ![a] = "none"]
  /\ todo' = todo \ {a}
  /\ dialer' = [d \in Dialer |->
                  IF d \in DialersOf(a) THEN [dialer[d] EXCEPT !.own = FALSE] ELSE dialer[d]]
  /\ UNCHANGED <<active, cancelled, control, pending, loopVars, netVars>>

-----------------------------------------------------------------------------
(* The reconnection loop.                                                  *)

\* The ticker fires, and checkPeerHealth asks for the active peers; without an answer it
\* is over.  DefraDB answers as long as the context lives.
Tick ==
  /\ loop = "wait"
  /\ \/ loop' = "mark" /\ seen' = links
     \/ cancelled /\ loop' = "list" /\ UNCHANGED seen
  /\ UNCHANGED <<handlerVars, peers, pending, dialer, listener, netVars>>

\* Peers that were connected and have not been seen are not any more.
Mark ==
  /\ loop = "mark"
  /\ peers' = [a \in Addr |-> IF peers[a] = "Connected" /\ a \notin seen THEN "Disconnected"
                                                                         ELSE peers[a]]
  /\ loop' = "list" /\ seen' = {}
  /\ UNCHANGED <<handlerVars, pending, dialer, listener, netVars>>

\* Variant: failed peers have been given up.
DownOnly == {a \in Addr : peers[a] = "Disconnected"}

\* reconnectDisconnectedPeers: the peers to reconnect.
Down == {a \in Addr : peers[a] \in {"Disconnected", "Failed"}}

Reconnect ==
  /\ loop = "list"
  /\ pending' = Spawned(Down)
  /\ loop' = "wait"
  /\ UNCHANGED <<handlerVars, peers, dialer, seen, listener, netVars>>

LoopExit ==
  /\ loop = "wait" /\ cancelled
  /\ loop' = "none"
  /\ UNCHANGED <<handlerVars, peers, pending, dialer, seen, listener, netVars>>

-----------------------------------------------------------------------------
(* The no-peers listener.                                                  *)

\* A publish found no peer, and there is no active peer.
NoPeers ==
  /\ listener = "wait"
  /\ links = {}
  /\ listener' = "force"
  /\ UNCHANGED <<handlerVars, peers, pending, dialer, loop, seen, netVars>>

\* forceReconnectAll.
ForceReconnectAll ==
  /\ listener = "force"
  /\ peers' = [a \in Addr |-> IF peers[a] = "Connected" THEN "Disconnected" ELSE peers[a]]
  /\ listener' = "list"
  /\ UNCHANGED <<handlerVars, pending, dialer, loop, seen, netVars>>

ListenerReconnect ==
  /\ listener = "list"
  /\ pending' = Spawned(Down)
  /\ listener' = "wait"
  /\ UNCHANGED <<handlerVars, peers, dialer, loop, seen, netVars>>

\* The context is cancelled.
ListenerExit ==
  /\ listener = "wait" /\ cancelled
  /\ listener' = "none"
  /\ UNCHANGED <<handlerVars, peers, pending, dialer, loop, seen, netVars>>

\* The event bus closes the channel of events: the listener is gone until the next start.
ListenerClosed ==
  /\ listener = "wait"
  /\ listener' = "none"
  /\ UNCHANGED <<handlerVars, peers, pending, dialer, loop, seen, netVars>>

-----------------------------------------------------------------------------
(* The network.                                                            *)

GoesDown(a) ==
  /\ a \in up
  /\ up' = up \ {a} /\ links' = links \ {a}
  /\ UNCHANGED <<handlerVars, peers, pending, dialer, loopVars>>

ComesUp(a) ==
  /\ a \notin up
  /\ up' = up \cup {a}
  /\ UNCHANGED <<handlerVars, peers, pending, dialer, loopVars, links>>

-----------------------------------------------------------------------------

DialStep(d) == DialSucceeds(d) \/ DialFails(d) \/ BackoffEnds(d) \/ BackoffCancelled(d)
Starting == (\E a \in Addr : Visit(a)) \/ Started
LoopStep == Tick \/ Mark \/ Reconnect
ListenerStep == ForceReconnectAll \/ ListenerReconnect
BeginsAttempt(a) == (\E d \in Attempt : BeginAttempt(d, a)) \/ DropAttempt(a)

Next ==
  \/ StartNetwork \/ Starting \/ StopNetwork \/ Stopped
  \/ \E a \in Addr : AddPeer(a) \/ RemovePeer(a) \/ BeginsAttempt(a)
  \/ \E d \in Dialer : DialStep(d)
  \/ LoopStep \/ LoopExit
  \/ NoPeers \/ ListenerStep \/ ListenerExit \/ ListenerClosed
  \/ \E a \in Addr : GoesDown(a) \/ ComesUp(a)

Spec == Init /\ [][Next]_vars

\* Goroutines run, dials return, delays end and the ticker fires.  A select takes each of
\* its ready cases sooner or later, and a lock or a free goroutine is got in the end.
Fairness ==
  /\ WF_vars(Starting) /\ WF_vars(Stopped)
  /\ \A d \in Dialer : WF_vars(DialStep(d))
  /\ \A a \in Addr : SF_vars(BeginsAttempt(a))
  /\ WF_vars(LoopStep) /\ SF_vars(LoopExit)
  /\ WF_vars(ListenerStep) /\ SF_vars(ListenerExit)

FairSpec == Spec /\ Fairness

-----------------------------------------------------------------------------
(* Properties.                                                             *)

(***************************************************************************)
(* A peer that is shown as connecting is being connected: attemptReconnect *)
(* leaves such a peer alone, so one nobody works on would never come back. *)
(***************************************************************************)
NoStrandedPeer == \A a \in Addr : peers[a] = "Connecting" => DialersOf(a) # {}

(***************************************************************************)
(* The ticker, the listener and AddPeer may all ask for the same peer, but *)
(* as long as the network is not being stopped one goroutine dials it.     *)
(***************************************************************************)
OneDialer == ~cancelled => \A a \in Addr : \A d, e \in DialersOf(a) : d = e

(***************************************************************************)
(* While the network is active its reconnection loop is alive, under a     *)
(* context that lives, however often the network has been stopped and      *)
(* started.  The listener may be missing: its subscription can fail and    *)
(* its channel can be closed.                                              *)
(***************************************************************************)
LoopAlive == active /\ EnableAutoReconnect => loop # "none" /\ ~cancelled

(***************************************************************************)
(* When StopNetwork has returned, nothing it started is at work.           *)
(***************************************************************************)
QuietStop == ~active /\ control # "stopping" => ~AtWork

\* The strengthening: the phases of the control thread, whose dials are StartNetwork's.
Phases ==
  /\ cancelled <=> control = "stopping"
  /\ active => control = "idle"
  /\ control # "starting" => ~Working(Control) /\ todo = {}
  /\ todo \subseteq Known

\* A peer in the map that is being dialed is known, and shown as connecting unless the
\* network is being stopped.
DialedPeers ==
  \A a \in Addr : DialersOf(a) # {} => /\ peers[a] # "none"
                                       /\ ~cancelled => peers[a] = "Connecting"

(***************************************************************************)
(* StopNetwork returns: nobody waits for a lock it holds, for a reply to a *)
(* cancelled dial, or for a channel that has been replaced.                *)
(***************************************************************************)
StopReturns == control = "stopping" ~> control = "idle"

(***************************************************************************)
(* "Automatically reconnect to failed/disconnected peers": a peer that     *)
(* stays in the map and within reach while the network stays active is     *)
(* connected again and again, whatever was lost or given up before, with   *)
(* or without a listener, and also when it was added in the middle of      *)
(* StartNetwork.                                                           *)
(***************************************************************************)
Reconnected ==
  \A a \in Addr :
    <>[](active /\ peers[a] # "none" /\ a \in up) => []<>(peers[a] = "Connected" /\ a \in links)
=============================================================================
