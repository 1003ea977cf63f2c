---------------------------- MODULE NetworkProofs ----------------------------
(***************************************************************************)
(* The network handler, for any peers, any number of goroutines and any    *)
(* retry limit: no peer is stranded as connecting, a peer is dialed by one *)
(* goroutine, the loop lives as long as the network is active, and nothing *)
(* is at work after a stop.                                                *)
(***************************************************************************)
EXTENDS Network, TLAPS

\* The type invariant, part by part.
FlagType == active \in BOOLEAN /\ cancelled \in BOOLEAN
PeerType == peers \in [Addr -> PeerState]
WorkType == /\ control \in {"idle", "starting", "stopping"}
            /\ todo \subseteq Addr
            /\ loop \in {"none", "wait", "mark", "list"}
            /\ listener \in {"none", "wait", "force", "list"}
            /\ seen \subseteq Addr /\ up \subseteq Addr /\ links \subseteq Addr
PendingType == pending \in [Addr -> 0..MaxPending]
DialerType == dialer \in [Dialer -> Job \cup {Idle}]

LEMMA TypeParts == TypeOK <=> FlagType /\ PeerType /\ WorkType /\ PendingType /\ DialerType
  BY DEF TypeOK, FlagType, PeerType, WorkType, PendingType, DialerType

\* Next, one disjunct per action.
Step ==
  \/ StartNetwork \/ (\E a \in Addr : Visit(a)) \/ Started \/ StopNetwork \/ Stopped
  \/ \E a \in Addr : AddPeer(a) \/ RemovePeer(a) \/ DropAttempt(a)
  \/ \E a \in Addr : \E d \in Attempt : BeginAttempt(d, a)
  \/ \E d \in Dialer : DialSucceeds(d) \/ DialFails(d) \/ BackoffEnds(d) \/ BackoffCancelled(d)
  \/ Tick \/ Mark \/ Reconnect \/ LoopExit
  \/ NoPeers \/ ForceReconnectAll \/ ListenerReconnect \/ ListenerExit \/ ListenerClosed
  \/ \E a \in Addr : GoesDown(a) \/ ComesUp(a)

LEMMA NextIsStep == Next => Step
  BY DEF Next, Step, Starting, BeginsAttempt, DialStep, LoopStep, ListenerStep

LEMMA TypeInit == Init => TypeOK
<1> SUFFICES ASSUME Init PROVE TypeOK
  OBVIOUS
<1>1. FlagType
  BY DEF Init, FlagType
<1>2. PeerType /\ WorkType /\ PendingType /\ DialerType
  BY NetworkAssumption DEF Init, PeerType, PeerState, WorkType, PendingType, DialerType
<1> QED
  BY <1>1, <1>2, TypeParts

\* What connectWithRetryLocked does to its goroutine and its peer.
LEMMA ReturnType ==
  ASSUME TypeOK, NEW d \in Dialer, Working(d), NEW state \in PeerState, Return(d, state)
  PROVE  PeerType' /\ DialerType'
  BY DEF TypeOK, PeerType, DialerType, Return, Working, Job, Idle

LEMMA DialType ==
  ASSUME TypeOK, NEW d \in Dialer, NEW a \in Addr, Dial(d, a)
  PROVE  PeerType' /\ DialerType'
  BY NetworkAssumption DEF TypeOK, PeerType, PeerState, DialerType, Dial, Job

LEMMA SpawnedType == ASSUME TypeOK, NEW addrs PROVE Spawned(addrs) \in [Addr -> 0..MaxPending]
  BY NetworkAssumption DEF TypeOK, Spawned

LEMMA TypeStep == TypeOK /\ [Next]_vars => TypeOK'
<1> SUFFICES ASSUME TypeOK, [Next]_vars PROVE TypeOK'
  OBVIOUS
<1>0. FlagType /\ PeerType /\ WorkType /\ PendingType /\ DialerType
  BY TypeParts
<1>s. Step \/ UNCHANGED vars
  BY NextIsStep
<1> USE DEF handlerVars, loopVars, netVars
<1>1. FlagType'
  <2>1. /\ active' = active \/ active' = TRUE \/ active' = FALSE
        /\ cancelled' = cancelled \/ cancelled' = TRUE \/ cancelled' = FALSE
    BY <1>s DEF Step, vars, StartNetwork, Visit, Started, StopNetwork, Stopped, AddPeer,
      RemovePeer, DropAttempt, BeginAttempt, DialSucceeds, DialFails, BackoffEnds,
      BackoffCancelled, Tick, Mark, Reconnect, LoopExit, NoPeers, ForceReconnectAll,
      ListenerReconnect, ListenerExit, ListenerClosed, GoesDown, ComesUp
  <2> QED
    BY <2>1, <1>0 DEF FlagType
<1>2. WorkType'
  <2> USE <1>0 DEF WorkType
  <2>1. CASE StartNetwork \/ Started \/ StopNetwork \/ Stopped
    BY <2>1 DEF StartNetwork, Started, StopNetwork, Stopped, Known
  <2>2. ASSUME NEW a \in Addr,
               \/ Visit(a) \/ AddPeer(a) \/ RemovePeer(a) \/ DropAttempt(a)
               \/ GoesDown(a) \/ ComesUp(a)
        PROVE  WorkType'
    BY <2>2 DEF Visit, AddPeer, RemovePeer, DropAttempt, GoesDown, ComesUp
  <2>3. ASSUME NEW d \in Dialer, NEW a \in Addr, BeginAttempt(d, a) PROVE WorkType'
    BY <2>3 DEF BeginAttempt
  <2>4. ASSUME NEW d \in Dialer, DialSucceeds(d) PROVE WorkType'
    BY <2>4 DEF DialSucceeds
  <2>5. ASSUME NEW d \in Dialer, DialFails(d) \/ BackoffEnds(d) \/ BackoffCancelled(d)
        PROVE  WorkType'
    BY <2>5 DEF DialFails, BackoffEnds, BackoffCancelled
  <2>6. CASE Tick \/ Mark \/ Reconnect \/ LoopExit
    BY <2>6 DEF Tick, Mark, Reconnect, LoopExit
  <2>7. CASE NoPeers \/ ForceReconnectAll \/ ListenerReconnect \/ ListenerExit \/ ListenerClosed
    BY <2>7 DEF NoPeers, ForceReconnectAll, ListenerReconnect, ListenerExit, ListenerClosed
  <2>8. CASE UNCHANGED vars
    BY <2>8 DEF vars
  <2> QED
    BY <1>s, <2>1, <2>2, <2>3, <2>4, <2>5, <2>6, <2>7, <2>8 DEF Step, Dialer
<1>3. PeerType' /\ PendingType' /\ DialerType'
  <2> USE <1>0 DEF PeerType, PendingType
  <2>1. ASSUME NEW a \in Addr, Visit(a) PROVE PeerType' /\ PendingType' /\ DialerType'
    BY <2>1, DialType DEF Visit, Dialer
  <2>2. ASSUME NEW a \in Addr, NEW d \in Attempt, BeginAttempt(d, a)
        PROVE  PeerType' /\ PendingType' /\ DialerType'
    BY <2>2, DialType, NetworkAssumption DEF BeginAttempt, Dialer
  <2>3. CASE StopNetwork
    BY <2>3 DEF StopNetwork, Disconnected, PeerState, DialerType
  <2>4. ASSUME NEW a \in Addr, AddPeer(a) PROVE PeerType' /\ PendingType' /\ DialerType'
    BY <2>4, SpawnedType DEF AddPeer, PeerState, DialerType
  <2>5. ASSUME NEW a \in Addr, RemovePeer(a) PROVE PeerType' /\ PendingType' /\ DialerType'
    <3>1. PeerType' /\ PendingType'
      BY <2>5 DEF RemovePeer, PeerState
    <3>2. DialerType'
      BY <2>5 DEF RemovePeer, DialerType, DialersOf, Working, Job, Idle
    <3> QED
      BY <3>1, <3>2
  <2>6. ASSUME NEW a \in Addr, DropAttempt(a) PROVE PeerType' /\ PendingType' /\ DialerType'
    BY <2>6, NetworkAssumption DEF DropAttempt, DialerType
  <2>7. ASSUME NEW d \in Dialer, DialSucceeds(d)
        PROVE  PeerType' /\ PendingType' /\ DialerType'
    BY <2>7, ReturnType DEF DialSucceeds, PeerState
  <2>8. ASSUME NEW d \in Dialer, DialFails(d)
        PROVE  PeerType' /\ PendingType' /\ DialerType'
    <3>1. CASE cancelled
      BY <2>8, <3>1, ReturnType DEF DialFails, PeerState
    <3>2. CASE ~cancelled
      BY <2>8, <3>2 DEF DialFails, DialerType, Working, Job, Idle
    <3> QED
      BY <3>1, <3>2
  <2>9. ASSUME NEW d \in Dialer, BackoffEnds(d)
        PROVE  PeerType' /\ PendingType' /\ DialerType'
    <3>1. CASE dialer[d].attempt < MaxRetries
      BY <2>9, <3>1, NetworkAssumption DEF BackoffEnds, DialerType, Working, Job, Idle
    <3>2. CASE ~(dialer[d].attempt < MaxRetries)
      BY <2>9, <3>2, ReturnType DEF BackoffEnds, PeerState
    <3> QED
      BY <3>1, <3>2
  <2>10. ASSUME NEW d \in Dialer, BackoffCancelled(d)
         PROVE  PeerType' /\ PendingType' /\ DialerType'
    BY <2>10, ReturnType DEF BackoffCancelled, PeerState
  <2>11. CASE Mark \/ ForceReconnectAll
    BY <2>11 DEF Mark, ForceReconnectAll, PeerState, DialerType
  <2>12. CASE Reconnect \/ ListenerReconnect
    BY <2>12, SpawnedType DEF Reconnect, ListenerReconnect, DialerType
  <2>13. ASSUME \/ StartNetwork \/ Started \/ Stopped \/ Tick \/ LoopExit \/ NoPeers
                \/ ListenerExit \/ ListenerClosed
                \/ \E a \in Addr : GoesDown(a) \/ ComesUp(a)
                \/ UNCHANGED vars
         PROVE  UNCHANGED <<peers, pending, dialer>>
    BY <2>13 DEF StartNetwork, Started, Stopped, Tick, LoopExit, NoPeers, ListenerExit,
                 ListenerClosed, GoesDown, ComesUp, vars
  <2>14. ASSUME UNCHANGED <<peers, pending, dialer>>
         PROVE  PeerType' /\ PendingType' /\ DialerType'
    BY <2>14 DEF DialerType
  <2> QED
    BY <1>s, <2>1, <2>2, <2>3, <2>4, <2>5, <2>6, <2>7, <2>8, <2>9, <2>10, <2>11, <2>12, <2>13,
       <2>14 DEF Step
<1> QED
  BY <1>1, <1>2, <1>3 DEF TypeOK, FlagType, PeerType, WorkType, PendingType, DialerType

(***************************************************************************)
(* The handler's state has its type: the retry count of a dial stays       *)
(* within MaxRetries, and the state of a peer is one of its constants.     *)
(***************************************************************************)
THEOREM TypeCorrect == Spec => []TypeOK
  BY TypeInit, TypeStep, PTL DEF Spec

-----------------------------------------------------------------------------
(* Phases: who is at work when.                                            *)

PhaseInv == TypeOK /\ Phases /\ LoopAlive /\ QuietStop

LEMMA PhaseInit == Init => PhaseInv
<1> SUFFICES ASSUME Init PROVE PhaseInv
  OBVIOUS
<1>1. \A d \in Dialer : ~Working(d)
  BY DEF Init, Working, Idle
<1>2. ~AtWork
  BY <1>1 DEF Init, AtWork, Dialer
<1> QED
  BY <1>1, <1>2, TypeInit DEF Init, PhaseInv, Phases, LoopAlive, QuietStop, Dialer

\* A goroutine that starts or ends a job leaves the others alone.
LEMMA OthersAtWork ==
  ASSUME TypeOK, NEW d \in Dialer,
         \/ \E state : Return(d, state)
         \/ \E a \in Addr : Dial(d, a)
         \/ DialFails(d) \/ BackoffEnds(d)
  PROVE  \A e \in Dialer \ {d} : dialer'[e] = dialer[e]
  BY DEF TypeOK, Return, Dial, DialFails, BackoffEnds

LEMMA PhaseStep == PhaseInv /\ [Next]_vars => PhaseInv'
<1> SUFFICES ASSUME PhaseInv, [Next]_vars PROVE PhaseInv'
  OBVIOUS
<1>0. TypeOK /\ TypeOK'
  BY TypeStep DEF PhaseInv
<1>s. Step \/ UNCHANGED vars
  BY NextIsStep
<1> DEFINE Phase == Phases /\ LoopAlive /\ QuietStop
<1>p. Phase
  BY DEF PhaseInv
<1> SUFFICES Phase'
  BY <1>0 DEF PhaseInv
<1> USE DEF handlerVars, loopVars, netVars
<1>k. Control \in Dialer /\ Attempt \subseteq Dialer /\ Control \notin Attempt
  BY NetworkAssumption DEF Dialer
<1>1. CASE StartNetwork
  BY <1>1, <1>p DEF StartNetwork, Phases, LoopAlive, QuietStop, AtWork, Working, Known
<1>2. ASSUME NEW a \in Addr, Visit(a) PROVE Phase'
  <2>1. \A d \in Attempt : dialer'[d] = dialer[d]
    BY <1>0, <1>2, <1>k, OthersAtWork DEF Visit
  <2>2. peers' = [peers EXCEPT ![a] = "Connecting"]
    BY <1>2 DEF Visit, Dial
  <2> QED
    BY <1>0, <1>2, <1>p, <2>1, <2>2
    DEF Visit, Phases, LoopAlive, QuietStop, AtWork, Working, Known, TypeOK
<1>3. CASE Started
  BY <1>3, <1>p DEF Started, Phases, LoopAlive, QuietStop, AtWork, Working, Known
<1>4. CASE StopNetwork
  BY <1>0, <1>4, <1>p
  DEF StopNetwork, Phases, LoopAlive, QuietStop, AtWork, Working, Known, Disconnected, TypeOK
<1>5. CASE Stopped
  BY <1>5, <1>p DEF Stopped, Phases, LoopAlive, QuietStop, AtWork, Working, Known
<1>6. ASSUME NEW a \in Addr, AddPeer(a) PROVE Phase'
  <2>1. Known' = Known \cup {a}
    BY <1>0, <1>6 DEF AddPeer, Known, TypeOK
  <2>2. ~active => pending' = pending
    BY <1>6 DEF AddPeer
  <2> QED
    BY <1>6, <1>p, <2>1, <2>2
    DEF AddPeer, Phases, LoopAlive, QuietStop, AtWork, Working
<1>7. ASSUME NEW a \in Addr, RemovePeer(a) PROVE Phase'
  <2>1. Known' = Known \ {a}
    BY <1>0, <1>7 DEF RemovePeer, Known, TypeOK
  <2>2. \A d \in Dialer : Working(d)' <=> Working(d)
    BY <1>0, <1>7 DEF RemovePeer, DialersOf, Working, TypeOK, Job, Idle
  <2> QED
    BY <1>7, <1>k, <1>p, <2>1, <2>2
    DEF RemovePeer, Phases, LoopAlive, QuietStop, AtWork
<1>8. ASSUME NEW a \in Addr, DropAttempt(a) PROVE Phase'
  BY <1>0, <1>8, <1>p DEF DropAttempt, Phases, LoopAlive, QuietStop, AtWork, Working, Known, TypeOK
<1>9. ASSUME NEW a \in Addr, NEW d \in Attempt, BeginAttempt(d, a) PROVE Phase'
  <2>1. dialer'[Control] = dialer[Control]
    BY <1>0, <1>9, <1>k, OthersAtWork DEF BeginAttempt
  <2>2. AtWork
    BY <1>9 DEF BeginAttempt, AtWork
  <2>3. peers' = [peers EXCEPT ![a] = "Connecting"]
    BY <1>9 DEF BeginAttempt, Dial
  <2> QED
    BY <1>0, <1>9, <1>p, <2>1, <2>2, <2>3
    DEF BeginAttempt, Phases, LoopAlive, QuietStop, Working, Known, TypeOK
<1>10. ASSUME NEW d \in Dialer,
              DialSucceeds(d) \/ DialFails(d) \/ BackoffEnds(d) \/ BackoffCancelled(d)
       PROVE  Phase'
  <2>1. /\ UNCHANGED <<active, cancelled, control, todo, pending, loop, listener>>
        /\ Working(d)
    BY <1>10 DEF DialSucceeds, DialFails, BackoffEnds, BackoffCancelled
  <2>2. \A e \in Dialer \ {d} : dialer'[e] = dialer[e]
    BY <1>0, <1>10, OthersAtWork DEF DialSucceeds, BackoffCancelled
  <2>3. \/ UNCHANGED peers
        \/ \E state \in {"Connected", "Disconnected", "Failed"} :
             Return(d, state)
    BY <1>10 DEF DialSucceeds, DialFails, BackoffEnds, BackoffCancelled
  <2>4. Known \subseteq Known'
    BY <1>0, <2>3 DEF Known, Return, TypeOK
  <2>5. CASE d = Control
    BY <1>k, <1>p, <2>1, <2>2, <2>4, <2>5 DEF Phases, LoopAlive, QuietStop, AtWork, Working
  <2>6. CASE d \in Attempt
    BY <1>k, <1>p, <2>1, <2>2, <2>4, <2>6 DEF Phases, LoopAlive, QuietStop, AtWork, Working
  <2> QED
    BY <2>5, <2>6 DEF Dialer
<1>11. CASE Tick \/ Reconnect \/ LoopExit
  BY <1>11, <1>p
  DEF Tick, Reconnect, LoopExit, Phases, LoopAlive, QuietStop, AtWork, Working, Known
<1>12. CASE Mark \/ ForceReconnectAll
  <2>1. Known' = Known
    BY <1>0, <1>12 DEF Mark, ForceReconnectAll, Known, TypeOK
  <2> QED
    BY <1>12, <1>p, <2>1
    DEF Mark, ForceReconnectAll, Phases, LoopAlive, QuietStop, AtWork, Working
<1>13. CASE NoPeers \/ ListenerReconnect \/ ListenerExit \/ ListenerClosed
  BY <1>13, <1>p
  DEF NoPeers, ListenerReconnect, ListenerExit, ListenerClosed, Phases, LoopAlive, QuietStop,
      AtWork, Working, Known
<1>14. CASE UNCHANGED vars \/ \E a \in Addr : GoesDown(a) \/ ComesUp(a)
  BY <1>14, <1>p
  DEF vars, GoesDown, ComesUp, Phases, LoopAlive, QuietStop, AtWork, Working, Known
<1> QED
  BY <1>s, <1>1, <1>2, <1>3, <1>4, <1>5, <1>6, <1>7, <1>8, <1>9, <1>10, <1>11, <1>12, <1>13,
     <1>14 DEF Step

(***************************************************************************)
(* While the network is active, its reconnection loop is alive and its     *)
(* context is not cancelled (StartNetwork, StopNetwork), whatever becomes  *)
(* of the no-peers listener.                                               *)
(***************************************************************************)
THEOREM LoopAliveCorrect == Spec => []LoopAlive
<1>1. PhaseInv => LoopAlive
  BY DEF PhaseInv
<1> QED
  BY <1>1, PhaseInit, PhaseStep, PTL DEF Spec

(***************************************************************************)
(* When StopNetwork has returned, no goroutine of the handler is at work.  *)
(***************************************************************************)
THEOREM QuietStopCorrect == Spec => []QuietStop
<1>1. PhaseInv => QuietStop
  BY DEF PhaseInv
<1> QED
  BY <1>1, PhaseInit, PhaseStep, PTL DEF Spec

-----------------------------------------------------------------------------
(* Who dials which peer.                                                   *)

DialInv == PhaseInv /\ DialedPeers /\ OneDialer /\ NoStrandedPeer

LEMMA DialInit == Init => DialInv
<1> SUFFICES ASSUME Init PROVE DialInv
  OBVIOUS
<1>1. \A a \in Addr : DialersOf(a) = {}
  BY DEF Init, DialersOf, Working, Idle
<1> QED
  BY <1>1, PhaseInit DEF Init, DialInv, DialedPeers, OneDialer, NoStrandedPeer

\* The dialers of a peer when a goroutine begins to dial it, and when one returns.
LEMMA DialersBegin ==
  ASSUME TypeOK, NEW d \in Dialer, ~Working(d), NEW a \in Addr, Dial(d, a)
  PROVE  /\ DialersOf(a)' = DialersOf(a) \cup {d}
         /\ \A b \in Addr \ {a} : DialersOf(b)' = DialersOf(b)
         /\ peers' = [peers EXCEPT ![a] = "Connecting"]
  BY DEF TypeOK, Dial, DialersOf, Working

LEMMA DialersEnd ==
  ASSUME TypeOK, NEW d \in Dialer, Working(d), NEW state, Return(d, state)
  PROVE  \A b \in Addr :
           /\ DialersOf(b)' = DialersOf(b) \ {d}
           /\ d \in DialersOf(b) => peers'[b] = state
           /\ d \notin DialersOf(b) => peers'[b] = peers[b]
<1>1. dialer' = [dialer EXCEPT ![d] = Idle]
  BY DEF Return
<1>2. \A e \in Dialer : Working(e)' <=> Working(e) /\ e # d
  BY <1>1 DEF TypeOK, Working, Idle
<1>3. \A e \in Dialer \ {d} : dialer'[e] = dialer[e]
  BY <1>1 DEF TypeOK
<1>4. \A b \in Addr : DialersOf(b)' = DialersOf(b) \ {d}
  BY <1>2, <1>3 DEF DialersOf
<1>5. dialer[d].addr \in Addr /\ dialer[d].own \in BOOLEAN
  BY DEF TypeOK, Working, Job, Idle
<1>6. \A b \in Addr : d \in DialersOf(b) <=> dialer[d].own /\ dialer[d].addr = b
  BY DEF DialersOf
<1>7. peers' = IF dialer[d].own THEN [peers EXCEPT ![dialer[d].addr] = state] ELSE peers
  BY DEF Return
<1>8. \A b \in Addr : d \in DialersOf(b) => peers'[b] = state
  BY <1>6, <1>7 DEF TypeOK
<1>9. \A b \in Addr : d \notin DialersOf(b) => peers'[b] = peers[b]
  BY <1>6, <1>7 DEF TypeOK
<1> QED
  BY <1>4, <1>8, <1>9

LEMMA DialStepKeeps == DialInv /\ [Next]_vars => DialInv'
<1> SUFFICES ASSUME DialInv, [Next]_vars PROVE DialInv'
  OBVIOUS
<1>0. PhaseInv /\ PhaseInv'
  BY PhaseStep DEF DialInv
<1>t. TypeOK /\ Phases /\ QuietStop
  BY <1>0 DEF PhaseInv
<1>s. Step \/ UNCHANGED vars
  BY NextIsStep
<1> DEFINE Dials == DialedPeers /\ OneDialer /\ NoStrandedPeer
<1>p. Dials
  BY DEF DialInv
<1> SUFFICES Dials'
  BY <1>0 DEF DialInv
<1> USE DEF DialedPeers, OneDialer, NoStrandedPeer, handlerVars, loopVars, netVars
<1>k. Control \in Dialer /\ Attempt \subseteq Dialer
  BY DEF Dialer
<1>1. ASSUME NEW d \in Dialer, NEW a \in Addr, ~Working(d), Dial(d, a), DialersOf(a) = {},
             UNCHANGED cancelled
      PROVE  Dials'
  <2>1. /\ DialersOf(a)' = {d}
        /\ \A b \in Addr \ {a} : DialersOf(b)' = DialersOf(b)
        /\ peers' = [peers EXCEPT ![a] = "Connecting"]
    BY <1>1, <1>t, DialersBegin
  <2> QED
    BY <1>1, <1>p, <1>t, <2>1 DEF TypeOK
<1>2. ASSUME NEW d \in Dialer, NEW state \in {"Connected", "Disconnected", "Failed"},
             Working(d), Return(d, state), UNCHANGED cancelled
      PROVE  Dials'
  <2>1. \A b \in Addr :
           /\ DialersOf(b)' = DialersOf(b) \ {d}
           /\ d \in DialersOf(b) => peers'[b] = state
           /\ d \notin DialersOf(b) => peers'[b] = peers[b]
    BY <1>2, <1>t, DialersEnd
  <2> QED
    BY <1>2, <1>p, <2>1
<1>3. ASSUME UNCHANGED cancelled, \A b \in Addr : DialersOf(b)' = DialersOf(b),
             \A b \in Addr : \/ peers'[b] = peers[b]
                             \/ peers[b] = "Connected" /\ peers'[b] = "Disconnected"
      PROVE  Dials'
  BY <1>3, <1>p
<1>4. ASSUME UNCHANGED <<cancelled, dialer, peers>> PROVE Dials'
  <2>1. \A b \in Addr : DialersOf(b)' = DialersOf(b)
    BY <1>4 DEF DialersOf, Working
  <2>2. \A b \in Addr : peers'[b] = peers[b]
    BY <1>4
  <2> QED
    BY <1>3, <1>4, <2>1, <2>2
<1>5. ASSUME NEW a \in Addr, Visit(a) PROVE Dials'
  <2>1. DialersOf(a) = {}
    BY <1>5, <1>t DEF Visit, Phases, QuietStop, AtWork, DialersOf, Dialer
  <2> QED
    BY <1>1, <1>5, <1>k, <2>1 DEF Visit
<1>6. ASSUME NEW a \in Addr, NEW d \in Attempt, BeginAttempt(d, a) PROVE Dials'
  <2>1. CASE DialersOf(a) = {}
    BY <1>1, <1>6, <1>k, <2>1 DEF BeginAttempt
  <2>2. CASE DialersOf(a) # {}
    <3>1. cancelled /\ cancelled'
      BY <1>6, <1>p, <2>2 DEF BeginAttempt
    <3>2. /\ DialersOf(a)' = DialersOf(a) \cup {d}
          /\ \A b \in Addr \ {a} : DialersOf(b)' = DialersOf(b)
          /\ peers' = [peers EXCEPT ![a] = "Connecting"]
      BY <1>6, <1>k, <1>t, DialersBegin DEF BeginAttempt
    <3> QED
      BY <1>p, <1>t, <3>1, <3>2 DEF TypeOK
  <2> QED
    BY <2>1, <2>2
<1>7. CASE StopNetwork
  <2>1. cancelled' /\ \A b \in Addr : DialersOf(b)' = DialersOf(b)
    BY <1>7 DEF StopNetwork, DialersOf, Working
  <2>2. \A b \in Addr : peers'[b] # "Connecting" /\ (peers'[b] = "none" <=> peers[b] = "none")
    BY <1>7 DEF StopNetwork, Disconnected, Known
  <2> QED
    BY <1>p, <2>1, <2>2
<1>8. CASE Stopped
  <2>1. \A b \in Addr : DialersOf(b) = {} /\ DialersOf(b)' = {}
    BY <1>8, <1>t DEF Stopped, AtWork, Phases, DialersOf, Working, Dialer
  <2> QED
    BY <1>8, <1>p, <2>1 DEF Stopped
<1>9. ASSUME NEW a \in Addr, AddPeer(a) PROVE Dials'
  <2>1. \A b \in Addr : DialersOf(b)' = DialersOf(b)
    BY <1>9 DEF AddPeer, DialersOf, Working
  <2>2. DialersOf(a) = {}
    BY <1>9, <1>p DEF AddPeer
  <2> QED
    BY <1>9, <1>p, <1>t, <2>1, <2>2 DEF AddPeer, TypeOK
<1>10. ASSUME NEW a \in Addr, RemovePeer(a) PROVE Dials'
  <2>1. \A d \in Dialer :
          dialer'[d] = IF d \in DialersOf(a) THEN [dialer[d] EXCEPT !.own = FALSE] ELSE dialer[d]
    BY <1>10 DEF RemovePeer
  <2>2. \A d \in DialersOf(a) : ~dialer'[d].own
    <3> SUFFICES ASSUME NEW d \in DialersOf(a) PROVE dialer'[d].own = FALSE
      OBVIOUS
    <3>1. d \in Dialer /\ dialer[d] \in Job
      BY <1>t DEF DialersOf, Working, TypeOK, Idle
    <3> QED
      BY <2>1, <3>1 DEF Job
  <2>3. DialersOf(a)' = {}
    BY <2>1, <2>2 DEF DialersOf, Working
  <2>4. \A b \in Addr \ {a} : \A d \in Dialer : d \in DialersOf(b)' <=> d \in DialersOf(b)
    <3> SUFFICES ASSUME NEW b \in Addr \ {a}, NEW d \in Dialer
                 PROVE  d \in DialersOf(b)' <=> d \in DialersOf(b)
      OBVIOUS
    <3>1. CASE d \in DialersOf(a)
      BY <2>2, <3>1 DEF DialersOf
    <3>2. CASE d \notin DialersOf(a)
      BY <2>1, <3>2 DEF DialersOf, Working
    <3> QED
      BY <3>1, <3>2
  <2>5. \A b \in Addr \ {a} : DialersOf(b)' = DialersOf(b)
    BY <2>4 DEF DialersOf
  <2>6. peers' = [peers EXCEPT ![a] = "none"] /\ cancelled' = cancelled
    BY <1>10 DEF RemovePeer
  <2> QED
    BY <1>p, <1>t, <2>3, <2>5, <2>6 DEF TypeOK
<1>11. ASSUME NEW d \in Dialer, DialSucceeds(d) \/ BackoffCancelled(d) PROVE Dials'
  BY <1>2, <1>11 DEF DialSucceeds, BackoffCancelled
<1>12. ASSUME NEW d \in Dialer, DialFails(d) \/ BackoffEnds(d) PROVE Dials'
  <2>1. CASE \E state \in {"Connected", "Disconnected", "Failed"} : Return(d, state)
    BY <1>2, <1>12, <2>1 DEF DialFails, BackoffEnds
  <2>2. CASE /\ UNCHANGED <<peers, cancelled>>
             /\ \/ dialer' = [dialer EXCEPT ![d].pc = "backoff"]
                \/ dialer' = [dialer EXCEPT ![d].pc = "dial", ![d].attempt = @ + 1]
    <3>1. Working(d) /\ dialer[d] \in Job
      BY <1>12, <1>t DEF DialFails, BackoffEnds, Working, TypeOK, Idle
    <3>2. dialer'[d].addr = dialer[d].addr /\ dialer'[d].own = dialer[d].own /\ Working(d)'
      BY <1>t, <2>2, <3>1 DEF TypeOK, Working, Job
    <3>3. \A e \in Dialer \ {d} : dialer'[e] = dialer[e]
      BY <1>t, <2>2 DEF TypeOK
    <3>4. \A b \in Addr : DialersOf(b)' = DialersOf(b)
      BY <3>1, <3>2, <3>3 DEF DialersOf, Working
    <3>5. \A b \in Addr : peers'[b] = peers[b]
      BY <2>2
    <3> QED
      BY <1>3, <2>2, <3>4, <3>5
  <2> QED
    BY <1>12, <2>1, <2>2 DEF DialFails, BackoffEnds
<1>13. CASE Mark \/ ForceReconnectAll
  <2>1. \A b \in Addr : DialersOf(b)' = DialersOf(b)
    BY <1>13 DEF Mark, ForceReconnectAll, DialersOf, Working
  <2>2. \A b \in Addr : \/ peers'[b] = peers[b]
                        \/ peers[b] = "Connected" /\ peers'[b] = "Disconnected"
    BY <1>13 DEF Mark, ForceReconnectAll
  <2>3. UNCHANGED cancelled
    BY <1>13 DEF Mark, ForceReconnectAll
  <2> QED
    BY <1>3, <2>1, <2>2, <2>3
<1>14. ASSUME \/ StartNetwork \/ Started \/ Tick \/ Reconnect \/ LoopExit \/ NoPeers
              \/ ListenerReconnect \/ ListenerExit \/ ListenerClosed
              \/ \E a \in Addr : DropAttempt(a) \/ GoesDown(a) \/ ComesUp(a)
              \/ UNCHANGED vars
       PROVE  UNCHANGED <<cancelled, dialer, peers>>
  BY <1>14 DEF StartNetwork, Started, Tick, Reconnect, LoopExit, NoPeers, ListenerReconnect,
               ListenerExit, ListenerClosed, DropAttempt, GoesDown, ComesUp, vars
<1> QED
  BY <1>s, <1>4, <1>5, <1>6, <1>7, <1>8, <1>9, <1>10, <1>11, <1>12, <1>13, <1>14 DEF Step

(***************************************************************************)
(* A peer shown as connecting is being dialed by some goroutine, so        *)
(* attemptReconnect may leave it alone (connectWithRetryLocked).           *)
(***************************************************************************)
THEOREM NoStrandedPeerCorrect == Spec => []NoStrandedPeer
<1>1. DialInv => NoStrandedPeer
  BY DEF DialInv
<1> QED
  BY <1>1, DialInit, DialStepKeeps, PTL DEF Spec

(***************************************************************************)
(* The state check of attemptReconnect is enough for one dialer per peer.  *)
(***************************************************************************)
THEOREM OneDialerCorrect == Spec => []OneDialer
<1>1. DialInv => OneDialer
  BY DEF DialInv
<1> QED
  BY <1>1, DialInit, DialStepKeeps, PTL DEF Spec
=============================================================================
