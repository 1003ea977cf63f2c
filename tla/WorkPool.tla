------------------------------ MODULE WorkPool ------------------------------
(***************************************************************************)
(* What a pool of workers promises: items are added while it is not        *)
(* closed, each item it finishes was waiting and is counted once, nothing  *)
(* is given up before the pool is told to stop, and a pool that reported   *)
(* itself stopped does nothing more.                                       *)
(***************************************************************************)
EXTENDS Integers, FiniteSets

CONSTANTS Item

VARIABLES waiting,   \* items accepted and not finished
          done,      \* how many the pool says it finished
          phase      \* open, closing or closed

vars == <<waiting, done, phase>>

Init == waiting = {} /\ done = 0 /\ phase = "open"

Add(S) ==
  /\ phase # "closed"
  /\ waiting' = waiting \cup S
  /\ UNCHANGED <<done, phase>>

Finish(S) ==
  /\ phase # "closed"
  /\ waiting' = waiting \ S
  /\ done' = done + Cardinality(S)
  /\ UNCHANGED phase

\* A stopping pool may give work up.
Drop(S) ==
  /\ phase = "closing"
  /\ waiting' = waiting \ S
  /\ UNCHANGED <<done, phase>>

Close == phase = "open" /\ phase' = "closing" /\ UNCHANGED <<waiting, done>>

Closed == phase = "closing" /\ phase' = "closed" /\ UNCHANGED <<waiting, done>>

Next ==
  \/ \E S \in SUBSET (Item \ waiting) : Add(S)
  \/ \E S \in SUBSET waiting : Finish(S) \/ Drop(S)
  \/ Close
  \/ Closed

\* An open pool catches up with its work; a closing one closes.
Served == waiting # {} ~> waiting = {} \/ phase # "open"
Closes == phase = "closing" ~> phase = "closed"

\* What the pool never does wrong, and what it does in the end.
Safe == Init /\ [][Next]_vars

Spec == Safe /\ Served /\ Closes
=============================================================================
