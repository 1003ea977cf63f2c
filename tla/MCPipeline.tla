----------------------------- MODULE MCPipeline -----------------------------
(***************************************************************************)
(* Three jobs, two of them versions of one document; the third has one     *)
(* verified version next to entries that must be skipped.                  *)
(***************************************************************************)
EXTENDS Pipeline

CONSTANTS x1, x2, y, w1, w2

MCJob == {x1, x2, y}
MCWriter == {w1, w2}
MCDocOf == [j \in Job |-> IF j = y THEN "y" ELSE "x"]

V(cid, type, ok) == [isMap |-> TRUE, cid |-> cid, type |-> type, identity |-> "A", valid |-> ok]

MCDataOf == [j \in Job |->
  IF j = x1 THEN <<V("c1", "ES256K", TRUE)>>
  ELSE IF j = x2 THEN <<V("c2", "ES256K", TRUE)>>
  ELSE <<V("c3", "Ed25519", TRUE), V("", "ES256K", TRUE), V("c4", "ES256K", FALSE),
         [isMap |-> FALSE], V("c5", "ES256K", TRUE)>>]
=============================================================================
