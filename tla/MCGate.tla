------------------------------- MODULE MCGate -------------------------------
(***************************************************************************)
(* Two handlers, a view with a contract address and one without, a single  *)
(* record token so that handlers contend for it, and one restart.          *)
(***************************************************************************)
EXTENDS Gate

CONSTANTS h1, h2, withAddress, without

MCHandler == {h1, h2}
MCView == {withAddress, without}
MCAddressed == {withAddress}
=============================================================================
