------------------------------ MODULE MCNetwork ------------------------------
(***************************************************************************)
(* One peer, in the map from the start or not, two attempts beside the     *)
(* thread that starts and stops the network, and two tries per dial.       *)
(***************************************************************************)
EXTENDS Network

CONSTANTS peer, main, first, second

MCAddr == {peer}
MCAttempt == {first, second}
=============================================================================
