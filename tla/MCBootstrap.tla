----------------------------- MODULE MCBootstrap -----------------------------
(***************************************************************************)
(* Three good snapshots of adjacent ranges, the last without block roots,  *)
(* and one for the first block that does not verify; the configured range  *)
(* begins where the first one ends.  Peers replicate one later block.     *)
(***************************************************************************)
EXTENDS Bootstrap

CONSTANTS low, mid, high, forged

MCFile == {low, mid, high, forged}
MCStart == [f \in MCFile |-> CASE f = low -> 1 [] f = mid -> 3 [] f = high -> 5 [] f = forged -> 2]
MCEnd == [f \in MCFile |-> CASE f = low -> 2 [] f = mid -> 4 [] f = high -> 5 [] f = forged -> 3]
MCSigned == MCFile
MCWithSignature == MCFile
MCGenuine == {low, mid, high}
MCWithRoots == {low, mid, forged}
MCRanges == {[start |-> 2, end |-> 3], [start |-> 3, end |-> 5]}
MCLive == {6}
=============================================================================
