------------------------------ MODULE MCPruner ------------------------------
(***************************************************************************)
(* A small host for TLC: one imported block, one replicated block, one     *)
(* transaction, and one document of a view, which neither the listener nor *)
(* the queue knows.  Any of them may be updated again and again.           *)
(***************************************************************************)
EXTENDS Pruner

CONSTANTS oldBlock, newBlock, tx, row

MCDoc == {oldBlock, newBlock, tx, row}
MCDependents == <<"Transaction">>
MCColOf == [d \in MCDoc |-> CASE d = tx -> "Transaction"
                              [] d = row -> "View"
                              [] OTHER -> "Block"]
MCKnown == {"Block", "Transaction"}
MCImported == {oldBlock}
=============================================================================
