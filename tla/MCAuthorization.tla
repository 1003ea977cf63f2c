--------------------------- MODULE MCAuthorization ---------------------------
(***************************************************************************)
(* Three concurrent requests of one payer, two blocks to an epoch, and one *)
(* settlement.                                                             *)
(***************************************************************************)
EXTENDS Authorization

CONSTANTS r1, r2, r3, payer

MCRequest == {r1, r2, r3}
MCPayer == {payer}
MCPayerOf == [r \in MCRequest |-> payer]
MCBalance == {0, 1}
=============================================================================
