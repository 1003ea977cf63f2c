------------------------------- MODULE MCStore -------------------------------
(***************************************************************************)
(* Five blocks, one of them number 0, a transaction to contract a, an      *)
(* access list entry of a, logs of a and b, one of them without a number,  *)
(* and a block signature; both modes with and without cascade, block range *)
(* and an enabled group, and no filter at all.                             *)
(***************************************************************************)
EXTENDS Store

D(col, num, addr, topics) == [col |-> col, num |-> num, addr |-> addr, topics |-> topics]

MCDoc == {D("block", n, "", <<>>) : n \in 0..4} \cup
         {D("transaction", 1, "a", <<>>), D("log", 1, "a", <<"s">>), D("log", 3, "b", <<"s", "u">>),
          D("log", None, "a", <<>>), D("accessListEntry", 2, "a", <<>>),
          D("blockSignature", 4, "", <<>>)}

Group(on, types, topics) ==
  [enabled |-> on, contracts |-> {[addr |-> "a", types |-> types]}, topics |-> topics]

Cfg(mode, cascade, range, groups) ==
  [enabled |-> TRUE, mode |-> mode, cascade |-> cascade, range |-> range, groups |-> groups]

Range14 == [min |-> 1, max |-> 4]

MCConfig ==
  {[Cfg("allowlist", FALSE, <<>>, {}) EXCEPT !.enabled = FALSE],
   Cfg("allowlist", TRUE, Range14, {Group(TRUE, {"transaction"}, {<<"s", "u", "", "">>})}),
   Cfg("allowlist", FALSE, [min |-> 2, max |-> 0], {Group(FALSE, {"log"}, {})}),
   Cfg("blocklist", TRUE, <<>>, {Group(TRUE, {"transaction"}, {<<"", "u", "", "">>}),
                                 Group(FALSE, {"log"}, {})}),
   Cfg("blocklist", FALSE, Range14, {Group(TRUE, {"log"}, {<<"s", "", "", "">>})})}

MCDependents == <<"accessListEntry", "log", "transaction", "blockSignature">>
=============================================================================
