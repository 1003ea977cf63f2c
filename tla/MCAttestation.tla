---------------------------- MODULE MCAttestation ----------------------------
(***************************************************************************)
(* Two indexers, A and B, that agree on block 1; B also signs another root *)
(* for block 1, and block 2 with a CID list that does not parse; a fifth   *)
(* document has a valid signature over a root its CID list does not match, *)
(* a sixth names C as the signer of what B signed, a seventh has block     *)
(* number -1 and no CIDs.  Any of them may be relayed again.               *)
(***************************************************************************)
EXTENDS Attestation

CONSTANTS a1, b1, b1x, b2, off, forged, neg, w1, w2

MCWorker == {w1, w2}

Doc(n, root, signer, cids) ==
  [blockNumber |-> n, merkleRoot |-> root, signatureType |-> "ES256K", signatureIdentity |-> signer,
   signatureValue |-> <<signer, root>>, cids |-> cids]

MCSig == {a1, b1, b1x, b2, off, forged, neg}
MCAgreeing == {a1, b1}
MCContent == [s \in Sig |->
  CASE s = a1 -> Doc(1, {"c1"}, "A", {"c1"})
    [] s = b1 -> Doc(1, {"c1"}, "B", {"c1"})
    [] s = b1x -> Doc(1, {"cx"}, "B", {"cx"})
    [] s = b2 -> Doc(2, {"c2"}, "B", {"?"})
    [] s = off -> Doc(2, {"c2"}, "A", {"c1"})
    [] s = forged -> [Doc(1, {"c1"}, "B", {"c1"}) EXCEPT !.signatureIdentity = "C"]
    [] s = neg -> Doc(-1, {"cx"}, "A", {})]
MCParsable == {"c1", "cx", "c2"}
=============================================================================
