-------------------------------- MODULE MCHub --------------------------------
(***************************************************************************)
(* Three views: 1 has an inline WASM lens and a query with every flaw that *)
(* can be mended, 2 a lens behind a URL, and 3 has the name of 1, no lens  *)
(* and a query nobody can mend.                                            *)
(***************************************************************************)
EXTENDS Hub

MCView == 1..3
MCNameOf == <<"A", "B", "A">>
MCPartsOf == [v \in MCView |-> {"wire", "name", "query", "sdl"}]
MCFlawsOf == <<{"inputData", "bare", "typo"}, {"bare"}, {"unknown"}>>
MCLensOf == <<"base64", "http", "none">>
=============================================================================
