----------------------------- MODULE MCRagIndex -----------------------------
(* Two jobs of one commit on two releases of the chunker, the second of     *)
(* which keeps one of the two chunks the first made.                        *)
EXTENDS RagIndex

CONSTANTS j1, j2

MCVersion == (j1 :> "v1") @@ (j2 :> "v2")
MCPlan == ("v1" :> <<"a", "b">>) @@ ("v2" :> <<"b">>)
=============================================================================
