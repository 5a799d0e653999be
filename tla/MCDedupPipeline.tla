--------------------------- MODULE MCDedupPipeline ---------------------------
(* The instance of DedupPipeline for the array that counts fine chunks. *)
EXTENDS DedupPipeline

\* Four coarse chunks.
FourAnchors == {<<<<"a">>, <<"b">>, <<"c">>, <<"d">>>>}
=============================================================================
