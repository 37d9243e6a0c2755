--------------------------- MODULE MCArtifactStore ---------------------------
(* Two bundles with a content in common. *)
EXTENDS ArtifactStore, TLC

CONSTANTS w1, w2, d1, d2

TwoBundles == (w1 :> <<d1, d2>>) @@ (w2 :> <<d2>>)
=============================================================================
