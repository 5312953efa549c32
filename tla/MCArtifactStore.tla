--------------------------- MODULE MCArtifactStore ---------------------------
(* Two downloads of one body and one of another, all of the same shard.      *)
EXTENDS ArtifactStore, TLC
CONSTANTS w1, w2, w3, a, b, s
MCBody == w1 :> a @@ w2 :> a @@ w3 :> b
MCShardOf == a :> s @@ b :> s
==============================================================================
