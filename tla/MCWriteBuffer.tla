---------------------------- MODULE MCWriteBuffer ----------------------------
(* Two pools: one of narrow columns whose chunk holds three of them, one of *)
(* columns wide enough for the byte budget to be what bounds it.            *)
EXTENDS BufferRefinement, TLC

CONSTANTS a1, a2, a3, b1, A, B

MCPoolOf == (a1 :> A) @@ (a2 :> A) @@ (a3 :> A) @@ (b1 :> B)

MCColBytes == (A :> 1) @@ (B :> 2)

MCChunkCols == (A :> 4) @@ (B :> 3)

=============================================================================
