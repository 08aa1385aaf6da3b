----------------------------- MODULE MCChunkPool ----------------------------
(* Instances of ChunkPool for TLC.                                         *)
EXTENDS ChunkPool

CONSTANTS p1, p2, p3

ThreePushers == {p1, p2, p3}
ThreeChunks  == {0, 1, 2}
=============================================================================
