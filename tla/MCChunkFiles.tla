---------------------------- MODULE MCChunkFiles ----------------------------
(* TLC instance of ChunkFiles: files of no chunk, of one chunk, short and  *)
(* full, of two equal chunks, and of a full and a short one.               *)
EXTENDS ChunkFiles, TLC

MCSources == {<<>>, <<1>>, <<1, 2>>, <<1, 2, 1, 2>>, <<1, 2, 2>>}

MCOld == <<3>>

Symmetry == Permutations(Calls)
=============================================================================
