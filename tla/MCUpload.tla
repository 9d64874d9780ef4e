------------------------------ MODULE MCUpload ------------------------------
(* TLC instances of Upload.                                                *)
EXTENDS Upload, TLC

CONSTANTS x, y

MCChunks == {x, y}

MCContents == {<<x>>, <<x, y>>}

Symmetry == Permutations(Uploads) \cup Permutations(Hosts) \cup Permutations(Ids)
=============================================================================
