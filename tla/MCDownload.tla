----------------------------- MODULE MCDownload -----------------------------
(* TLC instances of Download.                                              *)
EXTENDS Download, TLC

CONSTANTS x, y

MCChunks == {x, y}

(* A short file and a longer one that begins with another chunk.           *)
MCContents == {<<x>>, <<y, x>>}

(* One file, for two downloads at once.                                    *)
MCShortContents == {<<x>>}

(* One file of two chunks, never replaced by another.                      *)
MCLongContents == {<<y, x>>}

(* The copies of the chunk both files have.                                *)
MCRestored == Hosts \X {x}

Symmetry == Permutations(Downloads) \cup Permutations(Hosts) \cup Permutations(Ids)
=============================================================================
