---------------------------- MODULE MCFileCatalog ----------------------------
(* TLC instances of FileCatalog.                                           *)
EXTENDS FileCatalog, TLC

CONSTANTS k1, k2, h1, h2, plain, dotted, other, blank

MCKeys == {k1, k2}

MCHashes == {h1, h2}

(* plain and dotted differ only in characters SanitizeFilename removes.    *)
MCSanitize == plain :> k1 @@ dotted :> k1 @@ other :> k2 @@ blank :> NoKey

L(hash, index, size, copies) ==
    [hash |-> hash, index |-> index, size |-> size, copies |-> copies]

(* One chunk; two chunks out of order; a gap; an index twice; a last line  *)
(* that is skipped; a first line that is skipped; one line too many.       *)
MCBodies == {
    <<L(h1, 0, 1, 2)>>,
    <<L(h2, 1, 1, 2), L(h1, 0, 2, 2)>>,
    <<L(h1, 0, 2, 2), L(h2, 2, 1, 2)>>,
    <<L(h1, 0, 1, 2), L(h2, 0, 1, 2)>>,
    <<L(h2, 0, 2, 3), L(h1, 1, 1, 1)>>,
    <<L(h2, 0, 0, 2), L(h1, 1, 1, 2)>>,
    <<L(h1, 0, 1, 2), L(h1, 1, 1, 2), L(h2, 2, 1, 2)>> }

(* Freed memory holds a chunk of this file or of another, or one of a      *)
(* request that was refused.                                               *)
MCLeftovers == {L(h1, 0, 1, 2), L(h2, 1, 1, 2), L(h2, 0, 0, 2)}
=============================================================================
