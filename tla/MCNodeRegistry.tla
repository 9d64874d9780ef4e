--------------------------- MODULE MCNodeRegistry ---------------------------
(* TLC instances of NodeRegistry.                                          *)
EXTENDS NodeRegistry, TLC

Connections == Permutations(Workers)
=============================================================================
