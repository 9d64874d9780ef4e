---------------------------- MODULE MCServerLife ----------------------------
(* TLC instances of ServerLife.                                            *)
EXTENDS ServerLife
=============================================================================
