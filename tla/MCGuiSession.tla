---------------------------- MODULE MCGuiSession ----------------------------
(* TLC instances of GuiSession.                                            *)
EXTENDS GuiSession
=============================================================================
