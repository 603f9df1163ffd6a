---------------------------- MODULE MCCollarModes ----------------------------
(* One tick of Lost mode, which may end while a window is open.             *)
EXTENDS CollarModes
==============================================================================
