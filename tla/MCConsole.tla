----------------------------- MODULE MCConsole -----------------------------
(* Console on a screen of a few cells.                                      *)
EXTENDS Console
=============================================================================
