---------------------------- MODULE MCKeepAlive -----------------------------
(* Model-checking instance of KeepAlive: the constants come from the .cfg. *)
EXTENDS KeepAlive
=============================================================================
