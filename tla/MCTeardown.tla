----------------------------- MODULE MCTeardown -----------------------------
(* Model-checking instance of Teardown: the constants come from the .cfg.  *)
EXTENDS Teardown
=============================================================================
