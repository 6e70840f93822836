----------------------------- MODULE MCTransfer -----------------------------
(* Model-checking instance of Transfer: the constants come from the .cfg.  *)
EXTENDS Transfer

(* A receiver that may miss every deadline, one that answers promptly, and  *)
(* everything that can happen to the line and the machine together.         *)
Slow   == [kinds |-> {"lose", "shorten"}, budget |-> 2, prompt |-> FALSE]
Prompt == [kinds |-> {"lose", "corrupt"}, budget |-> 3, prompt |-> TRUE]
Rough  == [kinds |-> AllFaults \ {"shorten"}, budget |-> 2, prompt |-> FALSE]
AnySetting == {Slow, Prompt, Rough}

LateOnly == {[kinds |-> {}, budget |-> 0, prompt |-> FALSE]}
=============================================================================
