--------------------------- MODULE MCStopAndWait ----------------------------
(* Model-checking instance of StopAndWait: the constants come from the .cfg. *)
EXTENDS StopAndWait

Prompt(n) == [kinds |-> {"lose", "corrupt"}, budget |-> 2, prompt |-> TRUE, inARow |-> n]
Rough     == [kinds |-> AllFaults, budget |-> 3, prompt |-> FALSE, inARow |-> 3]
AnySetting == {Prompt(1), Prompt(2), Rough}
=============================================================================
