------------------------------- MODULE MCLz4 --------------------------------
(* Model-checking instance of Lz4.  Short blocks of two values, where most  *)
(* positions have a match, and blocks in which the only match lies about as *)
(* far back as an offset can say.                                           *)
EXTENDS Lz4

ShortBlocks == UNION {[1 .. n -> {0, 1}] : n \in 0 .. 9}
FarBlocks   == {<<5, 6, 7>> \o [i \in 1 .. gap |-> 0] \o <<5, 6, 7, 0, 0>> : gap \in 76 .. 78}
Blocks      == ShortBlocks \union FarBlocks
=============================================================================
