---------------------------- MODULE MCHandshake -----------------------------
(* Model-checking instance of Handshake: the constants come from the .cfg. *)
EXTENDS Handshake

(* Both shipped clients with replies that miss their deadlines; the clients *)
(* that repeat their lines, with prompt replies; each client started once,  *)
(* and any line lost but WHO?; PCUTP.BAS and its HRU.                       *)
Slow  == [peers |-> {"python", "basic"}, lost |-> Kinds, losses |-> 1, dials |-> 2,
          prompt |-> FALSE]
Lossy == [peers |-> {"python", "plain"}, lost |-> Repeated, losses |-> 3, dials |-> 3,
          prompt |-> TRUE]
Steady == [peers |-> Clients, lost |-> Kinds \ {"WHO?"}, losses |-> 2, dials |-> 1,
           prompt |-> TRUE]
LostHru == {[peers |-> {"basic"}, lost |-> {"HRU"}, losses |-> 1, dials |-> 1, prompt |-> TRUE]}
AnySetting == {Slow, Lossy, Steady}

(* The PicoCalc's offer; room for exactly two frames, and for one byte less; *)
(* a peer without FLOW, and one whose buffer is too small for any frame.     *)
Pico   == [flow |-> TRUE, maxblk |-> 4096, window |-> 2, rxbuf |-> 16384, lz4 |-> TRUE]
Narrow == [flow |-> TRUE, maxblk |-> 512, window |-> 2, rxbuf |-> 1151, lz4 |-> FALSE]
Tight  == [flow |-> TRUE, maxblk |-> 600, window |-> 2, rxbuf |-> 1328, lz4 |-> TRUE]
Legacy == [flow |-> FALSE, maxblk |-> 4096, window |-> 1, rxbuf |-> 16384, lz4 |-> FALSE]
Tiny   == [flow |-> TRUE, maxblk |-> 512, window |-> 1, rxbuf |-> 575, lz4 |-> FALSE]
AnyOffer == {Pico, Tight, Narrow, Legacy, Tiny}

(* A server started with --block 2000, less than some clients can take.     *)
Uncommon == [block |-> 2000, window |-> 2, lz4 |-> TRUE]

MeasuredMtus == {256, 512, 1024, 2048, 4096}
SomeSizes    == {0, 1, 600, 5000, 100000}
=============================================================================
