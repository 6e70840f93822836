----------------------------- MODULE Negotiation ----------------------------
(***************************************************************************)
(* What the greeting negotiates, as _handle_hello computes it from the     *)
(* options() of an offer, as the two clients check it, and what send_file  *)
(* makes of it for a file (flow.py).  An option that is absent has the     *)
(* value the code defaults to; how options are spelled is left out.        *)
(***************************************************************************)
EXTENDS Integers

CONSTANTS
  FrameOverhead,        \* FRAME_OVERHEAD
  Mtus,                 \* the block sizes that were measured
  FrameCost, ByteCost   \* choose_block's costs of a frame and of a tail byte

ASSUME NegotiationAssumption ==
  /\ FrameOverhead \in Nat \ {0} /\ Mtus \subseteq Nat \ {0}
  /\ FrameCost \in Nat /\ ByteCost \in Nat

Offer == [flow : BOOLEAN, maxblk : Nat \ {0}, window : Nat \ {0}, rxbuf : Nat, lz4 : BOOLEAN]
Limit == [block : Nat \ {0}, window : Nat \ {0}, lz4 : BOOLEAN]   \* the server's
Terms == [flow : BOOLEAN, maxblk : Nat, window : Nat, lz4 : BOOLEAN]

NoTerms == [flow |-> FALSE, maxblk |-> 0, window |-> 0, lz4 |-> FALSE]

Minimum(a, b) == IF a < b THEN a ELSE b

BlockLimit(o, limit) == Minimum(limit.block, o.maxblk)

FrameSize(block) == block + FrameOverhead

\* How many frames the receiver's buffer holds.
Capacity(o, limit) == o.rxbuf \div FrameSize(BlockLimit(o, limit))

\* Only a pipelining receiver must say what it can buffer.
CanServe(o, limit) == o.flow => Capacity(o, limit) >= 1

Proposed(o, limit) ==
  [flow   |-> o.flow,
   maxblk |-> BlockLimit(o, limit),
   window |-> IF o.flow THEN Minimum(Minimum(limit.window, o.window), Capacity(o, limit)) ELSE 1,
   lz4    |-> o.flow /\ limit.lz4 /\ o.lz4]

\* The client's own check of a proposal; PCUTP.BAS always offers LZ4.
Accepts(o, t) ==
  /\ t.lz4 => o.lz4
  /\ t.maxblk <= o.maxblk /\ t.window <= o.window
  /\ t.window * (t.maxblk + FrameOverhead) <= o.rxbuf

-----------------------------------------------------------------------------
(* choose_block: the cheapest measured size, the smaller of two that are    *)
(* equally cheap.                                                           *)

Frames(size, n) == IF size = 0 THEN 1 ELSE (size + n - 1) \div n
CostOf(size, n) == Frames(size, n) * FrameCost + Minimum(size, n) * ByteCost

AllSizes(limit)   == Mtus \union {limit}   \* mutant of Candidates: n <= limit is dropped
Candidates(limit) == {n \in Mtus \union {limit} : n <= limit}

ChooseBlock(size, limit, window) ==
  IF window = 1 THEN limit
  ELSE CHOOSE n \in Candidates(limit) : \A k \in Candidates(limit) :
         \/ CostOf(size, n) < CostOf(size, k)
         \/ CostOf(size, n) = CostOf(size, k) /\ n <= k

\* send_file: the negotiated limit for data that compresses or when the block
\* size was configured, the cheapest size otherwise.
BlocksFor(size, t) == {t.maxblk, ChooseBlock(size, t.maxblk, t.window)}
=============================================================================
