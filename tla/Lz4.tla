-------------------------------- MODULE Lz4 ---------------------------------
(***************************************************************************)
(* The block codec: compress and decompress of compression.py, one pass of *)
(* a loop per step, and UnpackLZ4 of PCUTP.BAS, which decodes in the same  *)
(* order of checks.  A block is compressed, a byte of it may be damaged or *)
(* its end lost on the way, and it is decompressed.                        *)
(*                                                                         *)
(* The format's numbers follow from the base of a nibble: half a token is  *)
(* 0 .. Base - 1, a byte 0 .. Base^2 - 1, an offset two bytes.             *)
(***************************************************************************)
EXTENDS Naturals, Sequences, FiniteSetsExt

CONSTANTS
  Base,        \* 16
  KeyLength,   \* 4: the shortest match the format can say
  MinMatch,    \* 12: the shortest match the encoder uses
  LastBytes,   \* 5: a match ends before them
  LastStart,   \* 12: no match starts behind them
  Inputs,      \* the blocks to compress
  MaxDamage    \* bound: how many bytes one behaviour damages

MaxNibble == Base - 1
MaxByte   == Base * Base - 1
MaxOffset == Base * Base * Base * Base - 1
Byte      == 0 .. MaxByte

ASSUME Lz4Assumption ==
  /\ Base \in Nat \ {0, 1}
  /\ KeyLength \in Nat \ {0} /\ MinMatch \in Nat /\ MinMatch >= KeyLength
  /\ LastBytes \in Nat \ {0} /\ LastStart \in Nat /\ LastStart >= KeyLength + LastBytes
  /\ Inputs \subseteq Seq(Byte) /\ MaxDamage \in Nat

VARIABLES
  phase,   \* compress, decompress, copy (inside a match), done or error
  data,    \* the block
  pos,     \* bytes read: of data by compress, of packed by decompress
  anchor,  \* compress: the first byte not yet written
  seen,    \* compress: the positions entered in its table
  packed,  \* the compressed block
  output,  \* decompress: the block restored so far
  source,  \* decompress: where the current match is copied from
  left,    \* decompress: bytes of it still to copy
  damage   \* bytes damaged

vars == <<phase, data, pos, anchor, seen, packed, output, source, left, damage>>

Least(a, b) == IF a < b THEN a ELSE b

(* The byte at offset i, counted from 0 as in the code. *)
At(bytes, i) == bytes[i + 1]
Slice(bytes, from, to) == SubSeq(bytes, from + 1, to)

-----------------------------------------------------------------------------
(* compress *)

(* The bytes that continue a length a nibble cannot hold. *)
LengthBytes(n) == [i \in 1 .. (n \div MaxByte) + 1 |->
                     IF i <= n \div MaxByte THEN MaxByte ELSE n % MaxByte]

(* Mutant of NibbleFull: the largest nibble is written without its bytes. *)
NibblePassed(n) == n > MaxNibble
NibbleFull(n)   == n >= MaxNibble

Continued(n) == IF NibbleFull(n) THEN LengthBytes(n - MaxNibble) ELSE <<>>

Token(literals, match) == Least(literals, MaxNibble) * Base + Least(match, MaxNibble)

Offset(n) == <<n % (MaxByte + 1), n \div (MaxByte + 1)>>

Literals == Slice(data, anchor, pos)

(* One sequence: literals, then a match of `count` bytes from `offset` back. *)
Pair(offset, count) ==
  <<Token(Len(Literals), count - KeyLength)>> \o Continued(Len(Literals)) \o Literals
  \o Offset(offset) \o Continued(count - KeyLength)

LastLiterals(bytes) == <<Token(Len(bytes), 0)>> \o Continued(Len(bytes)) \o bytes

Key(p) == Slice(data, p, p + KeyLength)

(* The table holds the last position entered for each key. *)
Earlier == {p \in seen : Key(p) = Key(pos)}

(* Mutant of Near: an offset too large for two bytes. *)
AnyDistance(p) == pos - p <= MaxOffset + 1
Near(p)        == pos - p <= MaxOffset

(* Mutant of MatchEnd: a match may reach into the last bytes. *)
OneByteLater == Len(data) - LastBytes + 1
MatchEnd     == Len(data) - LastBytes

(* How far the bytes at p and at pos agree: a key at least. *)
Differs(p) == {n \in KeyLength .. MatchEnd - pos - 1 : At(data, p + n) # At(data, pos + n)}
MatchLength(p) == Min(Differs(p) \union {MatchEnd - pos})

MoreToMatch == phase = "compress" /\ pos + LastStart <= Len(data)

Usable(p) == Near(p) /\ MatchLength(p) >= MinMatch

EncodeMatch ==
  /\ MoreToMatch /\ Earlier # {}
  /\ LET p == Max(Earlier) count == MatchLength(p) IN
     /\ Usable(p)
     /\ packed' = packed \o Pair(pos - p, count)
     /\ pos' = pos + count /\ anchor' = pos + count
  /\ seen' = seen \union {pos}
  /\ UNCHANGED <<phase, data, output, source, left, damage>>

SkipByte ==
  /\ MoreToMatch
  /\ ~(Earlier # {} /\ Usable(Max(Earlier)))
  /\ pos' = pos + 1 /\ seen' = seen \union {pos}
  /\ UNCHANGED <<phase, data, anchor, packed, output, source, left, damage>>

EncodeLast ==
  /\ phase = "compress" /\ ~MoreToMatch
  /\ packed' = packed \o LastLiterals(Slice(data, anchor, Len(data)))
  /\ phase' = "decompress" /\ pos' = 0
  /\ UNCHANGED <<data, anchor, seen, output, source, left, damage>>

-----------------------------------------------------------------------------
(* decompress.  The header says how long the block is. *)

size == Len(data)

(* A length that starts in a nibble and continues at `from`: the bytes it   *)
(* takes end with the first that is not MaxByte.                            *)
Ends(from)   == {i \in from .. Len(packed) - 1 : At(packed, i) # MaxByte}
Known(n, from)  == n < MaxNibble \/ Ends(from) # {}
Follows(n, from) == IF n < MaxNibble THEN from ELSE Min(Ends(from)) + 1
Length(n, from) ==
  IF n < MaxNibble THEN n
  ELSE MaxNibble + (Min(Ends(from)) - from) * MaxByte + At(packed, Min(Ends(from)))

(* Readable, and not beyond the block. *)
Fits(n, from) == Known(n, from) /\ (n = MaxNibble => Length(n, from) <= size)

Tok == At(packed, pos)
LitNibble == Tok \div Base
LitCount  == Length(LitNibble, pos + 1)
LitFrom   == Follows(LitNibble, pos + 1)
LitTo     == LitFrom + LitCount

LiteralsFit ==
  /\ Fits(LitNibble, pos + 1)
  /\ LitTo <= Len(packed) /\ Len(output) + LitCount <= size

Copied == output \o Slice(packed, LitFrom, LitTo)

Reject == phase' = "error" /\ UNCHANGED <<pos, output, source, left>>

Decoding == phase = "decompress" /\ UNCHANGED <<data, anchor, seen, packed, damage>>

(* The block ends with literals, with all of it restored. *)
DecodeLast ==
  /\ Decoding /\ pos < Len(packed)
  /\ LiteralsFit /\ LitTo = Len(packed)
  /\ \/ /\ Len(Copied) = size
        /\ phase' = "done" /\ pos' = LitTo /\ output' = Copied /\ UNCHANGED <<source, left>>
     \/ Len(Copied) # size /\ Reject

BackBy     == At(packed, LitTo) + At(packed, LitTo + 1) * (MaxByte + 1)
MatNibble  == Tok % Base
MatCount   == Length(MatNibble, LitTo + 2) + KeyLength

(* Mutants of MatchFits: a match from offset 0, or beyond the block. *)
OffsetZero(n, count) == n <= Len(Copied) /\ Len(Copied) + count <= size
AnyEnd(n, count)     == 1 <= n /\ n <= Len(Copied)
MatchFits(n, count)  == 1 <= n /\ n <= Len(Copied) /\ Len(Copied) + count <= size

StartMatch ==
  /\ Decoding /\ pos < Len(packed)
  /\ LiteralsFit /\ LitTo + 2 <= Len(packed) /\ Fits(MatNibble, LitTo + 2)
  /\ MatchFits(BackBy, MatCount)
  /\ phase' = "copy" /\ pos' = Follows(MatNibble, LitTo + 2)
  /\ output' = Copied /\ source' = Len(Copied) - BackBy /\ left' = MatCount

(* Truncated, or a length or an offset that cannot be. *)
DecodeFails ==
  /\ Decoding
  /\ \/ pos >= Len(packed)
     \/ pos < Len(packed) /\ ~LiteralsFit
     \/ /\ pos < Len(packed) /\ LiteralsFit /\ LitTo < Len(packed)
        /\ LitTo + 2 <= Len(packed) /\ Fits(MatNibble, LitTo + 2) => ~MatchFits(BackBy, MatCount)
  /\ Reject

(* A match may overlap what it produces: each pass copies what is there. *)
CopyChunk ==
  /\ phase = "copy"
  /\ LET count == Least(left, Len(output) - source) IN
     /\ output' = output \o Slice(output, source, source + count)
     /\ left' = left - count
     /\ phase' = IF left' = 0 THEN "decompress" ELSE "copy"
  /\ UNCHANGED <<data, pos, anchor, seen, packed, source, damage>>

-----------------------------------------------------------------------------
(* The line: a byte of the compressed block changes, or its end is missing. *)
DamageBlock ==
  /\ phase = "decompress" /\ pos = 0 /\ damage < MaxDamage
  /\ \/ \E i \in DOMAIN packed, b \in Byte :
          b # packed[i] /\ packed' = [packed EXCEPT ![i] = b]
     \/ \E n \in 0 .. Len(packed) - 1 : packed' = SubSeq(packed, 1, n)
  /\ damage' = damage + 1
  /\ UNCHANGED <<phase, data, pos, anchor, seen, output, source, left>>

Init ==
  /\ phase = "compress" /\ data \in Inputs
  /\ pos = 0 /\ anchor = 0 /\ seen = {} /\ packed = <<>>
  /\ output = <<>> /\ source = 0 /\ left = 0 /\ damage = 0

CodecStep ==
  EncodeMatch \/ SkipByte \/ EncodeLast \/ DecodeLast \/ StartMatch \/ DecodeFails \/ CopyChunk

Next == CodecStep \/ DamageBlock

Spec == Init /\ [][Next]_vars

FairSpec == Spec /\ WF_vars(CodecStep)

-----------------------------------------------------------------------------
(* Properties. *)

(* Every variable has its type: in particular every number compress writes *)
(* into a block is a byte, the second half of an offset included.          *)
TypeOK ==
  /\ phase \in {"compress", "decompress", "copy", "done", "error"}
  /\ data \in Seq(Byte) /\ packed \in Seq(Byte) /\ output \in Seq(Byte)
  /\ pos \in Nat /\ anchor \in Nat /\ source \in Nat /\ left \in Nat /\ damage \in Nat
  /\ seen \subseteq Nat

(* What compress makes of a block, decompress restores. *)
RoundTrip == damage = 0 => phase # "error" /\ (phase = "done" => output = data)

(* Whatever arrives, the decoder neither writes beyond the block the header *)
(* announced nor reads beyond the payload, and what it returns is a block.  *)
WithinBlock ==
  /\ Len(output) + left <= size
  /\ phase \in {"decompress", "copy", "done"} => pos <= Len(packed)
  /\ phase = "copy" => source < Len(output)
  /\ phase = "done" => Len(output) = size

(* A match ends before the last LastBytes bytes and starts LastStart bytes  *)
(* before the end at the latest.                                            *)
EndsInLiterals == anchor > 0 => anchor + LastBytes <= Len(data)

(* Both loops end, also for a damaged block. *)
CodecEnds == <>(phase \in {"done", "error"})

=============================================================================
