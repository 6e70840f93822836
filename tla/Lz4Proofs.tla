----------------------------- MODULE Lz4Proofs ------------------------------
(***************************************************************************)
(* Theorems about Lz4, for every base, every shortest match, every set of  *)
(* blocks and any number of damaged bytes.                                 *)
(*                                                                         *)
(* One invariant, CodecInv, carries the bounds: the types, where compress  *)
(* may stand while it encodes, and that bytes are left to copy only inside *)
(* a match, without which the bound on the output would be lost when a     *)
(* match is finished.  One lemma per action says that the action keeps it. *)
(*                                                                         *)
(* A second one, TripInv, carries the round trip.  It names the places, a  *)
(* position in the compressed block with the position in the block it      *)
(* stands for, at which a sequence begins.  compress adds a place with     *)
(* each sequence; the decoder goes from place to place.  Nothing counts    *)
(* the sequences, so no induction over the block is needed.                *)
(***************************************************************************)
EXTENDS Lz4, SequenceTheorems, WellFoundedInduction, TLAPS

-----------------------------------------------------------------------------
(* Numbers. *)

(* A set of natural numbers has the minimum that Min chooses. *)
LEMMA LeastElement ==
  ASSUME NEW T \in SUBSET Nat, T # {}
  PROVE  Min(T) \in T /\ \A y \in T : Min(T) <= y
  <1>1. PICK x \in T : \A y \in T : ~(<<y, x>> \in OpToRel(<, Nat))
    BY NatLessThanWellFounded, WFMin, Zenon
  <1>2. \A y \in T : y < x => <<y, x>> \in OpToRel(<, Nat)
    BY DEF OpToRel
  <1>3. \A y \in T : ~(y < x)
    BY <1>1, <1>2, Zenon
  <1>4. \A y \in T : x <= y
    BY <1>3, T \in SUBSET Nat
  <1> QED BY <1>4 DEF Min

(* A byte holds two nibbles. *)
LEMMA Sizes ==
  /\ Base \in Nat /\ Base >= 2 /\ MaxNibble \in Nat /\ MaxNibble = Base - 1
  /\ MaxByte \in Nat /\ MaxByte >= 3 /\ MaxByte + 1 = Base * Base
  /\ MaxOffset + 1 = (MaxByte + 1) * (MaxByte + 1) /\ MaxOffset \in Nat
  /\ Byte \subseteq Nat /\ \A n \in Nat : n <= MaxByte => n \in Byte
  <1>1. Base \in Nat /\ Base >= 2
    BY Lz4Assumption
  <1>2. Base * Base \in Nat /\ Base * Base >= 4
    <2>1. \A x \in Nat : x >= 2 => x * Base >= 2 * Base
      BY <1>1
    <2> QED BY <1>1, <2>1
  <1>3. Base * Base * Base * Base = (Base * Base) * (Base * Base)
    BY <1>1
  <1>4. (Base * Base) * (Base * Base) \in Nat /\ (Base * Base) * (Base * Base) >= 1
    <2>1. \A x \in Nat : x >= 4 => x * x \in Nat /\ x * x >= 1
      OBVIOUS
    <2> QED BY <1>2, <2>1
  <1> QED BY <1>1, <1>2, <1>3, <1>4 DEF MaxNibble, MaxByte, MaxOffset, Byte

(* Quotient and remainder of a natural number. *)
LEMMA Division ==
  ASSUME NEW n \in Nat, NEW d \in Nat, d > 0
  PROVE  /\ n \div d \in Nat /\ n % d \in Nat /\ n % d < d
         /\ n = d * (n \div d) + (n % d)
  OBVIOUS

LEMMA TokenByte ==
  ASSUME NEW literals \in Nat, NEW match \in Nat
  PROVE  Token(literals, match) \in Byte
  <1> DEFINE a == Least(literals, MaxNibble) b == Least(match, MaxNibble)
  <1>1. a \in Nat /\ a <= Base - 1 /\ b \in Nat /\ b <= Base - 1
    BY Sizes DEF Least
  <1>2. a * Base \in Nat /\ a * Base <= (Base - 1) * Base
    BY <1>1, Sizes
  <1>3. (Base - 1) * Base = Base * Base - Base
    BY Sizes
  <1>4. a * Base + b \in Nat /\ a * Base + b <= MaxByte
    BY <1>1, <1>2, <1>3, Sizes
  <1> QED BY <1>4, Sizes DEF Token

LEMMA OffsetBytes ==
  ASSUME NEW n \in Nat, n <= MaxOffset
  PROVE  Offset(n) \in Seq(Byte)
  <1> DEFINE m == MaxByte + 1
  <1>1. m \in Nat /\ m > 0 /\ n < m * m
    BY Sizes
  <1> HIDE DEF m
  <1>2. /\ n \div m \in Nat /\ n % m \in Nat /\ n % m < m
        /\ n = m * (n \div m) + (n % m)
    BY <1>1, Division
  <1>3. n \div m < m
    <2> SUFFICES ASSUME n \div m >= m PROVE FALSE
      BY <1>1, <1>2
    <2>1. \A q \in Nat : q >= m => m * q >= m * m
      BY <1>1
    <2> QED BY <1>1, <1>2, <2>1
  <1>4. n % m \in Byte /\ n \div m \in Byte
    BY <1>2, <1>3, Sizes DEF m
  <1> QED BY <1>4 DEF Offset, m

LEMMA LengthBytesType ==
  ASSUME NEW n \in Nat
  PROVE  LengthBytes(n) \in Seq(Byte)
  <1>1. n \div MaxByte \in Nat /\ n % MaxByte \in Nat /\ n % MaxByte < MaxByte
    BY Sizes, Division
  <1>2. \A i \in 1 .. (n \div MaxByte) + 1 :
          (IF i <= n \div MaxByte THEN MaxByte ELSE n % MaxByte) \in Byte
    BY <1>1, Sizes
  <1> QED BY <1>1, <1>2 DEF LengthBytes

LEMMA ContinuedType ==
  ASSUME NEW n \in Nat
  PROVE  Continued(n) \in Seq(Byte)
  <1>1. CASE n >= MaxNibble
    <2>1. n - MaxNibble \in Nat
      BY <1>1, Sizes
    <2> QED BY <1>1, <2>1, LengthBytesType DEF Continued, NibbleFull
  <1>2. CASE ~(n >= MaxNibble)
    BY <1>2, EmptySeq DEF Continued, NibbleFull
  <1> QED BY <1>1, <1>2

(* Max finds the greatest element of a bounded set. *)
LEMMA GreatestElement ==
  ASSUME NEW n \in Nat, NEW T \in SUBSET (0 .. n), T # {}
  PROVE  Max(T) \in T
  <1> DEFINE mirror == {n - x : x \in T}
  <1>1. mirror \in SUBSET Nat /\ mirror # {}
    <2>1. \A x \in T : n - x \in Nat
      OBVIOUS
    <2>2. PICK x \in T : TRUE
      OBVIOUS
    <2>3. n - x \in mirror
      BY <2>2
    <2> QED BY <2>1, <2>3
  <1>2. Min(mirror) \in mirror /\ \A y \in mirror : Min(mirror) <= y
    BY <1>1, LeastElement
  <1>3. PICK x \in T : Min(mirror) = n - x
    BY <1>2
  <1>4. \A y \in T : x >= y
    BY <1>2, <1>3
  <1> QED BY <1>4 DEF Max

LEMMA SliceType ==
  ASSUME NEW S, NEW bytes \in Seq(S), NEW from \in Nat, NEW to \in Nat, to <= Len(bytes)
  PROVE  /\ Slice(bytes, from, to) \in Seq(S)
         /\ from <= to => Len(Slice(bytes, from, to)) = to - from
  <1>1. \A i \in from + 1 .. to : bytes[i] \in S
    BY ElementOfSeq, LenProperties
  <1> QED BY <1>1, SubSeqProperties DEF Slice

-----------------------------------------------------------------------------
(* The invariant.  While it encodes, compress stays inside the block and    *)
(* its table holds positions behind the current one.                        *)
Encoding == phase = "compress" =>
  anchor <= pos /\ pos <= Len(data) /\ \A p \in seen : p < pos

(* Bytes are left to copy only inside a match. *)
NothingLeft == phase # "copy" => left = 0

CodecInv == TypeOK /\ Encoding /\ NothingLeft /\ EndsInLiterals /\ WithinBlock

LEMMA InitHolds == Init => CodecInv
  <1> SUFFICES ASSUME Init PROVE CodecInv
    OBVIOUS
  <1>1. data \in Seq(Byte)
    BY Lz4Assumption DEF Init
  <1>2. Len(data) \in Nat
    BY <1>1, LenProperties
  <1> QED BY <1>1, <1>2 DEF Init, CodecInv, TypeOK, Encoding, NothingLeft, EndsInLiterals, WithinBlock, size

-----------------------------------------------------------------------------
(* compress *)

(* What a found match is worth: it starts in the table's past and ends      *)
(* before the last LastBytes bytes.                                         *)
LEMMA MatchType ==
  ASSUME CodecInv, MoreToMatch, NEW p \in Nat
  PROVE  /\ MatchLength(p) \in Nat /\ MatchLength(p) >= KeyLength
         /\ pos + MatchLength(p) + LastBytes <= Len(data)
  <1>1. Len(data) \in Nat /\ pos \in Nat /\ pos + LastStart <= Len(data)
    BY LenProperties DEF CodecInv, TypeOK, MoreToMatch
  <1>2. MatchEnd - pos \in Nat /\ MatchEnd - pos >= KeyLength
    BY <1>1, Lz4Assumption DEF MatchEnd
  <1> DEFINE T == Differs(p) \union {MatchEnd - pos}
  <1>3. T \in SUBSET Nat /\ T # {} /\ \A n \in T : n >= KeyLength /\ n <= MatchEnd - pos
    BY <1>1, <1>2, Lz4Assumption DEF Differs
  <1>4. Min(T) \in T
    BY <1>3, LeastElement
  <1>5. MatchLength(p) \in Nat /\ MatchLength(p) >= KeyLength /\ MatchLength(p) <= MatchEnd - pos
    BY <1>3, <1>4 DEF MatchLength
  <1> QED BY <1>1, <1>5, Lz4Assumption DEF MatchEnd

LEMMA PairType ==
  ASSUME CodecInv, phase = "compress",
         NEW offset \in Nat, offset <= MaxOffset, NEW count \in Nat, count >= KeyLength
  PROVE  Pair(offset, count) \in Seq(Byte)
  <1>1. Literals \in Seq(Byte)
    BY SliceType DEF CodecInv, TypeOK, Encoding, Literals
  <1>2. Len(Literals) \in Nat /\ count - KeyLength \in Nat
    BY <1>1, LenProperties, Lz4Assumption
  <1>3. <<Token(Len(Literals), count - KeyLength)>> \in Seq(Byte)
    BY <1>2, TokenByte
  <1>4. Continued(Len(Literals)) \in Seq(Byte) /\ Continued(count - KeyLength) \in Seq(Byte)
    BY <1>2, ContinuedType
  <1>5. Offset(offset) \in Seq(Byte)
    BY OffsetBytes
  <1> QED BY <1>1, <1>3, <1>4, <1>5, ConcatProperties DEF Pair

LEMMA EncodeMatchHolds == CodecInv /\ EncodeMatch => CodecInv'
  <1> SUFFICES ASSUME CodecInv, EncodeMatch PROVE CodecInv'
    OBVIOUS
  <1> DEFINE p == Max(Earlier) count == MatchLength(p)
  <1>1. pos \in Nat /\ seen \subseteq Nat /\ packed \in Seq(Byte) /\ Len(data) \in Nat
    BY LenProperties DEF CodecInv, TypeOK
  <1>2. phase = "compress" /\ MoreToMatch
    BY DEF EncodeMatch, MoreToMatch
  <1>3. p \in Nat /\ p < pos
    <2>1. \A q \in seen : q \in 0 .. pos
      BY <1>1, <1>2 DEF CodecInv, Encoding
    <2>2. Earlier \in SUBSET (0 .. pos) /\ Earlier # {}
      BY <2>1 DEF EncodeMatch, Earlier
    <2>3. p \in Earlier
      BY <1>1, <2>2, GreatestElement
    <2> QED BY <1>1, <1>2, <2>3 DEF CodecInv, Encoding, Earlier
  <1> HIDE DEF p
  <1>4. count \in Nat /\ count >= KeyLength /\ pos + count + LastBytes <= Len(data)
    BY <1>2, <1>3, MatchType
  <1> HIDE DEF count
  <1>5. /\ packed' = packed \o Pair(pos - p, count)
        /\ pos' = pos + count /\ anchor' = pos + count /\ seen' = seen \union {pos}
        /\ UNCHANGED <<phase, data, output, source, left, damage>>
        /\ Near(p)
    BY DEF EncodeMatch, Usable, p, count
  <1>6. Pair(pos - p, count) \in Seq(Byte)
    <2>1. pos - p \in Nat /\ pos - p <= MaxOffset
      BY <1>1, <1>3, <1>5 DEF Near
    <2> QED BY <1>2, <1>4, <2>1, PairType
  <1>7. packed' \in Seq(Byte)
    BY <1>1, <1>5, <1>6, ConcatProperties
  <1>8. pos' \in Nat /\ anchor' \in Nat /\ seen' \subseteq Nat
    <2>1. pos + count \in Nat
      BY <1>1, <1>4
    <2> QED BY <1>1, <1>5, <2>1
  <1>9. TypeOK'
    BY <1>5, <1>7, <1>8 DEF CodecInv, TypeOK
  <1>10. Encoding'
    BY <1>1, <1>2, <1>4, <1>5, Lz4Assumption DEF CodecInv, Encoding
  <1>11. EndsInLiterals'
    BY <1>4, <1>5 DEF EndsInLiterals
  <1>12. NothingLeft' /\ WithinBlock'
    BY <1>2, <1>5 DEF CodecInv, NothingLeft, WithinBlock, size
  <1> QED BY <1>9, <1>10, <1>11, <1>12 DEF CodecInv

LEMMA SkipByteHolds == CodecInv /\ SkipByte => CodecInv'
  <1> SUFFICES ASSUME CodecInv, SkipByte PROVE CodecInv'
    OBVIOUS
  <1>1. /\ pos \in Nat /\ seen \subseteq Nat /\ Len(data) \in Nat
        /\ phase = "compress" /\ pos + LastStart <= Len(data)
    BY LenProperties DEF CodecInv, TypeOK, SkipByte, MoreToMatch
  <1>2. /\ pos' = pos + 1 /\ seen' = seen \union {pos}
        /\ UNCHANGED <<phase, data, anchor, packed, output, source, left, damage>>
    BY DEF SkipByte
  <1>3. TypeOK'
    BY <1>1, <1>2 DEF CodecInv, TypeOK
  <1>4. Encoding'
    BY <1>1, <1>2, Lz4Assumption DEF CodecInv, TypeOK, Encoding
  <1>5. NothingLeft' /\ EndsInLiterals' /\ WithinBlock'
    BY <1>1, <1>2 DEF CodecInv, NothingLeft, EndsInLiterals, WithinBlock, size
  <1> QED BY <1>3, <1>4, <1>5 DEF CodecInv

LEMMA EncodeLastHolds == CodecInv /\ EncodeLast => CodecInv'
  <1> SUFFICES ASSUME CodecInv, EncodeLast PROVE CodecInv'
    OBVIOUS
  <1> DEFINE tail == Slice(data, anchor, Len(data))
  <1>1. /\ packed' = packed \o LastLiterals(tail)
        /\ phase = "compress" /\ phase' = "decompress" /\ pos' = 0
        /\ UNCHANGED <<data, anchor, seen, output, source, left, damage>>
    BY DEF EncodeLast
  <1>2. Len(data) \in Nat /\ packed \in Seq(Byte)
    BY LenProperties DEF CodecInv, TypeOK
  <1>3. tail \in Seq(Byte)
    BY <1>2, SliceType DEF CodecInv, TypeOK
  <1> HIDE DEF tail
  <1>4. Len(tail) \in Nat
    BY <1>3, LenProperties
  <1>5. <<Token(Len(tail), 0)>> \in Seq(Byte) /\ Continued(Len(tail)) \in Seq(Byte)
    BY <1>4, TokenByte, ContinuedType
  <1>6. packed' \in Seq(Byte) /\ Len(packed') \in Nat
    BY <1>1, <1>2, <1>3, <1>5, ConcatProperties, LenProperties DEF LastLiterals
  <1>7. TypeOK'
    BY <1>1, <1>6 DEF CodecInv, TypeOK
  <1> QED BY <1>1, <1>6, <1>7 DEF CodecInv, Encoding, NothingLeft, EndsInLiterals, WithinBlock, size

-----------------------------------------------------------------------------
(* decompress *)

(* A length the decoder could read: what it is and where it ends. *)
LEMMA LengthType ==
  ASSUME packed \in Seq(Byte), NEW n \in Nat, NEW from \in Nat, Known(n, from)
  PROVE  /\ Length(n, from) \in Nat /\ Follows(n, from) \in Nat
         /\ from <= Len(packed) => Follows(n, from) <= Len(packed)
  <1>1. CASE n < MaxNibble
    BY <1>1 DEF Length, Follows
  <1>2. CASE ~(n < MaxNibble)
    <2> DEFINE last == Min(Ends(from))
    <2>1. Len(packed) \in Nat
      BY LenProperties
    <2>2. Ends(from) \in SUBSET Nat /\ Ends(from) # {}
      BY <1>2, <2>1 DEF Known, Ends
    <2>3. last \in Ends(from)
      BY <2>2, LeastElement
    <2> HIDE DEF last
    <2>4. last \in Nat /\ from <= last /\ last < Len(packed)
      BY <2>1, <2>3 DEF Ends
    <2>5. At(packed, last) \in Nat
      <3>1. packed[last + 1] \in Byte
        BY <2>1, <2>4, ElementOfSeq
      <3> QED BY <3>1, Sizes DEF At
    <2>6. (last - from) * MaxByte \in Nat
      BY <2>4, Sizes
    <2>7. Length(n, from) = MaxNibble + (last - from) * MaxByte + At(packed, last)
      BY <1>2 DEF Length, last
    <2>8. Follows(n, from) = last + 1
      BY <1>2 DEF Follows, last
    <2>9. Length(n, from) \in Nat
      BY <2>5, <2>6, <2>7, Sizes
    <2> QED BY <2>1, <2>4, <2>8, <2>9
  <1> QED BY <1>1, <1>2

(* The literals of a sequence that passed its checks. *)
LEMMA LiteralsType ==
  ASSUME CodecInv, phase = "decompress", pos < Len(packed), LiteralsFit
  PROVE  /\ Tok \in Nat /\ LitTo \in Nat /\ LitTo <= Len(packed)
         /\ Copied \in Seq(Byte) /\ Len(Copied) \in Nat /\ Len(Copied) <= size
  <1>1. /\ packed \in Seq(Byte) /\ Len(packed) \in Nat /\ pos \in Nat
        /\ output \in Seq(Byte) /\ Len(output) \in Nat
    BY LenProperties DEF CodecInv, TypeOK
  <1>2. Tok \in Nat
    <2>1. packed[pos + 1] \in Byte
      BY <1>1, ElementOfSeq
    <2> QED BY <2>1, Sizes DEF Tok, At
  <1>3. LitNibble \in Nat
    BY <1>2, Sizes, Division DEF LitNibble
  <1>4. Known(LitNibble, pos + 1) /\ LitTo <= Len(packed) /\ Len(output) + LitCount <= size
    BY DEF LiteralsFit, Fits
  <1>5. LitCount \in Nat /\ LitFrom \in Nat
    BY <1>1, <1>3, <1>4, LengthType DEF LitCount, LitFrom
  <1>6. LitTo \in Nat /\ LitFrom <= LitTo /\ LitTo - LitFrom = LitCount
    BY <1>5 DEF LitTo
  <1>7. /\ Slice(packed, LitFrom, LitTo) \in Seq(Byte)
        /\ Len(Slice(packed, LitFrom, LitTo)) = LitCount
    <2>1. PICK f \in Nat, t \in Nat : f = LitFrom /\ t = LitTo
      BY <1>5, <1>6
    <2>2. f <= t /\ t <= Len(packed) /\ t - f = LitCount
      BY <1>4, <1>6, <2>1
    <2>3. Slice(packed, f, t) \in Seq(Byte) /\ Len(Slice(packed, f, t)) = t - f
      <3>1. packed \in Seq(Byte) /\ f <= t /\ t <= Len(packed)
        BY <1>1, <2>2
      <3> QED BY <3>1, SliceType
    <2> QED BY <2>1, <2>2, <2>3
  <1>8. Copied \in Seq(Byte) /\ Len(Copied) = Len(output) + LitCount
    BY <1>1, <1>7, ConcatProperties DEF Copied
  <1> QED BY <1>1, <1>2, <1>4, <1>5, <1>6, <1>8

(* What every step of decompress leaves alone. *)
LEMMA DecodingKeeps ==
  ASSUME CodecInv, phase \in {"decompress", "copy"}, phase' # "compress",
         UNCHANGED <<data, anchor, seen, packed, damage>>
  PROVE  Encoding' /\ EndsInLiterals' /\ size' = size /\ Len(packed') = Len(packed)
  BY DEF CodecInv, Encoding, EndsInLiterals, size

LEMMA RejectHolds ==
  ASSUME CodecInv, Decoding, Reject
  PROVE  CodecInv'
  <1>1. /\ phase = "decompress" /\ phase' = "error"
        /\ UNCHANGED <<data, anchor, seen, packed, damage, pos, output, source, left>>
    BY DEF Decoding, Reject
  <1>2. TypeOK'
    BY <1>1 DEF CodecInv, TypeOK
  <1>3. Encoding' /\ EndsInLiterals' /\ size' = size
    BY <1>1, DecodingKeeps
  <1>4. NothingLeft' /\ WithinBlock'
    BY <1>1, <1>3 DEF CodecInv, NothingLeft, WithinBlock
  <1> QED BY <1>2, <1>3, <1>4 DEF CodecInv

LEMMA DecodeLastHolds == CodecInv /\ DecodeLast => CodecInv'
  <1> SUFFICES ASSUME CodecInv, DecodeLast PROVE CodecInv'
    OBVIOUS
  <1>1. /\ phase = "decompress" /\ pos < Len(packed) /\ LiteralsFit
        /\ UNCHANGED <<data, anchor, seen, packed, damage>>
    BY DEF DecodeLast, Decoding
  <1>2. CASE /\ Len(Copied) = size
             /\ phase' = "done" /\ pos' = LitTo /\ output' = Copied /\ UNCHANGED <<source, left>>
    <2>1. /\ LitTo \in Nat /\ LitTo <= Len(packed)
          /\ Copied \in Seq(Byte) /\ Len(Copied) \in Nat
      BY <1>1, LiteralsType
    <2>2. Encoding' /\ EndsInLiterals' /\ size' = size /\ Len(packed') = Len(packed)
      BY <1>1, <1>2, DecodingKeeps
    <2>3. TypeOK'
      BY <1>1, <1>2, <2>1 DEF CodecInv, TypeOK
    <2>4. left' = 0 /\ Len(output') = size /\ pos' <= Len(packed)
      BY <1>1, <1>2, <2>1 DEF CodecInv, NothingLeft
    <2>5. NothingLeft' /\ WithinBlock'
      BY <1>2, <2>1, <2>2, <2>4 DEF NothingLeft, WithinBlock
    <2> QED BY <2>2, <2>3, <2>5 DEF CodecInv
  <1>3. CASE Reject
    BY <1>3, RejectHolds DEF DecodeLast
  <1> QED BY <1>2, <1>3 DEF DecodeLast

LEMMA StartMatchHolds == CodecInv /\ StartMatch => CodecInv'
  <1> SUFFICES ASSUME CodecInv, StartMatch PROVE CodecInv'
    OBVIOUS
  <1>1. /\ phase = "decompress" /\ pos < Len(packed) /\ LiteralsFit
        /\ LitTo + 2 <= Len(packed) /\ Known(MatNibble, LitTo + 2) /\ MatchFits(BackBy, MatCount)
        /\ phase' = "copy" /\ pos' = Follows(MatNibble, LitTo + 2) /\ output' = Copied
        /\ source' = Len(Copied) - BackBy /\ left' = MatCount
        /\ UNCHANGED <<data, anchor, seen, packed, damage>>
    BY DEF StartMatch, Decoding, Fits
  <1>2. /\ Tok \in Nat /\ LitTo \in Nat /\ packed \in Seq(Byte) /\ Len(packed) \in Nat
        /\ Copied \in Seq(Byte) /\ Len(Copied) \in Nat
    BY <1>1, LiteralsType, LenProperties DEF CodecInv, TypeOK
  <1>3. MatNibble \in Nat
    BY <1>2, Sizes, Division DEF MatNibble
  <1>4. pos' \in Nat /\ pos' <= Len(packed) /\ MatCount \in Nat
    BY <1>1, <1>2, <1>3, LengthType, Lz4Assumption DEF MatCount
  <1>5. BackBy \in Nat
    <2>1. packed[LitTo + 1] \in Nat /\ packed[LitTo + 1 + 1] \in Nat
      <3>1. LitTo + 1 \in 1 .. Len(packed) /\ LitTo + 1 + 1 \in 1 .. Len(packed)
        BY <1>1, <1>2
      <3>2. packed[LitTo + 1] \in Byte /\ packed[LitTo + 1 + 1] \in Byte
        BY <1>2, <3>1, ElementOfSeq
      <3> QED BY <3>2, Sizes
    <2>2. packed[LitTo + 1 + 1] * (MaxByte + 1) \in Nat
      BY <2>1, Sizes
    <2> QED BY <1>2, <2>1, <2>2 DEF BackBy, At
  <1>6. 1 <= BackBy /\ BackBy <= Len(Copied) /\ Len(Copied) + MatCount <= size
    BY <1>1 DEF MatchFits
  <1>7. Encoding' /\ EndsInLiterals' /\ size' = size /\ Len(packed') = Len(packed)
    BY <1>1, DecodingKeeps
  <1>8. TypeOK'
    BY <1>1, <1>2, <1>4, <1>5, <1>6 DEF CodecInv, TypeOK
  <1>9. NothingLeft' /\ WithinBlock'
    BY <1>1, <1>2, <1>4, <1>5, <1>6, <1>7 DEF NothingLeft, WithinBlock
  <1> QED BY <1>7, <1>8, <1>9 DEF CodecInv

LEMMA CopyChunkHolds == CodecInv /\ CopyChunk => CodecInv'
  <1> SUFFICES ASSUME CodecInv, CopyChunk PROVE CodecInv'
    OBVIOUS
  <1> DEFINE count == Least(left, Len(output) - source)
             chunk == Slice(output, source, source + count)
  <1>1. /\ phase = "copy" /\ output' = output \o chunk
        /\ left' = left - count /\ phase' \in {"decompress", "copy"}
        /\ phase' # "copy" => left' = 0
        /\ UNCHANGED <<data, pos, anchor, seen, packed, source, damage>>
    BY DEF CopyChunk
  <1>2. /\ output \in Seq(Byte) /\ Len(output) \in Nat /\ left \in Nat /\ source \in Nat
        /\ source < Len(output) /\ Len(output) + left <= size /\ pos <= Len(packed)
    BY <1>1, LenProperties DEF CodecInv, TypeOK, WithinBlock
  <1>3. count \in Nat /\ count <= left /\ source + count <= Len(output)
    BY <1>2 DEF Least
  <1> HIDE DEF count
  <1>4. chunk \in Seq(Byte) /\ Len(chunk) = count
    <2>1. /\ source + count \in Nat /\ source <= source + count
          /\ (source + count) - source = count
      BY <1>2, <1>3
    <2> QED BY <1>2, <1>3, <2>1, SliceType
  <1> HIDE DEF chunk
  <1>5. output' \in Seq(Byte) /\ Len(output') = Len(output) + count
    BY <1>1, <1>2, <1>4, ConcatProperties
  <1>6. Encoding' /\ EndsInLiterals' /\ size' = size /\ Len(packed') = Len(packed)
    BY <1>1, DecodingKeeps
  <1>7. TypeOK'
    BY <1>1, <1>2, <1>3, <1>5 DEF CodecInv, TypeOK
  <1>8. /\ Len(output') + left' = Len(output) + left
        /\ source' < Len(output')
    BY <1>1, <1>2, <1>3, <1>5
  <1>9. NothingLeft' /\ WithinBlock'
    BY <1>1, <1>2, <1>6, <1>8 DEF NothingLeft, WithinBlock
  <1> QED BY <1>6, <1>7, <1>9 DEF CodecInv

-----------------------------------------------------------------------------
(* The line, and the whole. *)

LEMMA DamageHolds == CodecInv /\ DamageBlock => CodecInv'
  <1> SUFFICES ASSUME CodecInv, DamageBlock PROVE CodecInv'
    OBVIOUS
  <1>1. /\ phase = "decompress" /\ pos = 0 /\ damage' = damage + 1
        /\ UNCHANGED <<phase, data, pos, anchor, seen, output, source, left>>
    BY DEF DamageBlock
  <1>2. packed \in Seq(Byte) /\ Len(packed) \in Nat /\ DOMAIN packed = 1 .. Len(packed)
    BY LenProperties DEF CodecInv, TypeOK
  <1>3. packed' \in Seq(Byte)
    <2>1. CASE \E i \in DOMAIN packed, b \in Byte :
                 b # packed[i] /\ packed' = [packed EXCEPT ![i] = b]
      BY <1>2, <2>1, ExceptSeq
    <2>2. CASE \E n \in 0 .. Len(packed) - 1 : packed' = SubSeq(packed, 1, n)
      <3>1. PICK n \in 0 .. Len(packed) - 1 : packed' = SubSeq(packed, 1, n)
        BY <2>2
      <3>2. \A i \in 1 .. n : packed[i] \in Byte
        BY <1>2, ElementOfSeq
      <3> QED BY <3>1, <3>2, SubSeqProperties
    <2> QED BY <2>1, <2>2 DEF DamageBlock
  <1>4. Len(packed') \in Nat
    BY <1>3, LenProperties
  <1>5. TypeOK'
    BY <1>1, <1>3 DEF CodecInv, TypeOK
  <1> QED
    BY <1>1, <1>4, <1>5 DEF CodecInv, Encoding, NothingLeft, EndsInLiterals, WithinBlock, size

LEMMA NextHolds == CodecInv /\ [Next]_vars => CodecInv'
  <1> SUFFICES ASSUME CodecInv, [Next]_vars PROVE CodecInv'
    OBVIOUS
  <1>1. CASE EncodeMatch BY <1>1, EncodeMatchHolds
  <1>2. CASE SkipByte    BY <1>2, SkipByteHolds
  <1>3. CASE EncodeLast  BY <1>3, EncodeLastHolds
  <1>4. CASE DecodeLast  BY <1>4, DecodeLastHolds
  <1>5. CASE StartMatch  BY <1>5, StartMatchHolds
  <1>6. CASE DecodeFails BY <1>6, RejectHolds DEF DecodeFails
  <1>7. CASE CopyChunk   BY <1>7, CopyChunkHolds
  <1>8. CASE DamageBlock BY <1>8, DamageHolds
  <1>9. CASE UNCHANGED vars
    BY <1>9 DEF vars, CodecInv, TypeOK, Encoding, NothingLeft, EndsInLiterals, WithinBlock, size
  <1> QED
    BY <1>1, <1>2, <1>3, <1>4, <1>5, <1>6, <1>7, <1>8, <1>9 DEF Next, CodecStep

LEMMA CodecInvariant == Spec => []CodecInv
  <1> QED BY InitHolds, NextHolds, PTL DEF Spec

(* Every number compress writes fits its field: nibbles, length bytes and   *)
(* the two bytes of an offset.                                              *)
THEOREM CodecTypes == Spec => []TypeOK
  <1>1. CodecInv => TypeOK
    BY DEF CodecInv
  <1> QED BY <1>1, CodecInvariant, PTL

(* The decoder stays inside the block and the payload, for every payload    *)
(* that any number of damaged bytes can make.                               *)
THEOREM DecoderStaysWithin == Spec => []WithinBlock
  <1>1. CodecInv => WithinBlock
    BY DEF CodecInv
  <1> QED BY <1>1, CodecInvariant, PTL

(* compress leaves the last LastBytes bytes of a block to literals. *)
THEOREM MatchesEndEarly == Spec => []EndsInLiterals
  <1>1. CodecInv => EndsInLiterals
    BY DEF CodecInv
  <1> QED BY <1>1, CodecInvariant, PTL

-----------------------------------------------------------------------------
(* The round trip.  What compress has written reads as a chain of sequences *)
(* each of which stands for the next piece of the block, and the decoder    *)
(* takes them one by one.                                                   *)

(* The bytes s are found in w behind offset q. *)
Stands(w, q, s) == q + Len(s) <= Len(w) /\ \A i \in 1 .. Len(s) : w[q + i] = s[i]

LEMMA StandsConcat ==
  ASSUME NEW w \in Seq(Byte), NEW q \in Nat, NEW s \in Seq(Byte), NEW t \in Seq(Byte),
         Stands(w, q, s \o t)
  PROVE  Stands(w, q, s) /\ Stands(w, q + Len(s), t)
  <1>1. /\ Len(s) \in Nat /\ Len(t) \in Nat /\ Len(w) \in Nat
        /\ Len(s \o t) = Len(s) + Len(t)
    BY LenProperties, ConcatProperties
  <1>2. q + (Len(s) + Len(t)) <= Len(w)
    BY <1>1 DEF Stands
  <1>3. \A i \in 1 .. Len(s) : w[q + i] = s[i]
    <2> TAKE i \in 1 .. Len(s)
    <2>1. i \in 1 .. Len(s \o t) /\ (s \o t)[i] = s[i]
      BY <1>1, ConcatProperties
    <2> QED BY <2>1 DEF Stands
  <1>4. \A i \in 1 .. Len(t) : w[(q + Len(s)) + i] = t[i]
    <2> TAKE i \in 1 .. Len(t)
    <2>1. Len(s) + i \in 1 .. Len(s \o t) /\ Len(s) + i > Len(s) /\ (Len(s) + i) - Len(s) = i
      BY <1>1
    <2>2. (s \o t)[Len(s) + i] = t[i]
      BY <1>1, <2>1, ConcatProperties
    <2>3. w[q + (Len(s) + i)] = (s \o t)[Len(s) + i]
      BY <2>1 DEF Stands
    <2>4. q + (Len(s) + i) = (q + Len(s)) + i
      BY <1>1
    <2> QED BY <2>2, <2>3, <2>4
  <1> QED BY <1>1, <1>2, <1>3, <1>4 DEF Stands

(* What was written stays, and what is appended stands at the end. *)
LEMMA StandsAppend ==
  ASSUME NEW w \in Seq(Byte), NEW z \in Seq(Byte)
  PROVE  /\ Stands(w \o z, Len(w), z)
         /\ \A q \in Nat, s \in Seq(Byte) : Stands(w, q, s) => Stands(w \o z, q, s)
  <1>1. Len(w) \in Nat /\ Len(z) \in Nat /\ Len(w \o z) = Len(w) + Len(z)
    BY LenProperties, ConcatProperties
  <1>2. Stands(w \o z, Len(w), z)
    <2>1. \A i \in 1 .. Len(z) : (w \o z)[Len(w) + i] = z[i]
      <3> TAKE i \in 1 .. Len(z)
      <3>1. Len(w) + i \in 1 .. Len(w) + Len(z) /\ Len(w) + i > Len(w) /\ (Len(w) + i) - Len(w) = i
        BY <1>1
      <3> QED BY <3>1, <1>1, ConcatProperties
    <2> QED BY <1>1, <2>1 DEF Stands
  <1>3. ASSUME NEW q \in Nat, NEW s \in Seq(Byte), Stands(w, q, s)
        PROVE  Stands(w \o z, q, s)
    <2>1. Len(s) \in Nat /\ q + Len(s) <= Len(w)
      BY <1>3, LenProperties DEF Stands
    <2>2. \A i \in 1 .. Len(s) : (w \o z)[q + i] = s[i]
      <3> TAKE i \in 1 .. Len(s)
      <3>1. q + i \in 1 .. Len(w) /\ q + i \in 1 .. Len(w) + Len(z)
        BY <1>1, <2>1
      <3>2. (w \o z)[q + i] = w[q + i]
        BY <3>1, ConcatProperties
      <3> QED BY <1>3, <3>2 DEF Stands
    <2> QED BY <1>1, <2>1, <2>2 DEF Stands
  <1> QED BY <1>2, <1>3

(* The nibbles of a token, read back. *)
LEMMA TokenRead ==
  ASSUME NEW literals \in Nat, NEW match \in Nat
  PROVE  /\ Token(literals, match) \div Base = Least(literals, MaxNibble)
         /\ Token(literals, match) % Base = Least(match, MaxNibble)
  <1> DEFINE x == Least(literals, MaxNibble) y == Least(match, MaxNibble) t == x * Base + y
             q == t \div Base r == t % Base
  <1>1. x \in Nat /\ y \in Nat /\ y < Base /\ Base \in Nat /\ Base > 0
    BY Sizes DEF Least
  <1>2. Token(literals, match) = t
    BY DEF Token
  <1> HIDE DEF x, y
  <1>3. t \in Nat
    BY <1>1
  <1>4. q \in Nat /\ r \in Nat /\ r < Base /\ t = Base * q + r
    BY <1>1, <1>3, Division
  <1>5. x * Base + y = Base * q + r
    BY <1>4
  <1> HIDE DEF t, q, r
  <1>6. ~(x < q)
    <2> SUFFICES ASSUME x < q PROVE FALSE
      OBVIOUS
    <2>1. PICK e \in Nat : q = x + 1 + e
      <3>1. q - x - 1 \in Nat /\ q = x + 1 + (q - x - 1)
        BY <1>1, <1>4
      <3> QED BY <3>1
    <2>2. Base * q = Base * x + Base + Base * e /\ Base * e \in Nat /\ Base * x \in Nat
      BY <1>1, <2>1
    <2>3. x * Base = Base * x
      BY <1>1
    <2> QED BY <1>1, <1>4, <1>5, <2>2, <2>3
  <1>7. ~(x > q)
    <2> SUFFICES ASSUME x > q PROVE FALSE
      OBVIOUS
    <2>1. PICK e \in Nat : x = q + 1 + e
      <3>1. x - q - 1 \in Nat /\ x = q + 1 + (x - q - 1)
        BY <1>1, <1>4
      <3> QED BY <3>1
    <2>2. x * Base = Base * q + Base + Base * e /\ Base * e \in Nat /\ Base * q \in Nat
      BY <1>1, <1>4, <2>1
    <2> QED BY <1>1, <1>4, <1>5, <2>2
  <1>8. q = x
    BY <1>1, <1>4, <1>6, <1>7
  <1>9. r = y
    <2>1. x * Base = Base * q /\ Base * q \in Nat
      BY <1>1, <1>4, <1>8
    <2> QED BY <1>1, <1>4, <1>5, <2>1
  <1> QED BY <1>2, <1>8, <1>9 DEF x, y, q, r

(* A length, read back: the first byte that is not MaxByte ends it. *)
LEMMA LengthRead ==
  ASSUME packed \in Seq(Byte), NEW n \in Nat, NEW from \in Nat,
         Stands(packed, from, Continued(n))
  PROVE  /\ Known(Least(n, MaxNibble), from)
         /\ Length(Least(n, MaxNibble), from) = n
         /\ Follows(Least(n, MaxNibble), from) = from + Len(Continued(n))
  <1>1. CASE n < MaxNibble
    <2>1. Continued(n) = <<>> /\ Len(Continued(n)) = 0
      BY <1>1, Sizes DEF Continued, NibbleFull
    <2>2. Least(n, MaxNibble) = n
      BY <1>1, Sizes DEF Least
    <2> QED BY <1>1, <2>1, <2>2 DEF Known, Length, Follows
  <1>2. CASE ~(n < MaxNibble)
    <2> DEFINE m == n - MaxNibble k == m \div MaxByte
    <2>1. m \in Nat /\ NibbleFull(n)
      BY <1>2, Sizes DEF NibbleFull
    <2>2. /\ k \in Nat /\ m % MaxByte \in Nat /\ m % MaxByte < MaxByte
          /\ m = MaxByte * k + (m % MaxByte)
      BY <2>1, Sizes, Division
    <2>3. Least(n, MaxNibble) = MaxNibble /\ ~(MaxNibble < MaxNibble)
      BY <1>2, Sizes DEF Least
    <2>4. Continued(n) = LengthBytes(m)
      BY <2>1 DEF Continued
    <2>5. LengthBytes(m) = [i \in 1 .. k + 1 |-> IF i <= k THEN MaxByte ELSE m % MaxByte]
      BY DEF LengthBytes
    <2>6. Len(LengthBytes(m)) = k + 1
      <3>1. LengthBytes(m) \in Seq(Byte)
        BY <2>1, LengthBytesType
      <3>2. Len(LengthBytes(m)) \in Nat /\ DOMAIN LengthBytes(m) = 1 .. Len(LengthBytes(m))
        BY <3>1, LenProperties
      <3>3. DOMAIN LengthBytes(m) = 1 .. k + 1
        BY <2>5
      <3>4. \A a, b \in Nat : 1 .. a = 1 .. b => a = b
        <4> TAKE a, b \in Nat
        <4> HAVE 1 .. a = 1 .. b
        <4>1. (a > 0 => a \in 1 .. b) /\ (b > 0 => b \in 1 .. a)
          OBVIOUS
        <4> QED BY <4>1
      <3> QED BY <2>2, <3>2, <3>3, <3>4
    <2> HIDE DEF k
    <2>7. from + (k + 1) <= Len(packed) /\ \A i \in 1 .. k + 1 : packed[from + i] = LengthBytes(m)[i]
      BY <2>4, <2>6 DEF Stands
    <2>8. packed[from + (k + 1)] = m % MaxByte
      <3>1. k + 1 \in 1 .. k + 1 /\ ~(k + 1 <= k)
        BY <2>2
      <3>2. LengthBytes(m)[k + 1] = m % MaxByte
        BY <2>5, <3>1
      <3> QED BY <2>7, <3>1, <3>2
    <2>9. \A i \in 1 .. k : packed[from + i] = MaxByte
      <3> TAKE i \in 1 .. k
      <3>1. i \in 1 .. k + 1 /\ i <= k
        BY <2>2
      <3>2. LengthBytes(m)[i] = MaxByte
        BY <2>5, <3>1
      <3> QED BY <2>7, <3>1, <3>2
    <2> HIDE DEF m
    <2>10. Len(packed) \in Nat
      BY LenProperties
    <2>11. At(packed, from + k) = m % MaxByte
      <3>1. from + (k + 1) = from + k + 1
        BY <2>2
      <3> QED BY <2>8, <3>1 DEF At
    <2>12. from + k \in Ends(from)
      BY <2>2, <2>7, <2>10, <2>11, Sizes DEF Ends
    <2>13. \A j \in Ends(from) : from + k <= j
      <3> SUFFICES ASSUME NEW j \in Ends(from), j < from + k PROVE FALSE
        BY <2>2, <2>10 DEF Ends
      <3>1. j \in Nat /\ from <= j /\ packed[j + 1] # MaxByte
        BY <2>10 DEF Ends, At
      <3>2. (j - from) + 1 \in 1 .. k /\ from + ((j - from) + 1) = j + 1
        BY <2>2, <3>1
      <3> QED BY <2>9, <3>1, <3>2
    <2>14. Min(Ends(from)) = from + k
      <3>1. Ends(from) \in SUBSET Nat /\ Ends(from) # {}
        BY <2>10, <2>12 DEF Ends
      <3>2. Min(Ends(from)) \in Ends(from) /\ Min(Ends(from)) <= from + k
        BY <2>12, <3>1, LeastElement
      <3>3. Min(Ends(from)) \in Nat /\ from + k <= Min(Ends(from))
        BY <2>13, <3>1, <3>2
      <3> QED BY <2>2, <3>2, <3>3
    <2>15. Known(MaxNibble, from)
      BY <2>12 DEF Known
    <2>16. Follows(MaxNibble, from) = from + (k + 1)
      BY <2>2, <2>3, <2>14 DEF Follows
    <2>17. Length(MaxNibble, from) = MaxNibble + ((from + k) - from) * MaxByte + (m % MaxByte)
      BY <2>3, <2>11, <2>14 DEF Length
    <2>18. ((from + k) - from) * MaxByte = MaxByte * k /\ MaxByte * k \in Nat
      <3>1. (from + k) - from = k
        BY <2>2
      <3> QED BY <2>2, <3>1, Sizes
    <2>19. n = MaxNibble + m
      BY Sizes DEF m
    <2>20. Length(MaxNibble, from) = n
      BY <2>2, <2>17, <2>18, <2>19, Sizes
    <2> QED BY <2>3, <2>4, <2>6, <2>15, <2>16, <2>20
  <1> QED BY <1>1, <1>2

(* One sequence, as Pair writes it: the bytes from a on to l are literals,   *)
(* those from l on to b are a match `back` bytes behind.                     *)
PairOf(a, l, b, back) ==
  <<Token(l - a, b - l - KeyLength)>> \o Continued(l - a) \o Slice(data, a, l)
  \o Offset(back) \o Continued(b - l - KeyLength)

Repeats(l, b, back) == \A x \in l .. b - 1 : At(data, x) = At(data, x - back)

(* At c the bytes w have a sequence that leads to d: c and d are places, a   *)
(* position in the compressed block and one in the block itself.             *)
SaysSo(w, c, d, l, back) ==
  /\ c[2] <= l /\ l + KeyLength <= d[2] /\ d[2] <= Len(data)
  /\ 1 <= back /\ back <= l /\ back <= MaxOffset /\ Repeats(l, d[2], back)
  /\ Stands(w, c[1], PairOf(c[2], l, d[2], back))
  /\ d[1] = c[1] + Len(PairOf(c[2], l, d[2], back))

Says(w, c, d) == \E l, back \in Nat : SaysSo(w, c, d, l, back)

(* At c the bytes w end with the rest of the block. *)
SaysRest(w, c) ==
  /\ c[2] <= Len(data)
  /\ Stands(w, c[1], LastLiterals(Slice(data, c[2], Len(data))))
  /\ Len(w) = c[1] + Len(LastLiterals(Slice(data, c[2], Len(data))))

Places == Nat \X Nat

(* Whether the places of C are a chain, as far as compress has come ... *)
Written(C) ==
  /\ C \subseteq Places /\ <<0, 0>> \in C
  /\ \A c \in C : c = <<Len(packed), anchor>> \/ \E d \in C : Says(packed, c, d)

(* ... and when it is done. *)
Readable(C) ==
  /\ C \subseteq Places
  /\ \A c \in C : SaysRest(packed, c) \/ \E d \in C : Says(packed, c, d)

Restored(bytes) == Len(bytes) <= Len(data) /\ \A i \in 1 .. Len(bytes) : bytes[i] = data[i]

(* The match that is being copied: it repeats the block, as far back as it   *)
(* is behind now.                                                            *)
Copying(C) ==
  /\ <<pos, Len(output) + left>> \in C
  /\ Repeats(Len(output), Len(output) + left, Len(output) - source)

TripInv == damage = 0 =>
  /\ phase # "error"
  /\ phase = "compress" => output = <<>> /\ \E C \in SUBSET Places : Written(C)
  /\ phase = "decompress" =>
       Restored(output) /\ \E C \in SUBSET Places : Readable(C) /\ <<pos, Len(output)>> \in C
  /\ phase = "copy" =>
       Restored(output) /\ \E C \in SUBSET Places : Readable(C) /\ Copying(C)
  /\ phase = "done" => output = data

(* A piece of a block. *)
LEMMA SliceRead ==
  ASSUME NEW bytes \in Seq(Byte), NEW a \in Nat, NEW b \in Nat, a <= b, b <= Len(bytes)
  PROVE  /\ Slice(bytes, a, b) \in Seq(Byte) /\ Len(Slice(bytes, a, b)) = b - a
         /\ \A i \in 1 .. b - a : Slice(bytes, a, b)[i] = bytes[a + i]
  <1>1. Slice(bytes, a, b) \in Seq(Byte) /\ Len(Slice(bytes, a, b)) = b - a
    BY SliceType
  <1>2. \A i \in a + 1 .. b : bytes[i] \in Byte
    BY ElementOfSeq, LenProperties
  <1>3. \A i \in 1 .. b - a : Slice(bytes, a, b)[i] = bytes[a + i]
    <2> TAKE i \in 1 .. b - a
    <2>1. i \in 1 .. b - (a + 1) + 1 /\ (a + 1) + i - 1 = a + i
      OBVIOUS
    <2>2. SubSeq(bytes, a + 1, b)[i] = bytes[(a + 1) + i - 1]
      BY <1>2, <2>1, SubSeqProperties
    <2> QED BY <2>1, <2>2 DEF Slice
  <1> QED BY <1>1, <1>3

LEMMA PairOfType ==
  ASSUME CodecInv, NEW a \in Nat, NEW l \in Nat, NEW b \in Nat, NEW back \in Nat,
         a <= l, l + KeyLength <= b, b <= Len(data), back <= MaxOffset
  PROVE  /\ l - a \in Nat /\ b - l - KeyLength \in Nat
         /\ <<Token(l - a, b - l - KeyLength)>> \in Seq(Byte)
         /\ Continued(l - a) \in Seq(Byte) /\ Continued(b - l - KeyLength) \in Seq(Byte)
         /\ Slice(data, a, l) \in Seq(Byte) /\ Len(Slice(data, a, l)) = l - a
         /\ Offset(back) \in Seq(Byte) /\ PairOf(a, l, b, back) \in Seq(Byte)
  <1>1. l - a \in Nat /\ b - l - KeyLength \in Nat /\ l <= Len(data) /\ Len(data) \in Nat
    BY LenProperties, Lz4Assumption DEF CodecInv, TypeOK
  <1>2. Slice(data, a, l) \in Seq(Byte) /\ Len(Slice(data, a, l)) = l - a
    <2>1. data \in Seq(Byte)
      BY DEF CodecInv, TypeOK
    <2> QED BY <1>1, <2>1, SliceRead
  <1>3. <<Token(l - a, b - l - KeyLength)>> \in Seq(Byte)
    BY <1>1, TokenByte
  <1>4. Continued(l - a) \in Seq(Byte) /\ Continued(b - l - KeyLength) \in Seq(Byte)
    BY <1>1, ContinuedType
  <1>5. Offset(back) \in Seq(Byte)
    BY OffsetBytes
  <1>6. PairOf(a, l, b, back) \in Seq(Byte)
    BY <1>2, <1>3, <1>4, <1>5, ConcatProperties DEF PairOf
  <1> QED BY <1>1, <1>2, <1>3, <1>4, <1>5, <1>6

LEMMA LastLiteralsType ==
  ASSUME CodecInv, NEW a \in Nat, a <= Len(data)
  PROVE  /\ Slice(data, a, Len(data)) \in Seq(Byte)
         /\ Len(Slice(data, a, Len(data))) = Len(data) - a /\ Len(data) - a \in Nat
         /\ <<Token(Len(data) - a, 0)>> \in Seq(Byte) /\ Continued(Len(data) - a) \in Seq(Byte)
         /\ LastLiterals(Slice(data, a, Len(data))) \in Seq(Byte)
  <1>1. Len(data) \in Nat /\ data \in Seq(Byte) /\ Len(data) - a \in Nat
    BY LenProperties DEF CodecInv, TypeOK
  <1>2. /\ Slice(data, a, Len(data)) \in Seq(Byte)
        /\ Len(Slice(data, a, Len(data))) = Len(data) - a
    <2>1. \A b \in Nat : a <= b /\ b <= Len(data) =>
            Slice(data, a, b) \in Seq(Byte) /\ Len(Slice(data, a, b)) = b - a
      BY <1>1, SliceRead
    <2> QED BY <1>1, <2>1
  <1>3. <<Token(Len(data) - a, 0)>> \in Seq(Byte) /\ Continued(Len(data) - a) \in Seq(Byte)
    <2>1. PICK n \in Nat : n = Len(data) - a
      BY <1>1
    <2>2. Token(n, 0) \in Byte /\ Continued(n) \in Seq(Byte)
      BY ONLY n \in Nat, TokenByte, ContinuedType
    <2>3. <<Token(n, 0)>> \in Seq(Byte)
      BY <2>2
    <2> QED BY <2>1, <2>2, <2>3
  <1>4. LastLiterals(Slice(data, a, Len(data))) \in Seq(Byte)
    BY <1>2, <1>3, ConcatProperties DEF LastLiterals
  <1> QED BY <1>1, <1>2, <1>3, <1>4

(* What is appended does not change what a place says. *)
LEMMA SaysAppend ==
  ASSUME CodecInv, NEW z \in Seq(Byte), NEW c \in Places, NEW d \in Places, Says(packed, c, d)
  PROVE  Says(packed \o z, c, d)
  <1>1. PICK l \in Nat, back \in Nat : SaysSo(packed, c, d, l, back)
    BY DEF Says
  <1>2. c[1] \in Nat /\ c[2] \in Nat /\ d[2] \in Nat /\ packed \in Seq(Byte)
    BY DEF Places, CodecInv, TypeOK
  <1>3. PairOf(c[2], l, d[2], back) \in Seq(Byte)
    BY <1>1, <1>2, PairOfType DEF SaysSo
  <1>4. Stands(packed \o z, c[1], PairOf(c[2], l, d[2], back))
    BY <1>1, <1>2, <1>3, StandsAppend DEF SaysSo
  <1>5. SaysSo(packed \o z, c, d, l, back)
    BY <1>1, <1>4 DEF SaysSo
  <1> QED BY <1>5 DEF Says

(* The match that compress found is one: its key is the same, and no byte   *)
(* behind it differs.                                                       *)
LEMMA MatchRepeats ==
  ASSUME CodecInv, MoreToMatch, NEW p \in Nat, p < pos, Key(p) = Key(pos)
  PROVE  Repeats(pos, pos + MatchLength(p), pos - p)
  <1> DEFINE count == MatchLength(p)
  <1>1. /\ Len(data) \in Nat /\ data \in Seq(Byte) /\ pos \in Nat /\ pos + LastStart <= Len(data)
        /\ KeyLength \in Nat
    BY LenProperties, Lz4Assumption DEF CodecInv, TypeOK, MoreToMatch
  <1>2. count \in Nat /\ pos + count + LastBytes <= Len(data)
    BY MatchType
  <1>3. \A n \in Nat : n < KeyLength => At(data, p + n) = At(data, pos + n)
    <2> SUFFICES ASSUME NEW n \in Nat, n < KeyLength PROVE At(data, p + n) = At(data, pos + n)
      OBVIOUS
    <2>1. \A q \in Nat : q + KeyLength <= Len(data) => Key(q)[n + 1] = At(data, q + n)
      <3> SUFFICES ASSUME NEW q \in Nat, q + KeyLength <= Len(data)
                   PROVE  Key(q)[n + 1] = At(data, q + n)
        OBVIOUS
      <3>1. n + 1 \in 1 .. (q + KeyLength) - q /\ q + (n + 1) = q + n + 1 /\ q + KeyLength \in Nat
        BY <1>1
      <3>2. \A b \in Nat : q <= b /\ b <= Len(data) =>
              \A i \in 1 .. b - q : Slice(data, q, b)[i] = data[q + i]
        BY <1>1, SliceRead
      <3>3. q <= q + KeyLength
        BY <1>1
      <3>4. Slice(data, q, q + KeyLength)[n + 1] = data[q + (n + 1)]
        BY <3>1, <3>2, <3>3
      <3> QED BY <3>1, <3>4 DEF Key, At
    <2>2. pos + KeyLength <= Len(data) /\ p + KeyLength <= Len(data)
      BY <1>1, Lz4Assumption
    <2> QED BY <1>1, <2>1, <2>2
  <1>4. \A n \in Nat : KeyLength <= n /\ n < count => At(data, p + n) = At(data, pos + n)
    <2> SUFFICES ASSUME NEW n \in Nat, KeyLength <= n, n < count,
                        At(data, p + n) # At(data, pos + n)
                 PROVE  FALSE
      OBVIOUS
    <2>1. MatchEnd - pos \in Nat /\ MatchEnd - pos >= KeyLength /\ count <= MatchEnd - pos
      BY <1>1, <1>2, Lz4Assumption DEF MatchEnd
    <2>2. n \in Differs(p)
      BY <1>1, <1>2, <2>1 DEF Differs
    <2> DEFINE T == Differs(p) \union {MatchEnd - pos}
    <2>3. T \in SUBSET Nat /\ n \in T
      BY <1>1, <2>1, <2>2 DEF Differs
    <2>4. Min(T) <= n
      BY <2>3, LeastElement
    <2>5. count = Min(T)
      BY DEF MatchLength
    <2> QED BY <1>2, <2>4, <2>5
  <1> HIDE DEF count
  <1>5. \A n \in Nat : n < count => At(data, p + n) = At(data, pos + n)
    BY <1>1, <1>2, <1>3, <1>4
  <1>6. \A x \in pos .. (pos + count) - 1 : At(data, x) = At(data, x - (pos - p))
    <2> TAKE x \in pos .. (pos + count) - 1
    <2>1. x - pos \in Nat /\ x - pos < count /\ pos + (x - pos) = x /\ p + (x - pos) = x - (pos - p)
      BY <1>1, <1>2
    <2> QED BY <1>5, <2>1
  <1> QED BY <1>6 DEF Repeats, count

(* A step that leaves the block alone, and the compressed block too, leaves  *)
(* alone what the places say.                                               *)
LEMMA SaysNext ==
  ASSUME data' = data, NEW c, NEW d, NEW w, packed' = w
  PROVE  /\ Says(packed, c, d)' <=> Says(w, c, d)
         /\ SaysRest(packed, c)' <=> SaysRest(w, c)
  BY DEF Says, SaysSo, SaysRest, PairOf, Repeats

LEMMA ReadableNext ==
  ASSUME UNCHANGED <<data, packed>>, NEW C, Readable(C)
  PROVE  Readable(C)'
  <1>1. \A c \in C, d \in C : (Says(packed, c, d)' <=> Says(packed, c, d))
                              /\ (SaysRest(packed, c)' <=> SaysRest(packed, c))
    BY SaysNext
  <1>2. \A c \in C : SaysRest(packed, c) \/ \E d \in C : Says(packed, c, d)
    BY DEF Readable
  <1>3. \A c \in C : SaysRest(packed, c)' \/ \E d \in C : Says(packed, c, d)'
    BY <1>1, <1>2
  <1> QED BY <1>3 DEF Readable

LEMMA InitTrip == Init => TripInv
  <1> SUFFICES ASSUME Init PROVE TripInv
    OBVIOUS
  <1>1. Written({<<0, 0>>})
    BY EmptySeq DEF Init, Written, Places
  <1>2. {<<0, 0>>} \in SUBSET Places
    BY DEF Places
  <1> QED BY <1>1, <1>2 DEF Init, TripInv

LEMMA EncodeMatchTrip == CodecInv /\ TripInv /\ EncodeMatch => TripInv'
  <1> SUFFICES ASSUME CodecInv, TripInv, EncodeMatch, damage = 0 PROVE TripInv'
    BY DEF TripInv, EncodeMatch
  <1> DEFINE p == Max(Earlier) count == MatchLength(p) z == Pair(pos - p, count)
  <1>1. /\ pos \in Nat /\ anchor \in Nat /\ seen \subseteq Nat /\ packed \in Seq(Byte)
        /\ data \in Seq(Byte) /\ Len(data) \in Nat /\ Len(packed) \in Nat
    BY LenProperties DEF CodecInv, TypeOK
  <1>2. phase = "compress" /\ MoreToMatch /\ anchor <= pos /\ \A x \in seen : x < pos
    BY DEF EncodeMatch, MoreToMatch, CodecInv, Encoding
  <1>3. p \in Nat /\ p < pos /\ Key(p) = Key(pos)
    <2>1. \A q \in seen : q \in 0 .. pos
      BY <1>1, <1>2
    <2>2. Earlier \in SUBSET (0 .. pos) /\ Earlier # {}
      BY <2>1 DEF EncodeMatch, Earlier
    <2>3. p \in Earlier
      BY <1>1, <2>2, GreatestElement
    <2> QED BY <1>1, <1>2, <2>3 DEF Earlier
  <1>4. /\ packed' = packed \o z /\ anchor' = pos + count
        /\ UNCHANGED <<phase, data, output, source, left, damage>> /\ Near(p)
    BY DEF EncodeMatch, Usable
  <1> HIDE DEF p
  <1>5. count \in Nat /\ count >= KeyLength /\ pos + count + LastBytes <= Len(data)
    BY <1>2, <1>3, MatchType
  <1>6. Repeats(pos, pos + count, pos - p)
    BY <1>2, <1>3, MatchRepeats
  <1> HIDE DEF count
  <1>7. PICK l \in Nat, back \in Nat, b \in Nat : l = pos /\ back = pos - p /\ b = pos + count
    BY <1>1, <1>3, <1>5
  <1>8. b - l - KeyLength = count - KeyLength
    BY <1>1, <1>5, <1>7, Lz4Assumption
  <1>9. /\ anchor <= l /\ l + KeyLength <= b /\ b <= Len(data)
        /\ 1 <= back /\ back <= l /\ back <= MaxOffset
    BY <1>1, <1>2, <1>3, <1>4, <1>5, <1>7, Lz4Assumption DEF Near
  <1>10. /\ Slice(data, anchor, l) \in Seq(Byte) /\ Len(Slice(data, anchor, l)) = l - anchor
         /\ PairOf(anchor, l, b, back) \in Seq(Byte)
    BY <1>1, <1>9, PairOfType
  <1>11. z = PairOf(anchor, l, b, back)
    <2>1. Literals = Slice(data, anchor, l)
      BY <1>7 DEF Literals
    <2> QED BY <1>7, <1>8, <1>10, <2>1 DEF Pair, PairOf
  <1> HIDE DEF z
  <1>12. PICK s \in Seq(Byte) : s = z
    BY <1>10, <1>11
  <1>13. PICK C \in SUBSET Places : Written(C)
    BY <1>2 DEF TripInv
  <1>14. PICK a \in Places : a = <<Len(packed), anchor>>
    BY <1>1 DEF Places
  <1>15. Len(s) \in Nat /\ Len(packed \o s) = Len(packed) + Len(s)
    BY <1>1, <1>12, LenProperties, ConcatProperties
  <1>16. PICK e \in Places : e = <<Len(packed) + Len(s), b>>
    <2>1. Len(packed) + Len(s) \in Nat
      BY <1>1, <1>15
    <2>2. <<Len(packed) + Len(s), b>> \in Places
      BY <2>1 DEF Places
    <2> QED BY <2>2
  <1>17. SaysSo(packed \o s, a, e, l, back)
    <2>1. a[1] = Len(packed) /\ a[2] = anchor /\ e[1] = Len(packed) + Len(s) /\ e[2] = b
      BY <1>14, <1>16
    <2>2. Repeats(l, b, back)
      BY <1>6, <1>7
    <2>3. Stands(packed \o s, Len(packed), s)
      BY <1>1, StandsAppend
    <2>4. s = PairOf(a[2], l, e[2], back)
      BY <1>11, <1>12, <2>1
    <2> HIDE DEF PairOf
    <2> QED BY <1>9, <2>1, <2>2, <2>3, <2>4 DEF SaysSo
  <1>18. Says(packed \o s, a, e)
    BY <1>17 DEF Says
  <1>19. packed' = packed \o s /\ data' = data /\ e = <<Len(packed'), anchor'>>
    BY <1>4, <1>7, <1>12, <1>15, <1>16
  <1>20. \A c \in C : \E d \in C \union {e} : Says(packed, c, d)'
    <2> TAKE c \in C
    <2>1. CASE c = <<Len(packed), anchor>>
      <3>1. Says(packed, c, e)'
        BY <1>14, <1>18, <1>19, <2>1, SaysNext
      <3> QED BY <3>1
    <2>2. CASE \E d \in C : Says(packed, c, d)
      <3>1. PICK d \in C : Says(packed, c, d)
        BY <2>2
      <3>2. c \in Places /\ d \in Places
        OBVIOUS
      <3>3. Says(packed \o s, c, d)
        BY <3>1, <3>2, SaysAppend
      <3>4. Says(packed, c, d)'
        BY <1>19, <3>3, SaysNext
      <3> QED BY <3>4
    <2> QED BY <1>13, <2>1, <2>2 DEF Written
  <1>21. Written(C \union {e})'
    <2>1. <<0, 0>> \in C
      BY <1>13 DEF Written
    <2> QED BY <1>19, <1>20, <2>1 DEF Written
  <1>22. C \union {e} \in SUBSET Places /\ output = <<>>
    BY <1>2 DEF TripInv
  <1> QED BY <1>2, <1>4, <1>21, <1>22 DEF TripInv

LEMMA SkipByteTrip == CodecInv /\ TripInv /\ SkipByte => TripInv'
  <1> SUFFICES ASSUME CodecInv, TripInv, SkipByte, damage = 0 PROVE TripInv'
    BY DEF TripInv, SkipByte
  <1>1. phase = "compress" /\ UNCHANGED <<phase, data, anchor, packed, output, damage>>
    BY DEF SkipByte, MoreToMatch
  <1>2. PICK C \in SUBSET Places : Written(C)
    BY <1>1 DEF TripInv
  <1>3. \A c \in C, d \in C : Says(packed, c, d)' <=> Says(packed, c, d)
    BY <1>1, SaysNext
  <1>4. /\ C \subseteq Places /\ <<0, 0>> \in C
        /\ \A c \in C : c = <<Len(packed), anchor>> \/ \E d \in C : Says(packed, c, d)
    BY <1>2 DEF Written
  <1>5. \A c \in C : c = <<Len(packed'), anchor'>> \/ \E d \in C : Says(packed, c, d)'
    BY <1>1, <1>3, <1>4
  <1>6. Written(C)'
    BY <1>4, <1>5 DEF Written
  <1> QED BY <1>1, <1>6 DEF TripInv

LEMMA EncodeLastTrip == CodecInv /\ TripInv /\ EncodeLast => TripInv'
  <1> SUFFICES ASSUME CodecInv, TripInv, EncodeLast, damage = 0 PROVE TripInv'
    BY DEF TripInv, EncodeLast
  <1> DEFINE z == LastLiterals(Slice(data, anchor, Len(data)))
  <1>1. /\ packed' = packed \o z /\ phase = "compress" /\ phase' = "decompress" /\ pos' = 0
        /\ UNCHANGED <<data, output, damage>>
    BY DEF EncodeLast
  <1>2. /\ packed \in Seq(Byte) /\ Len(packed) \in Nat /\ anchor \in Nat /\ Len(data) \in Nat
        /\ anchor <= Len(data)
    BY <1>1, LenProperties DEF CodecInv, TypeOK, Encoding
  <1>3. z \in Seq(Byte)
    BY <1>2, LastLiteralsType
  <1> HIDE DEF z
  <1>4. PICK s \in Seq(Byte) : s = z
    BY <1>3
  <1>5. PICK C \in SUBSET Places : Written(C)
    BY <1>1 DEF TripInv
  <1>6. packed' = packed \o s /\ data' = data
    BY <1>1, <1>4
  <1>7. \A c \in C : SaysRest(packed, c)' \/ \E d \in C : Says(packed, c, d)'
    <2> TAKE c \in C
    <2>1. CASE c = <<Len(packed), anchor>>
      <3>1. c[1] = Len(packed) /\ c[2] = anchor
        BY <2>1
      <3>2. Stands(packed \o s, Len(packed), s) /\ Len(packed \o s) = Len(packed) + Len(s)
        BY <1>2, StandsAppend, ConcatProperties
      <3>3. SaysRest(packed \o s, c)
        BY <1>2, <1>4, <3>1, <3>2 DEF SaysRest, z
      <3> QED BY <1>6, <3>3, SaysNext
    <2>2. CASE \E d \in C : Says(packed, c, d)
      <3>1. PICK d \in C : Says(packed, c, d)
        BY <2>2
      <3>2. c \in Places /\ d \in Places
        OBVIOUS
      <3>3. Says(packed \o s, c, d)
        BY <3>1, <3>2, SaysAppend
      <3>4. Says(packed, c, d)'
        BY <1>6, <3>3, SaysNext
      <3> QED BY <3>4
    <2> QED BY <1>5, <2>1, <2>2 DEF Written
  <1>8. Readable(C)' /\ <<0, 0>> \in C
    BY <1>5, <1>7 DEF Readable, Written
  <1>9. output = <<>> /\ Len(<<>>) = 0
    BY <1>1, EmptySeq DEF TripInv
  <1>10. Restored(output)' /\ <<pos', Len(output')>> \in C
    BY <1>1, <1>2, <1>8, <1>9 DEF Restored
  <1> QED BY <1>1, <1>8, <1>10 DEF TripInv

(* The literals of a sequence, read back: the block is restored so far. *)
LEMMA LiteralsRead ==
  ASSUME CodecInv, phase = "decompress", Restored(output),
         NEW n \in Nat, NEW match \in Nat, NEW s \in Seq(Byte),
         s = Slice(data, Len(output), Len(output) + n), Len(output) + n <= Len(data),
         Stands(packed, pos, <<Token(n, match)>> \o Continued(n) \o s)
  PROVE  /\ pos < Len(packed) /\ LiteralsFit
         /\ MatNibble = Least(match, MaxNibble)
         /\ LitTo = pos + Len(<<Token(n, match)>> \o Continued(n) \o s)
         /\ Restored(Copied) /\ Len(Copied) = Len(output) + n
  <1> DEFINE token == Token(n, match) more == Continued(n) len == Len(output)
  <1>1. /\ packed \in Seq(Byte) /\ Len(packed) \in Nat /\ pos \in Nat /\ data \in Seq(Byte)
        /\ Len(data) \in Nat /\ output \in Seq(Byte) /\ len \in Nat
    BY LenProperties DEF CodecInv, TypeOK
  <1>a. len = Len(output) /\ s = Slice(data, len, len + n) /\ len + n <= Len(data)
    OBVIOUS
  <1> HIDE DEF len
  <1>2. <<token>> \in Seq(Byte) /\ more \in Seq(Byte) /\ Len(<<token>>) = 1 /\ <<token>>[1] = token
    BY TokenByte, ContinuedType
  <1>3. Len(s) = n /\ \A i \in 1 .. n : s[i] = data[len + i]
    <2>1. PICK b \in Nat : b = len + n
      BY <1>1, <1>a
    <2>2. len <= b /\ b <= Len(data) /\ b - len = n /\ s = Slice(data, len, b)
      BY <1>1, <1>a, <2>1
    <2>3. /\ Len(Slice(data, len, b)) = b - len
          /\ \A i \in 1 .. b - len : Slice(data, len, b)[i] = data[len + i]
      <3>1. data \in Seq(Byte) /\ len \in Nat /\ len <= b /\ b <= Len(data)
        BY <1>1, <2>2
      <3> QED BY <3>1, SliceRead
    <2> QED BY <2>2, <2>3
  <1>4. Len(more) \in Nat /\ Len(<<token>> \o more \o s) = 1 + Len(more) + n
    <2>1. <<token>> \o more \in Seq(Byte) /\ Len(<<token>> \o more) = 1 + Len(more)
      BY <1>2, ConcatProperties
    <2>2. Len((<<token>> \o more) \o s) = Len(<<token>> \o more) + Len(s)
      BY <2>1, ConcatProperties
    <2>3. Len(more) \in Nat
      BY <1>2, LenProperties
    <2> QED BY <1>3, <2>1, <2>2, <2>3
  <1>5. Stands(packed, pos, <<token>> \o more) /\ Stands(packed, pos + Len(<<token>> \o more), s)
    <2>1. <<token>> \o more \in Seq(Byte)
      BY <1>2, ConcatProperties
    <2> QED BY <1>1, <2>1, StandsConcat
  <1>6. Stands(packed, pos, <<token>>) /\ Stands(packed, pos + 1, more)
    BY <1>1, <1>2, <1>5, StandsConcat
  <1>7. Len(<<token>> \o more) = 1 + Len(more)
    BY <1>2, ConcatProperties
  <1> DEFINE from == pos + 1 + Len(more)
  <1>8. from \in Nat /\ from = pos + Len(<<token>> \o more)
    BY <1>1, <1>4, <1>7
  <1>9. from + n <= Len(packed) /\ \A i \in 1 .. n : packed[from + i] = s[i]
    BY <1>3, <1>5, <1>8 DEF Stands
  <1>10. pos + 1 <= Len(packed) /\ packed[pos + 1] = token
    <2>1. 1 \in 1 .. Len(<<token>>)
      BY <1>2
    <2> QED BY <1>2, <1>6, <2>1 DEF Stands
  <1>11. Tok = token
    BY <1>10 DEF Tok, At
  <1>12. LitNibble = Least(n, MaxNibble) /\ MatNibble = Least(match, MaxNibble)
    BY <1>11, TokenRead DEF LitNibble, MatNibble
  <1>13. /\ Known(LitNibble, pos + 1) /\ Length(LitNibble, pos + 1) = n
         /\ Follows(LitNibble, pos + 1) = pos + 1 + Len(more)
    <2>1. pos + 1 \in Nat
      BY <1>1
    <2> QED BY <1>1, <1>6, <1>12, <2>1, LengthRead
  <1>14. LitCount = n /\ LitFrom = from /\ LitTo = from + n
    BY <1>13 DEF LitCount, LitFrom, LitTo
  <1>15. len + n <= size /\ n <= size
    BY <1>1, <1>a DEF size
  <1>16. LiteralsFit
    BY <1>a, <1>9, <1>13, <1>14, <1>15 DEF LiteralsFit, Fits, LitCount
  <1> HIDE DEF from
  <1>17. /\ Slice(packed, from, from + n) \in Seq(Byte) /\ Len(Slice(packed, from, from + n)) = n
         /\ \A i \in 1 .. n : Slice(packed, from, from + n)[i] = data[len + i]
    <2>1. \A b \in Nat : from <= b /\ b <= Len(packed) =>
            /\ Slice(packed, from, b) \in Seq(Byte) /\ Len(Slice(packed, from, b)) = b - from
            /\ \A i \in 1 .. b - from : Slice(packed, from, b)[i] = packed[from + i]
      <3> TAKE b \in Nat
      <3> HAVE from <= b /\ b <= Len(packed)
      <3>1. packed \in Seq(Byte) /\ from \in Nat
        BY <1>1, <1>8
      <3> QED BY <3>1, SliceRead
    <2>2. from + n \in Nat /\ from <= from + n /\ (from + n) - from = n
      BY <1>8
    <2> QED
      <3>1. PICK b \in Nat : b = from + n
        BY <2>2
      <3>2. /\ Slice(packed, from, b) \in Seq(Byte) /\ Len(Slice(packed, from, b)) = n
            /\ \A i \in 1 .. n : Slice(packed, from, b)[i] = packed[from + i]
        BY <1>9, <2>1, <2>2, <3>1
      <3>3. \A i \in 1 .. n : packed[from + i] = data[len + i]
        BY <1>3, <1>9
      <3> QED BY <3>1, <3>2, <3>3
  <1>18. PICK t \in Seq(Byte) : t = Slice(packed, from, from + n)
    BY <1>17
  <1>19. Copied = output \o t /\ Len(Copied) = len + n
    <2>1. Len(output \o t) = Len(output) + Len(t)
      BY <1>1, ConcatProperties
    <2> QED BY <1>a, <1>14, <1>17, <1>18, <2>1 DEF Copied
  <1>20. \A i \in 1 .. len + n : Copied[i] = data[i]
    <2> TAKE i \in 1 .. len + n
    <2>1. Copied[i] = IF i <= len THEN output[i] ELSE t[i - len]
      BY <1>1, <1>a, <1>17, <1>18, <1>19, ConcatProperties
    <2>2. CASE i <= len
      BY <1>1, <1>a, <2>1, <2>2 DEF Restored
    <2>3. CASE ~(i <= len)
      <3>1. i - len \in 1 .. n /\ len + (i - len) = i
        BY <1>1, <2>3
      <3> QED BY <1>17, <1>18, <2>1, <2>3, <3>1
    <2> QED BY <2>2, <2>3
  <1>21. LitTo = pos + Len(<<token>> \o more \o s)
    <2>1. PICK p \in Nat, m \in Nat : p = pos /\ m = Len(more)
      BY <1>1, <1>4
    <2>2. Len(<<token>> \o more \o s) = 1 + m + n
      BY <1>4, <2>1
    <2>3. LitTo = (p + 1 + m) + n
      BY <1>14, <2>1 DEF from
    <2>4. (p + 1 + m) + n = p + (1 + m + n)
      OBVIOUS
    <2> QED BY <2>1, <2>2, <2>3, <2>4
  <1>22. pos < Len(packed)
    BY <1>1, <1>10
  <1>23. Len(Copied) = Len(output) + n
    BY <1>a, <1>19
  <1>24. Restored(Copied)
    <2>1. Len(Copied) <= size /\ \A i \in 1 .. Len(Copied) : Copied[i] = data[i]
      BY <1>15, <1>19, <1>20
    <2> QED BY <2>1 DEF Restored, size
  <1> QED BY <1>12, <1>16, <1>21, <1>22, <1>23, <1>24

(* A sequence with a match, read back. *)
LEMMA PairRead ==
  ASSUME CodecInv, phase = "decompress", Restored(output),
         NEW d \in Places, NEW l \in Nat, NEW back \in Nat,
         SaysSo(packed, <<pos, Len(output)>>, d, l, back)
  PROVE  /\ pos < Len(packed) /\ LiteralsFit /\ LitTo + 2 <= Len(packed)
         /\ Fits(MatNibble, LitTo + 2) /\ MatchFits(BackBy, MatCount)
         /\ BackBy = back /\ MatCount = d[2] - l /\ Follows(MatNibble, LitTo + 2) = d[1]
         /\ Restored(Copied) /\ Len(Copied) = l
  <1>1. /\ packed \in Seq(Byte) /\ Len(packed) \in Nat /\ pos \in Nat /\ Len(data) \in Nat
        /\ Len(output) \in Nat /\ d[1] \in Nat /\ d[2] \in Nat /\ KeyLength \in Nat \ {0}
    BY LenProperties, Lz4Assumption DEF CodecInv, TypeOK, Places
  <1>2. PICK a \in Nat : a = Len(output)
    BY <1>1
  <1>3. PICK b \in Nat : b = d[2]
    BY <1>1
  <1>4. /\ a <= l /\ l + KeyLength <= b /\ b <= Len(data)
        /\ 1 <= back /\ back <= l /\ back <= MaxOffset
        /\ Stands(packed, pos, PairOf(a, l, b, back)) /\ d[1] = pos + Len(PairOf(a, l, b, back))
    BY <1>2, <1>3 DEF SaysSo
  <1> DEFINE n == l - a match == b - l - KeyLength
             head == <<Token(n, match)>> \o Continued(n) \o Slice(data, a, l)
  <1>5. /\ n \in Nat /\ match \in Nat /\ <<Token(n, match)>> \in Seq(Byte)
        /\ Continued(n) \in Seq(Byte) /\ Continued(match) \in Seq(Byte)
        /\ Slice(data, a, l) \in Seq(Byte) /\ Offset(back) \in Seq(Byte)
    BY <1>1, <1>4, PairOfType
  <1>6. head \in Seq(Byte) /\ head \o Offset(back) \in Seq(Byte)
    BY <1>5, ConcatProperties
  <1>7. PairOf(a, l, b, back) = (head \o Offset(back)) \o Continued(match)
    BY DEF PairOf
  <1>8. /\ Stands(packed, pos, head \o Offset(back))
        /\ Stands(packed, pos + Len(head \o Offset(back)), Continued(match))
    <2>1. PICK t \in Seq(Byte), c \in Seq(Byte) : t = head \o Offset(back) /\ c = Continued(match)
      BY <1>5, <1>6
    <2>2. Stands(packed, pos, t \o c)
      BY <1>4, <1>7, <2>1
    <2>3. Stands(packed, pos, t) /\ Stands(packed, pos + Len(t), c)
      BY <1>1, <2>2, StandsConcat
    <2> QED BY <2>1, <2>3
  <1>9. Stands(packed, pos, head) /\ Stands(packed, pos + Len(head), Offset(back))
    BY <1>1, <1>5, <1>6, <1>8, StandsConcat
  <1>10. Len(Offset(back)) = 2
    BY DEF Offset
  <1>11. Len(head) \in Nat /\ Len(head \o Offset(back)) = Len(head) + 2
    <2>1. PICK t \in Seq(Byte) : t = head
      BY <1>6
    <2>2. Len(t) \in Nat /\ Len(t \o Offset(back)) = Len(t) + Len(Offset(back))
      BY <1>5, LenProperties, ConcatProperties
    <2> QED BY <1>10, <2>1, <2>2
  <1>12. Len(PairOf(a, l, b, back)) = (Len(head) + 2) + Len(Continued(match))
    <2>1. PICK t \in Seq(Byte) : t = head \o Offset(back)
      BY <1>6
    <2>2. Len(t \o Continued(match)) = Len(t) + Len(Continued(match))
      BY <1>5, ConcatProperties
    <2> QED BY <1>7, <1>11, <2>1, <2>2
  <1>13. a + n = l /\ l <= Len(data)
    BY <1>1, <1>4
  <1>14. /\ pos < Len(packed) /\ LiteralsFit
         /\ MatNibble = Least(match, MaxNibble) /\ LitTo = pos + Len(head)
         /\ Restored(Copied) /\ Len(Copied) = l
    <2>1. PICK s \in Seq(Byte) : s = Slice(data, a, l)
      BY <1>5
    <2>2. PICK k \in Nat : k = n
      BY <1>5
    <2>3. PICK m \in Nat : m = match
      BY <1>5
    <2>4. Stands(packed, pos, <<Token(k, m)>> \o Continued(k) \o s)
      BY <1>9, <2>1, <2>2, <2>3
    <2>5. s = Slice(data, Len(output), Len(output) + k) /\ Len(output) + k <= Len(data)
      BY <1>2, <1>13, <2>1, <2>2
    <2>6. /\ pos < Len(packed) /\ LiteralsFit /\ MatNibble = Least(m, MaxNibble)
          /\ LitTo = pos + Len(<<Token(k, m)>> \o Continued(k) \o s)
          /\ Restored(Copied) /\ Len(Copied) = Len(output) + k
      BY <2>4, <2>5, LiteralsRead
    <2> QED BY <1>2, <1>13, <2>1, <2>2, <2>3, <2>6
  <1> HIDE DEF head
  <1>15. LitTo \in Nat /\ LitTo + 2 <= Len(packed)
    <2>1. PICK q \in Nat : q = pos + Len(head)
      BY <1>1, <1>11
    <2>2. q + Len(Offset(back)) <= Len(packed)
      BY <1>9, <2>1 DEF Stands
    <2> QED BY <1>10, <1>14, <2>1, <2>2
  <1>16. BackBy = back
    <2> DEFINE w == MaxByte + 1
    <2>1. w \in Nat /\ w > 0
      BY Sizes
    <2> HIDE DEF w
    <2>2. back \div w \in Nat /\ back % w \in Nat /\ back = w * (back \div w) + (back % w)
      BY <2>1, Division
    <2>3. packed[LitTo + 1] = back % w /\ packed[LitTo + 2] = back \div w
      <3>1. \A i \in 1 .. 2 : packed[LitTo + i] = Offset(back)[i]
        BY <1>9, <1>10, <1>14 DEF Stands
      <3>2. Offset(back)[1] = back % w /\ Offset(back)[2] = back \div w
        BY DEF Offset, w
      <3> QED BY <3>1, <3>2
    <2>4. At(packed, LitTo) = back % w /\ At(packed, LitTo + 1) = back \div w
      <3>1. LitTo + 1 + 1 = LitTo + 2
        BY <1>15
      <3> QED BY <2>3, <3>1 DEF At
    <2>5. BackBy = (back % w) + (back \div w) * w
      BY <2>4 DEF BackBy, w
    <2>6. \A x \in Nat : x * w = w * x /\ w * x \in Nat
      BY <2>1
    <2> QED BY <2>2, <2>5, <2>6
  <1>17. /\ Known(MatNibble, LitTo + 2) /\ Length(MatNibble, LitTo + 2) = match
         /\ Follows(MatNibble, LitTo + 2) = (LitTo + 2) + Len(Continued(match))
    <2>1. PICK q \in Nat : q = LitTo + 2
      BY <1>15
    <2>2. PICK m \in Nat : m = match
      BY <1>5
    <2>3. Stands(packed, q, Continued(m))
      <3>1. pos + (Len(head) + 2) = (pos + Len(head)) + 2
        BY <1>1, <1>11
      <3> QED BY <1>8, <1>11, <1>14, <2>1, <2>2, <3>1
    <2>4. /\ Known(Least(m, MaxNibble), q) /\ Length(Least(m, MaxNibble), q) = m
          /\ Follows(Least(m, MaxNibble), q) = q + Len(Continued(m))
      BY <1>1, <2>3, LengthRead
    <2> QED BY <1>14, <2>1, <2>2, <2>4
  <1>18. MatCount = b - l
    BY <1>1, <1>17 DEF MatCount
  <1>19. Fits(MatNibble, LitTo + 2)
    <2>1. match <= size
      BY <1>1, <1>4 DEF size
    <2> QED BY <1>17, <2>1 DEF Fits
  <1>20. MatchFits(BackBy, MatCount)
    BY <1>1, <1>4, <1>14, <1>16, <1>18 DEF MatchFits, size
  <1>21. Follows(MatNibble, LitTo + 2) = d[1]
    <2>1. Len(Continued(match)) \in Nat
      BY <1>5, LenProperties
    <2>2. \A x, y, c \in Nat : ((x + y) + 2) + c = x + ((y + 2) + c)
      OBVIOUS
    <2> QED BY <1>1, <1>4, <1>11, <1>12, <1>14, <1>17, <2>1, <2>2
  <1> QED BY <1>3, <1>14, <1>15, <1>16, <1>18, <1>19, <1>20, <1>21

(* The last sequence, read back. *)
LEMMA RestRead ==
  ASSUME CodecInv, phase = "decompress", Restored(output), SaysRest(packed, <<pos, Len(output)>>)
  PROVE  /\ pos < Len(packed) /\ LiteralsFit /\ LitTo = Len(packed)
         /\ Restored(Copied) /\ Len(Copied) = size
  <1>1. /\ packed \in Seq(Byte) /\ Len(packed) \in Nat /\ pos \in Nat /\ Len(data) \in Nat
        /\ Len(output) \in Nat /\ data \in Seq(Byte)
    BY LenProperties DEF CodecInv, TypeOK
  <1>2. PICK a \in Nat : a = Len(output)
    BY <1>1
  <1>3. a <= Len(data)
    BY <1>2 DEF SaysRest
  <1>4. PICK n \in Nat : n = Len(data) - a
    BY <1>1, <1>3
  <1>5. PICK s \in Seq(Byte) : s = Slice(data, a, Len(data)) /\ Len(s) = n
    BY <1>3, <1>4, LastLiteralsType
  <1>6. LastLiterals(Slice(data, a, Len(data))) = <<Token(n, 0)>> \o Continued(n) \o s
    BY <1>5 DEF LastLiterals
  <1>7. /\ Stands(packed, pos, <<Token(n, 0)>> \o Continued(n) \o s)
        /\ Len(packed) = pos + Len(<<Token(n, 0)>> \o Continued(n) \o s)
    BY <1>2, <1>6 DEF SaysRest
  <1>8. a + n = Len(data)
    BY <1>1, <1>4
  <1>9. s = Slice(data, Len(output), Len(output) + n) /\ Len(output) + n <= Len(data)
    <2>1. PICK e \in Nat : e = Len(data) /\ e = a + n
      BY <1>1, <1>8
    <2>2. s = Slice(data, a, e)
      BY <1>5, <2>1
    <2>3. a + n <= Len(data)
      BY <2>1
    <2> QED BY <1>2, <2>1, <2>2, <2>3
  <1>10. /\ pos < Len(packed) /\ LiteralsFit
         /\ LitTo = pos + Len(<<Token(n, 0)>> \o Continued(n) \o s)
         /\ Restored(Copied) /\ Len(Copied) = Len(output) + n
    BY <1>7, <1>9, LiteralsRead
  <1> QED BY <1>2, <1>7, <1>8, <1>10 DEF size

(* The decoder stands where a sequence begins: what it can do there. *)
LEMMA NextPlace ==
  ASSUME CodecInv, TripInv, damage = 0, phase = "decompress"
  PROVE  \E C \in SUBSET Places :
           /\ Readable(C) /\ Restored(output)
           /\ \/ SaysRest(packed, <<pos, Len(output)>>)
              \/ \E d \in C, l, back \in Nat :
                   d \in Places /\ SaysSo(packed, <<pos, Len(output)>>, d, l, back)
  <1>1. PICK C \in SUBSET Places : Readable(C) /\ <<pos, Len(output)>> \in C
    BY DEF TripInv
  <1>2. SaysRest(packed, <<pos, Len(output)>>) \/ \E d \in C : Says(packed, <<pos, Len(output)>>, d)
    BY <1>1 DEF Readable
  <1>3. \A d \in C : d \in Places
    OBVIOUS
  <1>4. SaysRest(packed, <<pos, Len(output)>>)
        \/ \E d \in C, l, back \in Nat :
             d \in Places /\ SaysSo(packed, <<pos, Len(output)>>, d, l, back)
    BY <1>2, <1>3 DEF Says
  <1>5. Restored(output)
    BY DEF TripInv
  <1> QED BY <1>1, <1>4, <1>5

LEMMA DecodeFailsTrip == CodecInv /\ TripInv /\ DecodeFails => TripInv'
  <1> SUFFICES ASSUME CodecInv, TripInv, DecodeFails, damage = 0 PROVE FALSE
    BY DEF TripInv, DecodeFails, Decoding
  <1>1. phase = "decompress"
    BY DEF DecodeFails, Decoding
  <1>2. /\ Restored(output)
        /\ \/ SaysRest(packed, <<pos, Len(output)>>)
           \/ \E d \in Places, l, back \in Nat : SaysSo(packed, <<pos, Len(output)>>, d, l, back)
    BY <1>1, NextPlace
  <1>3. Len(packed) \in Nat /\ pos \in Nat
    BY LenProperties DEF CodecInv, TypeOK
  <1>4. CASE SaysRest(packed, <<pos, Len(output)>>)
    <2>1. pos < Len(packed) /\ LiteralsFit /\ LitTo = Len(packed)
      BY <1>1, <1>2, <1>4, RestRead
    <2> QED BY <1>3, <2>1 DEF DecodeFails
  <1>5. CASE \E d \in Places, l, back \in Nat : SaysSo(packed, <<pos, Len(output)>>, d, l, back)
    <2>1. /\ pos < Len(packed) /\ LiteralsFit /\ LitTo + 2 <= Len(packed)
          /\ Fits(MatNibble, LitTo + 2) /\ MatchFits(BackBy, MatCount)
      BY <1>1, <1>2, <1>5, PairRead
    <2> QED BY <1>3, <2>1 DEF DecodeFails
  <1> QED BY <1>2, <1>4, <1>5

LEMMA DecodeLastTrip == CodecInv /\ TripInv /\ DecodeLast => TripInv'
  <1> SUFFICES ASSUME CodecInv, TripInv, DecodeLast, damage = 0 PROVE TripInv'
    BY DEF TripInv, DecodeLast, Decoding
  <1>1. /\ phase = "decompress" /\ LiteralsFit /\ LitTo = Len(packed) /\ pos < Len(packed)
        /\ UNCHANGED <<data, packed, damage>>
    BY DEF DecodeLast, Decoding
  <1>2. /\ Restored(output)
        /\ \/ SaysRest(packed, <<pos, Len(output)>>)
           \/ \E d \in Places, l, back \in Nat : SaysSo(packed, <<pos, Len(output)>>, d, l, back)
    BY <1>1, NextPlace
  <1>3. SaysRest(packed, <<pos, Len(output)>>)
    <2> SUFFICES ASSUME NEW d \in Places, NEW l \in Nat, NEW back \in Nat,
                        SaysSo(packed, <<pos, Len(output)>>, d, l, back)
                 PROVE  FALSE
      BY <1>2
    <2>1. LitTo + 2 <= Len(packed)
      BY <1>1, <1>2, PairRead
    <2>2. Len(packed) \in Nat
      BY LenProperties DEF CodecInv, TypeOK
    <2> QED BY <1>1, <2>1, <2>2
  <1>4. Restored(Copied) /\ Len(Copied) = size
    BY <1>1, <1>2, <1>3, RestRead
  <1>5. phase' = "done" /\ output' = Copied
    BY <1>4 DEF DecodeLast
  <1>6. Copied \in Seq(Byte) /\ data \in Seq(Byte)
    BY <1>1, LiteralsType DEF CodecInv, TypeOK
  <1>7. Copied = data
    <2>1. Len(Copied) = Len(data) /\ \A i \in 1 .. Len(Copied) : Copied[i] = data[i]
      BY <1>4 DEF Restored, size
    <2> QED BY <1>6, <2>1, SeqEqual
  <1> QED BY <1>1, <1>5, <1>7 DEF TripInv

LEMMA StartMatchTrip == CodecInv /\ TripInv /\ StartMatch => TripInv'
  <1> SUFFICES ASSUME CodecInv, TripInv, StartMatch, damage = 0 PROVE TripInv'
    BY DEF TripInv, StartMatch, Decoding
  <1>1. /\ phase = "decompress" /\ pos < Len(packed) /\ LitTo + 2 <= Len(packed)
        /\ phase' = "copy" /\ pos' = Follows(MatNibble, LitTo + 2) /\ output' = Copied
        /\ source' = Len(Copied) - BackBy /\ left' = MatCount
        /\ UNCHANGED <<data, packed, damage>>
    BY DEF StartMatch, Decoding
  <1>2. PICK C \in SUBSET Places :
          /\ Readable(C) /\ Restored(output)
          /\ \/ SaysRest(packed, <<pos, Len(output)>>)
             \/ \E d \in C, l, back \in Nat :
                  d \in Places /\ SaysSo(packed, <<pos, Len(output)>>, d, l, back)
    BY <1>1, NextPlace
  <1>3. ~SaysRest(packed, <<pos, Len(output)>>)
    <2> SUFFICES ASSUME SaysRest(packed, <<pos, Len(output)>>) PROVE FALSE
      OBVIOUS
    <2>1. LitTo = Len(packed)
      BY <1>1, <1>2, RestRead
    <2>2. Len(packed) \in Nat
      BY LenProperties DEF CodecInv, TypeOK
    <2> QED BY <1>1, <2>1, <2>2
  <1>4. PICK d \in C, l \in Nat, back \in Nat :
          d \in Places /\ SaysSo(packed, <<pos, Len(output)>>, d, l, back)
    BY <1>2, <1>3
  <1>5. /\ BackBy = back /\ MatCount = d[2] - l /\ Follows(MatNibble, LitTo + 2) = d[1]
        /\ Restored(Copied) /\ Len(Copied) = l
    BY <1>1, <1>2, <1>4, PairRead
  <1>6. /\ d[1] \in Nat /\ d[2] \in Nat /\ d = <<d[1], d[2]>> /\ KeyLength \in Nat
        /\ l + KeyLength <= d[2] /\ back <= l /\ Repeats(l, d[2], back)
    BY <1>4, Lz4Assumption DEF SaysSo, Places
  <1>7. /\ pos' = d[1] /\ Len(output') = l /\ left' = d[2] - l /\ source' = l - back
    BY <1>1, <1>5
  <1>8. Len(output') + left' = d[2] /\ Len(output') - source' = back
    BY <1>6, <1>7
  <1>9. Repeats(l, d[2], back)'
    BY <1>1, <1>6 DEF Repeats
  <1>10. Copying(C)'
    BY <1>6, <1>7, <1>8, <1>9 DEF Copying, Repeats
  <1>11. Readable(C)'
    BY <1>1, <1>2, ReadableNext
  <1>12. Restored(output)'
    BY <1>1, <1>5 DEF Restored
  <1> QED BY <1>1, <1>10, <1>11, <1>12 DEF TripInv

LEMMA CopyChunkTrip == CodecInv /\ TripInv /\ CopyChunk => TripInv'
  <1> SUFFICES ASSUME CodecInv, TripInv, CopyChunk, damage = 0 PROVE TripInv'
    BY DEF TripInv, CopyChunk
  <1> DEFINE count == Least(left, Len(output) - source)
             chunk == Slice(output, source, source + count)
  <1>1. /\ phase = "copy" /\ output' = output \o chunk
        /\ left' = left - count /\ phase' = IF left' = 0 THEN "decompress" ELSE "copy"
        /\ UNCHANGED <<data, pos, packed, source, damage>>
    BY DEF CopyChunk
  <1>2. /\ output \in Seq(Byte) /\ Len(output) \in Nat /\ left \in Nat /\ source \in Nat
        /\ source < Len(output) /\ Len(output) + left <= Len(data) /\ Len(data) \in Nat
    BY <1>1, LenProperties DEF CodecInv, TypeOK, WithinBlock, size
  <1>3. PICK C \in SUBSET Places : Readable(C) /\ Copying(C)
    BY <1>1 DEF TripInv
  <1>4. Restored(output)
    BY <1>1 DEF TripInv
  <1>5. PICK len \in Nat, more \in Nat, back \in Nat :
          len = Len(output) /\ more = left /\ back = Len(output) - source
    <2>1. Len(output) - source \in Nat
      BY <1>2
    <2> QED BY <1>2, <2>1
  <1>6. Repeats(len, len + more, back) /\ <<pos, len + more>> \in C
    BY <1>3, <1>5 DEF Copying
  <1>7. /\ count \in Nat /\ count <= more /\ count <= back /\ (count = more \/ count = back)
        /\ source + back = len /\ back >= 1 /\ len + more <= Len(data)
    BY <1>2, <1>5 DEF Least
  <1> HIDE DEF count
  <1>8. PICK n \in Nat : n = count
    BY <1>7
  <1>9. /\ chunk \in Seq(Byte) /\ Len(chunk) = n
        /\ \A i \in 1 .. n : chunk[i] = output[source + i]
    <2>1. source + n \in Nat /\ source <= source + n /\ source + n <= Len(output)
          /\ (source + n) - source = n
      BY <1>2, <1>5, <1>7, <1>8
    <2>2. PICK b \in Nat : b = source + n
      BY <2>1
    <2>3. /\ Slice(output, source, b) \in Seq(Byte) /\ Len(Slice(output, source, b)) = b - source
          /\ \A i \in 1 .. b - source : Slice(output, source, b)[i] = output[source + i]
      <3>1. output \in Seq(Byte) /\ source \in Nat /\ source <= b /\ b <= Len(output)
        BY <1>2, <2>1, <2>2
      <3> QED BY <3>1, SliceRead
    <2> QED BY <1>8, <2>1, <2>2, <2>3
  <1> HIDE DEF chunk
  <1>10. /\ Len(output') = len + n
         /\ \A i \in 1 .. len + n : output'[i] = IF i <= len THEN output[i] ELSE chunk[i - len]
    <2>1. /\ Len(output \o chunk) = Len(output) + Len(chunk)
          /\ \A i \in 1 .. Len(output) + Len(chunk) :
               (output \o chunk)[i] = IF i <= Len(output) THEN output[i] ELSE chunk[i - Len(output)]
      BY <1>2, <1>9, ConcatProperties
    <2>2. output' = output \o chunk /\ Len(output) = len /\ Len(chunk) = n
      BY <1>1, <1>5, <1>9
    <2> QED BY <2>1, <2>2
  <1>11. \A i \in 1 .. len + n : output'[i] = data[i]
    <2> TAKE i \in 1 .. len + n
    <2>1. CASE i <= len
      BY <1>4, <1>5, <1>10, <2>1 DEF Restored
    <2>2. CASE ~(i <= len)
      <3>1. i - len \in 1 .. n /\ source + (i - len) = i - back /\ i - back \in 1 .. len
        BY <1>2, <1>7, <1>8, <2>2
      <3>2. output'[i] = output[i - back]
        BY <1>9, <1>10, <2>2, <3>1
      <3>3. output[i - back] = data[i - back]
        BY <1>4, <1>5, <3>1 DEF Restored
      <3>4. i - 1 \in len .. (len + more) - 1 /\ (i - 1) + 1 = i /\ ((i - 1) - back) + 1 = i - back
        BY <1>7, <1>8, <2>2
      <3>5. At(data, i - 1) = At(data, (i - 1) - back)
        BY <1>6, <3>4 DEF Repeats
      <3>6. data[i] = data[i - back]
        BY <3>4, <3>5 DEF At
      <3> QED BY <3>2, <3>3, <3>6
    <2> QED BY <2>1, <2>2
  <1>12. Restored(output)'
    BY <1>1, <1>7, <1>8, <1>10, <1>11 DEF Restored
  <1>13. left' = more - n /\ Len(output') + left' = len + more
    BY <1>1, <1>5, <1>7, <1>8, <1>10
  <1>14. Readable(C)'
    BY <1>1, <1>3, ReadableNext
  <1>15. CASE left' = 0
    <2>1. phase' = "decompress" /\ <<pos', Len(output')>> \in C
      BY <1>1, <1>6, <1>7, <1>8, <1>10, <1>13, <1>15
    <2> QED BY <1>12, <1>14, <2>1 DEF TripInv
  <1>16. CASE left' # 0
    <2>1. n = back /\ phase' = "copy"
      BY <1>1, <1>7, <1>8, <1>13, <1>16
    <2>2. Len(output') - source' = 2 * back
      BY <1>1, <1>2, <1>7, <1>10, <2>1
    <2>3. \A x \in len + n .. (len + more) - 1 : At(data, x) = At(data, x - 2 * back)
      <3> TAKE x \in len + n .. (len + more) - 1
      <3>1. x \in len .. (len + more) - 1 /\ x - back \in len .. (len + more) - 1
            /\ (x - back) - back = x - 2 * back
        BY <1>7, <2>1
      <3> QED BY <1>6, <3>1 DEF Repeats
    <2>4. \A x \in Len(output') .. (Len(output') + left') - 1 :
            At(data', x) = At(data', x - (Len(output') - source'))
      BY <1>1, <1>10, <1>13, <2>2, <2>3
    <2>5. Copying(C)'
      BY <1>1, <1>6, <1>13, <2>4 DEF Copying, Repeats
    <2> QED BY <1>12, <1>14, <2>1, <2>5 DEF TripInv
  <1> QED BY <1>15, <1>16

LEMMA NextTrip == CodecInv /\ TripInv /\ [Next]_vars => TripInv'
  <1> SUFFICES ASSUME CodecInv, TripInv, [Next]_vars PROVE TripInv'
    OBVIOUS
  <1>1. CASE EncodeMatch BY <1>1, EncodeMatchTrip
  <1>2. CASE SkipByte    BY <1>2, SkipByteTrip
  <1>3. CASE EncodeLast  BY <1>3, EncodeLastTrip
  <1>4. CASE DecodeLast  BY <1>4, DecodeLastTrip
  <1>5. CASE StartMatch  BY <1>5, StartMatchTrip
  <1>6. CASE DecodeFails BY <1>6, DecodeFailsTrip
  <1>7. CASE CopyChunk   BY <1>7, CopyChunkTrip
  <1>8. CASE DamageBlock
    <2>1. damage' # 0
      BY <1>8 DEF DamageBlock, CodecInv, TypeOK
    <2> QED BY <2>1 DEF TripInv
  <1>9. CASE UNCHANGED vars
    <2>1. /\ UNCHANGED <<phase, data, packed, anchor, pos, output, source, left, damage>>
      BY <1>9 DEF vars
    <2>2. \A C \in SUBSET Places : Readable(C) => Readable(C)'
      BY <2>1, ReadableNext
    <2>3. \A C \in SUBSET Places : Copying(C) => Copying(C)'
      BY <2>1 DEF Copying, Repeats
    <2>4. \A C \in SUBSET Places : Written(C) => Written(C)'
      <3> SUFFICES ASSUME NEW C \in SUBSET Places, Written(C) PROVE Written(C)'
        OBVIOUS
      <3>1. \A c \in C, d \in C : Says(packed, c, d)' <=> Says(packed, c, d)
        BY <2>1, SaysNext
      <3>2. \A c \in C : c = <<Len(packed'), anchor'>> \/ \E d \in C : Says(packed, c, d)'
        BY <2>1, <3>1 DEF Written
      <3> QED BY <3>2 DEF Written
    <2>5. Restored(output) => Restored(output)'
      BY <2>1 DEF Restored
    <2> QED BY <2>1, <2>2, <2>3, <2>4, <2>5 DEF TripInv
  <1> QED
    BY <1>1, <1>2, <1>3, <1>4, <1>5, <1>6, <1>7, <1>8, <1>9 DEF Next, CodecStep

(* What compress makes of a block, decompress restores: no length, offset or *)
(* overlap of any block is lost between the two, and no block that arrives   *)
(* as it was sent is rejected.                                               *)
THEOREM BlocksAreRestored == Spec => []RoundTrip
  <1>1. TripInv => RoundTrip
    BY DEF TripInv, RoundTrip
  <1>2. Spec => []TripInv
    BY InitTrip, NextTrip, CodecInvariant, PTL DEF Spec
  <1> QED BY <1>1, <1>2, PTL

=============================================================================
