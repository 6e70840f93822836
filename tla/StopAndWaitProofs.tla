------------------------- MODULE StopAndWaitProofs --------------------------
(***************************************************************************)
(* Theorems about StopAndWait, for every file size, retry limit, distance  *)
(* between checkpoints, set of faults and number of faults and GETs.       *)
(***************************************************************************)
EXTENDS StopAndWait, SequenceTheorems, TLAPS

-----------------------------------------------------------------------------
(* Sequences and lines. *)

(* Adding to a channel, or reading its head, keeps its type. *)
LEMMA ChannelType ==
  ASSUME NEW S, NEW s \in Seq(S)
  PROVE  /\ \A e \in S : Append(s, e) \in Seq(S)
         /\ s # <<>> => /\ Head(s) \in S /\ Tail(s) \in Seq(S)
                        /\ \A e \in S : <<e>> \o Tail(s) \in Seq(S)
         /\ \A e \in S : <<e>> \in Seq(S)
         /\ <<>> \in Seq(S)
<1>1. \A e \in S : <<e>> \in Seq(S) /\ Append(s, e) \in Seq(S)
  BY AppendProperties
<1>2. s # <<>> => Head(s) \in S /\ Tail(s) \in Seq(S)
  BY HeadTailProperties
<1>3. QED
  BY <1>1, <1>2, ConcatProperties, EmptySeq

(* A sequence that has elements is not empty. *)
LEMMA NonEmpty == ASSUME NEW s, Len(s) > 0 PROVE s # <<>>
  OBVIOUS

(* What is left of an open file when its machine stops is of its type. *)
LEMMA BeginningType ==
  ASSUME NEW S, NEW s \in Seq(S), NEW n \in 0 .. Len(s)
  PROVE  SubSeq(s, 1, n) \in Seq(S)
  BY SubSeqProperties

(* The lines the two sides send are of the right type. *)
LEMMA LineType ==
  /\ \A kind \in SenderKinds : Word(kind) \in ToReceiverLine
  /\ \A kind \in SenderKinds, n \in Seqs : Line(kind, n) \in ToReceiverLine
  /\ \A kind \in ReceiverKinds : Word(kind) \in ToSenderLine
  /\ \A kind \in ReceiverKinds, n \in Nat : Line(kind, n) \in ToSenderLine
<1>1. 0 \in Seqs
  BY StopAndWaitAssumption DEF Seqs
<1>2. QED
  BY <1>1 DEF Line, Word, ToReceiverLine, ToSenderLine

-----------------------------------------------------------------------------
(* Type correctness. *)

SenderSide == SenderTypeOK /\ toReceiver \in Seq(ToReceiverLine)

(* Starting a block, repeating it, or failing keeps the sender's types. *)
LEMMA SendType ==
  ASSUME SenderSide
  PROVE  /\ \A n \in Seqs : SendBlock(n) => SenderSide'
         /\ \A why \in Results : Raises(why) \/ Fails(why) => SenderSide'
         /\ \A missed \in 0 .. MaxTimeouts - 1 : SendAgain(missed) => SenderSide'
<1>1. \A line \in ToReceiverLine : Send(line) => toReceiver' \in Seq(ToReceiverLine)
  BY ChannelType DEF Send, SenderSide
<1>2. \A n \in Seqs : Line("DATA", n) \in ToReceiverLine
  BY LineType DEF SenderKinds
<1>3. Word("ERR") \in ToReceiverLine /\ "retry" \in Results
  BY LineType DEF SenderKinds, Results
<1>4. \A n \in Seqs : SendBlock(n) => SenderSide'
  BY <1>1, <1>2, StopAndWaitAssumption DEF SendBlock, SenderSide, SenderTypeOK, Phases
<1>5. \A why \in Results : Raises(why) => SenderSide'
  BY DEF Raises, Ends, SenderSide, SenderTypeOK, Phases
<1>6. \A why \in Results : Fails(why) => SenderSide'
  BY <1>1, <1>3 DEF Fails, Ends, SenderSide, SenderTypeOK, Phases
<1>7. ASSUME NEW missed \in 0 .. MaxTimeouts - 1, SendAgain(missed) PROVE SenderSide'
  <2>1. CASE attempt < MaxRetries /\ attempt' = attempt + 1 /\ timeouts' = missed
             /\ Send(Line("DATA", seq)) /\ UNCHANGED <<phase, result, seq>>
    BY <1>1, <1>2, <2>1, StopAndWaitAssumption DEF SenderSide, SenderTypeOK
  <2>2. CASE Fails("retry")
    BY <1>3, <1>6, <2>2
  <2>3. QED
    BY <1>7, <2>1, <2>2 DEF SendAgain
<1>8. QED
  BY <1>4, <1>5, <1>6, <1>7

(* A sender action keeps every type. *)
LEMMA SenderStepType ==
  ASSUME TypeOK, SenderStep
  PROVE  TypeOK'
<1>1. SenderSide
  BY DEF TypeOK, LineTypeOK, SenderSide
<1>2. toSender' \in Seq(ToSenderLine) /\ UNCHANGED <<receiverVars, world, faults>>
  <2>1. TakeReply \/ NoReply
    BY DEF SenderStep, RecvReady, GiveUp, RecvAck, RecvNak, AckTimeout, RecvUnexpectedReply,
           RecvFinal
  <2>2. QED
    BY <2>1, ChannelType DEF TakeReply, NoReply, OfSender, TypeOK, LineTypeOK
<1>3. SenderSide'
  <2>1. CASE RecvReady \/ GiveUp \/ RecvUnexpectedReply \/ RecvFinal
    <3>1. 0 \in Seqs
      BY StopAndWaitAssumption DEF Seqs
    <3>2. QED
      BY <1>1, <2>1, <3>1, SendType
      DEF RecvReady, GiveUp, RecvUnexpectedReply, RecvFinal, Results
  <2>2. CASE RecvAck
    <3>1. CASE seq + 1 < Blocks /\ SendBlock(seq + 1)
      <4>1. seq + 1 \in Seqs
        BY <3>1, StopAndWaitAssumption DEF TypeOK, SenderTypeOK, Seqs
      <4>2. QED
        BY <1>1, <3>1, <4>1, SendType
    <3>2. CASE phase' = "done" /\ Send(Word("DONE")) /\ UNCHANGED <<result, seq, attempt, timeouts>>
      <4>1. Word("DONE") \in ToReceiverLine
        BY LineType DEF SenderKinds
      <4>2. QED
        BY <1>1, <3>2, <4>1, ChannelType DEF Send, SenderSide, SenderTypeOK, Phases
    <3>3. QED
      BY <2>2, <3>1, <3>2 DEF RecvAck
  <2>3. CASE RecvNak
    BY <1>1, <2>3, SendType DEF RecvNak, TypeOK, SenderTypeOK
  <2>4. CASE AckTimeout
    <3>1. CASE ~LastTimeout /\ SendAgain(timeouts + 1)
      <4>1. timeouts + 1 \in 0 .. MaxTimeouts - 1
        BY <3>1, StopAndWaitAssumption DEF LastTimeout, TypeOK, SenderTypeOK
      <4>2. QED
        BY <1>1, <3>1, <4>1, SendType
    <3>2. CASE Fails("unanswered")
      BY <1>1, <3>2, SendType DEF Results
    <3>3. QED
      BY <2>4, <3>1, <3>2 DEF AckTimeout
  <2>5. QED
    BY <2>1, <2>2, <2>3, <2>4 DEF SenderStep
<1>4. ReceiverTypeOK' /\ WorldTypeOK'
  BY <1>2 DEF TypeOK, ReceiverTypeOK, WorldTypeOK, receiverVars, disk, world
<1>5. silence' \in Nat
  <2>1. UNCHANGED silence \/ silence' = silence + 1
    BY DEF SenderStep, RecvReady, GiveUp, RecvAck, RecvNak, AckTimeout, RecvUnexpectedReply,
           RecvFinal, TakeReply, NoReply
  <2>2. QED
    BY <2>1 DEF TypeOK
<1>6. QED
  BY <1>2, <1>3, <1>4, <1>5 DEF TypeOK, LineTypeOK, SenderSide

(* A receiver action keeps every type. *)
LEMMA ReceiverStepType ==
  ASSUME TypeOK, ReceiverStep
  PROVE  TypeOK'
<1> USE StopAndWaitAssumption
<1>1. UNCHANGED <<senderVars, world, faults>> /\ silence' = 0
  BY DEF ReceiverStep, OfReceiver, OnDisk, Read, RecvMeta, OpenCheckpoint, OpenPart,
         RecvAnswered, RecvBlock, SaveCheckpoint, RecvShortFrame, RecvDone, Rename,
         DropCheckpoint, RecvUnexpected, RecvTimeout
<1>2. SenderTypeOK' /\ WorldTypeOK'
  BY <1>1 DEF TypeOK, SenderTypeOK, WorldTypeOK, senderVars, world
<1>3. Abandoned \in RPhases
  BY DEF Abandoned, RPhases, Unopened
<1>4. ReceiverTypeOK /\ toReceiver \in Seq(ToReceiverLine) /\ toSender \in Seq(ToSenderLine)
  BY DEF TypeOK, LineTypeOK
<1>5. toReceiver # <<>> => Input \in ToReceiverLine
  BY <1>4, ChannelType DEF Input
<1>6. ReceiverTypeOK'
  <2>1. CASE RecvMeta \/ RecvUnexpected \/ RecvTimeout
    BY <1>3, <1>4, <2>1
    DEF RecvMeta, RecvUnexpected, RecvTimeout, Raise, ReceiverTypeOK, RPhases, Unopened, disk
  <2>2. CASE OpenCheckpoint \/ SaveCheckpoint \/ Rename \/ DropCheckpoint
    BY <1>4, <2>2
    DEF OpenCheckpoint, SaveCheckpoint, Rename, DropCheckpoint, OnDisk, ReceiverTypeOK, RPhases,
        Unopened, NoCheckpoint
  <2>3. CASE OpenPart
    BY <1>4, <2>3, EmptySeq DEF OpenPart, OnDisk, Truncated, ReceiverTypeOK, RPhases
  <2>4. CASE RecvAnswered \/ RecvShortFrame
    BY <1>4, <2>4 DEF RecvAnswered, RecvShortFrame, receiverVars, disk, ReceiverTypeOK
  <2>5. CASE RecvBlock
    <3>1. expected \in Seqs
      BY <1>5, <2>5 DEF RecvBlock, Read, TakeInput, ToReceiverLine
    <3>2. <<gets, expected>> \in Nat \X Seqs /\ expected + 1 \in 0 .. Blocks
      BY <3>1 DEF TypeOK, WorldTypeOK, Seqs
    <3>3. part' \in Seq(Nat \X Seqs)
      BY <1>4, <2>5, <3>2, ChannelType DEF RecvBlock, ReceiverTypeOK
    <3>4. QED
      BY <1>4, <2>5, <3>2, <3>3 DEF RecvBlock, ReceiverTypeOK, RPhases
  <2>6. CASE RecvDone
    BY <1>4, <2>6 DEF RecvDone, ReceiverTypeOK, RPhases, disk
  <2>7. QED
    BY <2>1, <2>2, <2>3, <2>4, <2>5, <2>6 DEF ReceiverStep
<1>7. toReceiver' \in Seq(ToReceiverLine)
  <2>1. CASE RecvShortFrame
    <3>1. Input \in ToReceiverLine /\ Word("JUNK") \in ToReceiverLine
      BY <1>5, <2>1, LineType DEF RecvShortFrame, SenderKinds
    <3>2. Len(toReceiver) > 1 => Tail(Tail(toReceiver)) \in Seq(ToReceiverLine)
      <4>1. SUFFICES ASSUME Len(toReceiver) > 1 PROVE Tail(Tail(toReceiver)) \in Seq(ToReceiverLine)
        OBVIOUS
      <4>2. toReceiver # <<>>
        BY <4>1
      <4>3. Tail(toReceiver) \in Seq(ToReceiverLine) /\ Len(Tail(toReceiver)) = Len(toReceiver) - 1
        BY <1>4, <4>2, HeadTailProperties
      <4>4. Len(Tail(toReceiver)) > 0
        BY <1>4, <4>1, <4>3, LenProperties
      <4>5. Tail(toReceiver) # <<>>
        BY <4>4, NonEmpty
      <4>6. QED
        BY <4>3, <4>5, HeadTailProperties
    <3>3. Len(toReceiver) > 1 =>
            \A e \in ToReceiverLine : <<e>> \o Tail(Tail(toReceiver)) \in Seq(ToReceiverLine)
      BY <1>4, <3>2, ChannelType, ConcatProperties
    <3>4. CASE toReceiver' = <<>>
      BY <3>4, EmptySeq
    <3>5. QED
      BY <2>1, <3>1, <3>3, <3>4 DEF RecvShortFrame
  <2>2. CASE UNCHANGED toReceiver \/ TakeInput
    BY <1>4, <2>2, ChannelType DEF TakeInput
  <2>3. QED
    BY <2>1, <2>2
    DEF ReceiverStep, OnDisk, Read, RecvMeta, OpenCheckpoint, OpenPart, RecvAnswered, RecvBlock,
        SaveCheckpoint, RecvDone, Rename, DropCheckpoint, RecvUnexpected, RecvTimeout
<1>8. toSender' \in Seq(ToSenderLine)
  <2>1. \A line \in ToSenderLine : Answer(line) => toSender' \in Seq(ToSenderLine)
    BY <1>4, ChannelType DEF Answer
  <2>2. expected \in Nat /\ (toReceiver # <<>> => Input.seq \in Nat)
    BY <1>4, <1>5 DEF ReceiverTypeOK, ToReceiverLine, Seqs
  <2>3. CASE UNCHANGED toSender
    BY <1>4, <2>3
  <2>4. CASE \E kind \in ReceiverKinds : Answer(Word(kind))
    BY <2>1, <2>4, LineType
  <2>5. CASE \E kind \in ReceiverKinds, n \in Nat : Answer(Line(kind, n))
    BY <2>1, <2>5, LineType
  <2>6. CASE RecvMeta \/ RecvDone \/ RecvUnexpected
    BY <2>3, <2>4, <2>6 DEF RecvMeta, RecvDone, RecvUnexpected, ReceiverKinds
  <2>7. CASE RecvAnswered \/ RecvBlock \/ RecvShortFrame
    BY <2>2, <2>3, <2>5, <2>7
    DEF RecvAnswered, RepeatedAnswer, RecvBlock, RecvShortFrame, Read, TakeInput, ReceiverKinds
  <2>8. QED
    BY <2>3, <2>6, <2>7
    DEF ReceiverStep, OnDisk, OpenCheckpoint, OpenPart, SaveCheckpoint, Rename, DropCheckpoint,
        RecvTimeout
<1>9. QED
  BY <1>1, <1>2, <1>6, <1>7, <1>8 DEF TypeOK, LineTypeOK

(* A fault keeps every type. *)
LEMMA FaultStepType ==
  ASSUME TypeOK, FaultStep
  PROVE  TypeOK'
<1> USE StopAndWaitAssumption
<1>1. UNCHANGED <<senderVars, silence>> /\ faults' \in Nat /\ UNCHANGED world
  BY DEF FaultStep, LoseLine, DamageLine, GarbleReply, StorageFails, ReceiverCrash, Fault, LineOnly,
         TypeOK, WorldTypeOK
<1>2. SenderTypeOK' /\ WorldTypeOK'
  BY <1>1 DEF TypeOK, SenderTypeOK, WorldTypeOK, senderVars, world
<1>3. ReceiverTypeOK /\ toReceiver \in Seq(ToReceiverLine) /\ toSender \in Seq(ToSenderLine)
  BY DEF TypeOK, LineTypeOK
<1>4. Abandoned \in RPhases
  BY DEF Abandoned, RPhases, Unopened
<1>5. ReceiverTypeOK'
  <2>1. CASE LoseLine \/ DamageLine \/ GarbleReply
    BY <1>3, <2>1 DEF LoseLine, DamageLine, GarbleReply, LineOnly, receiverVars, disk, ReceiverTypeOK
  <2>2. CASE StorageFails
    BY <1>3, <1>4, <2>2 DEF StorageFails, Raise, disk, ReceiverTypeOK
  <2>3. CASE ReceiverCrash
    <3>1. \A n \in 0 .. Len(part) : SubSeq(part, 1, n) \in Seq(Nat \X Seqs)
      BY <1>3, BeginningType DEF ReceiverTypeOK
    <3>2. part' \in Seq(Nat \X Seqs)
      BY <1>3, <2>3, <3>1 DEF ReceiverCrash, ReceiverTypeOK
    <3>3. QED
      BY <1>3, <1>4, <2>3, <3>2 DEF ReceiverCrash, ReceiverTypeOK
  <2>4. QED
    BY <2>1, <2>2, <2>3 DEF FaultStep
<1>6. toReceiver' \in Seq(ToReceiverLine)
  <2>1. toReceiver # <<>> => Input \in ToReceiverLine
    BY <1>3, ChannelType DEF Input
  <2>2. CASE UNCHANGED toReceiver \/ TakeInput
    BY <1>3, <2>2, ChannelType DEF TakeInput
  <2>3. CASE DamageLine
    <3>1. \A line \in ToReceiverLine : Replaced(line) => toReceiver' \in Seq(ToReceiverLine)
      BY <1>3, <2>3, ChannelType DEF Replaced, DamageLine
    <3>2. Input.seq \in Seqs
      BY <2>1, <2>3 DEF DamageLine, ToReceiverLine
    <3>3. /\ Line("BAD", Input.seq) \in ToReceiverLine
          /\ Line("SHORT", Input.seq) \in ToReceiverLine
          /\ Word("JUNK") \in ToReceiverLine
          /\ Word("METABAD") \in ToReceiverLine
          /\ Word("DONEBAD") \in ToReceiverLine
      BY <3>2, LineType DEF SenderKinds
    <3>4. QED
      BY <2>3, <3>1, <3>3 DEF DamageLine
  <2>4. QED
    BY <2>2, <2>3 DEF FaultStep, LoseLine, GarbleReply, StorageFails, ReceiverCrash
<1>7. toSender' \in Seq(ToSenderLine)
  <2>1. Word("JUNK") \in ToSenderLine /\ Word("ERR") \in ToSenderLine
    BY LineType DEF ReceiverKinds
  <2>2. CASE UNCHANGED toSender
    BY <1>3, <2>2
  <2>3. CASE LoseLine \/ GarbleReply \/ StorageFails
    BY <1>3, <2>1, <2>3, ChannelType DEF LoseLine, GarbleReply, StorageFails, Answer
  <2>4. QED
    BY <2>2, <2>3 DEF FaultStep, DamageLine, ReceiverCrash
<1>8. QED
  BY <1>1, <1>2, <1>5, <1>6, <1>7 DEF TypeOK, LineTypeOK

(* Asking again for the file keeps every type, and so does asking first. *)
LEMMA AskedType ==
  ASSUME TypeOK, GetAgain
  PROVE  TypeOK'
<1>1. Word("META") \in ToReceiverLine
  BY LineType DEF SenderKinds
<1>2. <<Word("META")>> \in Seq(ToReceiverLine) /\ <<>> \in Seq(ToSenderLine)
  BY <1>1, EmptySeq, ChannelType
<1>3. QED
  BY <1>2, StopAndWaitAssumption
  DEF GetAgain, Asked, TypeOK, SenderTypeOK, ReceiverTypeOK, LineTypeOK, WorldTypeOK, Seqs, Phases,
      Results, RPhases, Unopened, disk

(* For every file, retry limit and distance between checkpoints, the        *)
(* sender's counters stay within their limits, the receiver's position      *)
(* within the file, and the checkpoint names a position or is gone.         *)
THEOREM StopAndWaitTypes == Spec => []TypeOK
<1>1. Init => TypeOK
  <2>1. Word("META") \in ToReceiverLine
    BY LineType DEF SenderKinds
  <2>2. <<Word("META")>> \in Seq(ToReceiverLine) /\ <<>> \in Seq(ToSenderLine)
    BY <2>1, EmptySeq, ChannelType
  <2>3. <<>> \in Seq(Nat \X Seqs)
    BY EmptySeq
  <2>4. Init => SenderTypeOK
    BY StopAndWaitAssumption DEF Init, SenderTypeOK, Phases, Results, Seqs
  <2>5. Init => ReceiverTypeOK
    <3>1. Init => rPhase \in RPhases /\ expected \in 0 .. Blocks /\ metaOk \in BOOLEAN
      BY StopAndWaitAssumption DEF Init, RPhases, Unopened
    <3>2. Init => part \in Seq(Nat \X Seqs) /\ partThere \in BOOLEAN
      BY <2>3 DEF Init
    <3>3. QED
      BY <3>1, <3>2 DEF Init, ReceiverTypeOK
  <2>6. Init => LineTypeOK /\ WorldTypeOK
    BY <2>2 DEF Init, LineTypeOK, WorldTypeOK
  <2>7. Init => silence \in Nat
    BY DEF Init
  <2>8. QED
    BY <2>4, <2>5, <2>6, <2>7 DEF TypeOK
<1>2. TypeOK /\ [Next]_vars => TypeOK'
  <2>1. SUFFICES ASSUME TypeOK, [Next]_vars PROVE TypeOK'
    OBVIOUS
  <2>2. CASE UNCHANGED vars
    BY <2>1, <2>2
    DEF TypeOK, SenderTypeOK, ReceiverTypeOK, LineTypeOK, WorldTypeOK, vars, senderVars,
        receiverVars, disk, world
  <2>3. QED
    BY <2>1, <2>2, SenderStepType, ReceiverStepType, FaultStepType, AskedType DEF Next
<1>3. QED
  BY <1>1, <1>2, PTL DEF Spec

-----------------------------------------------------------------------------
(* No gap.  The receiver is at the block the sender is sending or just      *)
(* behind it; that holds because nothing in flight is numbered beyond       *)
(* either of them, however old it is.                                       *)

Sent == {m \in ToReceiverLine : m.seq <= seq}
Told == {m \in ToSenderLine : m.kind = "ACK" => m.seq < expected}

InStep   == Reading => expected \in {seq, seq + 1}
NoGapInv ==
  /\ toReceiver \in Seq(Sent) /\ toSender \in Seq(Told)
  /\ InStep /\ (phase = "ready" => seq = 0)

(* A channel keeps its lines when more lines would do. *)
LEMMA SeqWidens ==
  ASSUME NEW S, NEW T, S \subseteq T, NEW s \in Seq(S)
  PROVE  s \in Seq(T)
<1>1. Len(s) \in Nat /\ s \in [1 .. Len(s) -> S]
  BY LenProperties
<1>2. s \in [1 .. Len(s) -> T]
  BY <1>1
<1>3. QED
  BY <1>1, <1>2, SeqDef

(* A block that _send_block sends is within Sent, and words always are. *)
LEMMA SentLines ==
  ASSUME TypeOK
  PROVE  /\ Line("DATA", seq) \in Sent
         /\ \A kind \in SenderKinds : Word(kind) \in Sent
<1>1. seq \in Nat /\ seq \in Seqs
  BY DEF TypeOK, SenderTypeOK, Seqs
<1>2. QED
  BY <1>1, LineType DEF Sent, Line, Word, SenderKinds, ToReceiverLine

(* A sender action keeps the invariant. *)
LEMMA SenderKeepsStep ==
  ASSUME TypeOK, TypeOK', NoGapInv, SenderStep
  PROVE  NoGapInv'
<1>1. /\ seq \in Nat /\ seq' \in Nat /\ expected \in Nat /\ Blocks \in Nat
      /\ toReceiver \in Seq(ToReceiverLine) /\ toReceiver' \in Seq(ToReceiverLine)
  BY StopAndWaitAssumption DEF TypeOK, SenderTypeOK, ReceiverTypeOK, LineTypeOK, Seqs
<1>2. /\ UNCHANGED <<rPhase, expected>>
      /\ toSender' \in Seq(Told)
  <2>1. TakeReply \/ NoReply
    BY DEF SenderStep, RecvReady, GiveUp, RecvAck, RecvNak, AckTimeout, RecvUnexpectedReply,
           RecvFinal
  <2>2. QED
    BY <2>1, ChannelType DEF TakeReply, NoReply, OfSender, receiverVars, NoGapInv
<1>3. Told' = Told /\ (Reading' <=> Reading)
  BY <1>2 DEF Told, Reading
<1>4. CASE /\ UNCHANGED seq /\ phase' # "ready"
           /\ \/ UNCHANGED toReceiver
              \/ \E kind \in SenderKinds : Send(Word(kind))
              \/ Send(Line("DATA", seq))
  <2>1. toReceiver' \in Seq(Sent)
    BY <1>4, SentLines, ChannelType DEF Send, NoGapInv
  <2>2. Sent' = Sent
    BY <1>4 DEF Sent
  <2>3. QED
    BY <1>2, <1>3, <1>4, <2>1, <2>2 DEF NoGapInv, InStep
<1>5. CASE /\ seq' >= seq /\ phase' # "ready" /\ Send(Line("DATA", seq'))
           /\ Reading => expected = seq'
  <2>1. Sent \subseteq Sent'
    BY <1>1, <1>5 DEF Sent, ToReceiverLine, Seqs
  <2>2. toReceiver \in Seq(Sent')
    BY <2>1, SeqWidens DEF NoGapInv
  <2>3. Line("DATA", seq') \in Sent'
    <3>1. seq' \in Seqs
      BY DEF TypeOK, SenderTypeOK
    <3>2. QED
      BY <1>1, <3>1, LineType DEF Sent, Line, SenderKinds
  <2>4. toReceiver' \in Seq(Sent')
    BY <1>5, <2>2, <2>3, ChannelType DEF Send
  <2>5. QED
    BY <1>2, <1>3, <1>5, <2>4 DEF NoGapInv, InStep
<1>6. CASE RecvReady
  <2>1. phase = "ready" /\ seq = 0
    BY <1>6 DEF RecvReady, NoGapInv
  <2>2. CASE SendBlock(0)
    <3>1. UNCHANGED seq /\ phase' # "ready" /\ Send(Line("DATA", seq))
      BY <2>1, <2>2 DEF SendBlock
    <3>2. QED
      BY <1>4, <3>1
  <2>3. CASE Raises("declined")
    BY <1>4, <2>3 DEF Raises, Ends
  <2>4. QED
    BY <1>6, <2>2, <2>3 DEF RecvReady
<1>7. CASE RecvAck
  <2>1. CASE SendBlock(seq + 1)
    <3>1. Reply \in Told /\ Reply.kind = "ACK" /\ Reply.seq = seq
      BY <1>7, ChannelType DEF RecvAck, AckOfBlock, TakeReply, Reply, NoGapInv
    <3>2. Reading => expected = seq + 1
      BY <1>1, <3>1 DEF Told, NoGapInv, InStep
    <3>3. QED
      BY <1>1, <1>5, <2>1, <3>2 DEF SendBlock
  <2>2. CASE phase' = "done" /\ Send(Word("DONE")) /\ UNCHANGED seq
    BY <1>4, <2>2 DEF SenderKinds
  <2>3. QED
    BY <1>7, <2>1, <2>2 DEF RecvAck
<1>8. CASE \E why : Raises(why) \/ Fails(why)
  BY <1>4, <1>8 DEF Raises, Fails, Ends, SenderKinds
<1>9. CASE phase = "ack" /\ \E missed : SendAgain(missed)
  <2>1. CASE UNCHANGED <<phase, seq>> /\ Send(Line("DATA", seq))
    BY <1>4, <1>9, <2>1
  <2>2. CASE Fails("retry")
    BY <1>8, <2>2
  <2>3. QED
    BY <1>9, <2>1, <2>2 DEF SendAgain
<1>10. QED
  BY <1>6, <1>7, <1>8, <1>9
  DEF SenderStep, GiveUp, RecvNak, AckTimeout, RecvUnexpectedReply, RecvFinal

(* What the receiver or a fault leaves in the channels, when the position   *)
(* and the sender stay, keeps the invariant.                                *)
LEMMA SamePosition ==
  ASSUME NoGapInv, UNCHANGED <<phase, seq, expected>>, Reading' => Reading,
         toReceiver' \in Seq(Sent), toSender' \in Seq(Told)
  PROVE  NoGapInv'
<1>1. Sent' = Sent /\ Told' = Told
  BY DEF Sent, Told
<1>2. QED
  BY <1>1 DEF NoGapInv, InStep

(* What the receiver may say, and what may become of a line on its way, is  *)
(* within Told and Sent.                                                    *)
LEMMA ToldLines ==
  ASSUME TypeOK
  PROVE  /\ \A kind \in ReceiverKinds \ {"ACK"} : Word(kind) \in Told /\ Line(kind, expected) \in Told
         /\ \A n \in Nat : n < expected => Line("ACK", n) \in Told
         /\ \A m \in Sent : Line("BAD", m.seq) \in Sent /\ Line("SHORT", m.seq) \in Sent
<1>1. expected \in Nat
  BY DEF TypeOK, ReceiverTypeOK
<1>2. QED
  BY <1>1 DEF Told, Sent, Line, Word, ToSenderLine, ToReceiverLine, ReceiverKinds, SenderKinds

(* A receiver action keeps the invariant. *)
LEMMA ReceiverKeepsStep ==
  ASSUME TypeOK, TypeOK', NoGapInv, ReceiverStep
  PROVE  NoGapInv'
<1>1. /\ toReceiver \in Seq(Sent) /\ toSender \in Seq(Told)
      /\ seq \in Nat /\ expected \in Nat
      /\ UNCHANGED <<phase, seq>>
  <2>1. UNCHANGED senderVars
    BY DEF ReceiverStep, OfReceiver, OnDisk, Read, RecvMeta, OpenCheckpoint, OpenPart,
           RecvAnswered, RecvBlock, SaveCheckpoint, RecvShortFrame, RecvDone, Rename,
           DropCheckpoint, RecvUnexpected, RecvTimeout
  <2>2. QED
    BY <2>1 DEF NoGapInv, TypeOK, SenderTypeOK, ReceiverTypeOK, Seqs, senderVars
<1>2. TakeInput => toReceiver' \in Seq(Sent) /\ Input \in Sent
  BY <1>1, ChannelType DEF TakeInput, Input
<1>3. \A kind \in ReceiverKinds \ {"ACK"} :
        Answer(Word(kind)) \/ Answer(Line(kind, expected)) => toSender' \in Seq(Told)
  BY <1>1, ToldLines, ChannelType DEF Answer
<1>4. CASE RecvMeta \/ RecvDone \/ RecvUnexpected \/ RecvTimeout
  <2>1. toSender' \in Seq(Told) /\ toReceiver' \in Seq(Sent) /\ UNCHANGED expected
    BY <1>1, <1>2, <1>3, <1>4
    DEF RecvMeta, RecvDone, RecvUnexpected, RecvTimeout, Read, Raise, ReceiverKinds
  <2>2. Reading' => Reading
    BY <1>4
    DEF RecvMeta, RecvDone, RecvUnexpected, RecvTimeout, Read, Raise, Abandoned, Reading, Unopened
  <2>3. QED
    BY <1>1, <2>1, <2>2, SamePosition
<1>5. CASE OpenCheckpoint \/ OpenPart \/ SaveCheckpoint \/ Rename \/ DropCheckpoint
  <2>1. UNCHANGED <<toSender, toReceiver, expected>> /\ (Reading' => Reading)
    BY <1>5 DEF OpenCheckpoint, OpenPart, SaveCheckpoint, Rename, DropCheckpoint, OnDisk, Reading
  <2>2. QED
    BY <1>1, <2>1, SamePosition
<1>6. CASE RecvAnswered
  <2>1. UNCHANGED <<rPhase, expected>> /\ TakeInput
    BY <1>6 DEF RecvAnswered, receiverVars, Read
  <2>2. Input.seq \in Nat
    BY <1>2, <2>1 DEF Sent, ToReceiverLine, Seqs
  <2>3. toSender' \in Seq(Told)
    <3>1. CASE Input.seq < expected /\ Answer(Line("ACK", Input.seq))
      BY <1>1, <2>2, <3>1, ToldLines, ChannelType DEF Answer
    <3>2. CASE Answer(Line("NAK", expected))
      BY <1>3, <3>2 DEF ReceiverKinds
    <3>3. QED
      BY <1>6, <3>1, <3>2 DEF RecvAnswered, RepeatedAnswer
  <2>4. QED
    BY <1>1, <1>2, <2>1, <2>3, SamePosition DEF Reading
<1>7. CASE RecvShortFrame
  <2>1. UNCHANGED <<rPhase, expected>>
    BY <1>7 DEF RecvShortFrame, receiverVars
  <2>2. toSender' \in Seq(Told)
    BY <1>1, <1>3, <1>7 DEF RecvShortFrame, ReceiverKinds
  <2>3. Input \in Sent /\ Word("JUNK") \in Sent
    BY <1>1, <1>7, ChannelType, SentLines DEF RecvShortFrame, Input, SenderKinds
  <2>4. Len(toReceiver) > 1 =>
          \A e \in Sent : <<e>> \o Tail(Tail(toReceiver)) \in Seq(Sent)
    <3>1. SUFFICES ASSUME Len(toReceiver) > 1 PROVE Tail(Tail(toReceiver)) \in Seq(Sent)
      BY <1>1, ChannelType, ConcatProperties
    <3>2. Tail(toReceiver) \in Seq(Sent) /\ Len(Tail(toReceiver)) > 0
      BY <1>1, <3>1, NonEmpty, HeadTailProperties, LenProperties
    <3>3. Tail(toReceiver) # <<>>
      BY <3>2, NonEmpty
    <3>4. QED
      BY <3>2, <3>3, HeadTailProperties
  <2>5. toReceiver' \in Seq(Sent)
    <3>1. CASE toReceiver' = <<>>
      BY <3>1, EmptySeq
    <3>2. QED
      BY <1>7, <2>3, <2>4, <3>1 DEF RecvShortFrame
  <2>6. QED
    BY <1>1, <2>1, <2>2, <2>5, SamePosition DEF Reading
<1>8. CASE RecvBlock
  <2>1. /\ rPhase = "data" /\ TakeInput /\ Input.seq = expected
        /\ expected' = expected + 1 /\ Answer(Line("ACK", expected))
    BY <1>8 DEF RecvBlock, Read
  <2>2. expected = seq
    BY <1>1, <1>2, <2>1 DEF NoGapInv, InStep, Sent, Reading
  <2>3. Told \subseteq Told' /\ Sent' = Sent
    BY <1>1, <2>1 DEF Told, Sent, ToSenderLine
  <2>4. Line("ACK", expected) \in Told'
    BY <1>1, <2>1, LineType DEF Told, Line, ReceiverKinds
  <2>5. toSender' \in Seq(Told')
    BY <1>1, <2>1, <2>3, <2>4, SeqWidens, ChannelType DEF Answer
  <2>6. QED
    BY <1>1, <1>2, <2>1, <2>2, <2>3, <2>5 DEF NoGapInv, InStep
<1>9. QED
  BY <1>4, <1>5, <1>6, <1>7, <1>8 DEF ReceiverStep

(* A fault keeps the invariant: a damaged line is numbered as before. *)
LEMMA FaultKeepsStep ==
  ASSUME TypeOK, NoGapInv, FaultStep
  PROVE  NoGapInv'
<1>1. toReceiver \in Seq(Sent) /\ toSender \in Seq(Told)
  BY DEF NoGapInv
<1>2. /\ UNCHANGED <<phase, seq, expected>>
      /\ Reading' => Reading
  BY DEF FaultStep, LoseLine, DamageLine, GarbleReply, StorageFails, ReceiverCrash, LineOnly,
         senderVars, receiverVars, Raise, Abandoned, Unopened, Reading
<1>3. toReceiver' \in Seq(Sent)
  <2>1. CASE UNCHANGED toReceiver \/ TakeInput
    BY <1>1, <2>1, ChannelType DEF TakeInput
  <2>2. CASE DamageLine
    <3>1. Input \in Sent /\ \A line \in Sent : Replaced(line) => toReceiver' \in Seq(Sent)
      BY <1>1, <2>2, ChannelType DEF Replaced, DamageLine, Input
    <3>2. QED
      BY <2>2, <3>1, ToldLines, SentLines DEF DamageLine, SenderKinds
  <2>3. QED
    BY <2>1, <2>2 DEF FaultStep, LoseLine, GarbleReply, StorageFails, ReceiverCrash
<1>4. toSender' \in Seq(Told)
  <2>1. Word("JUNK") \in Told /\ Word("ERR") \in Told
    BY ToldLines DEF ReceiverKinds
  <2>2. CASE UNCHANGED toSender
    BY <1>1, <2>2
  <2>3. CASE LoseLine \/ GarbleReply \/ StorageFails
    BY <1>1, <2>1, <2>3, ChannelType DEF LoseLine, GarbleReply, StorageFails, Answer
  <2>4. QED
    BY <2>2, <2>3 DEF FaultStep, DamageLine, ReceiverCrash
<1>5. QED
  BY <1>2, <1>3, <1>4, SamePosition

(* The two ends never drift more than one block apart, and no line in       *)
(* flight, however late or often repeated, is beyond them.                  *)
LEMMA StepHolds == Spec => []NoGapInv
<1>1. Word("META") \in {m \in ToReceiverLine : m.seq <= 0}
  BY LineType DEF Word, Line, SenderKinds
<1>3. Init => NoGapInv
  BY <1>1, ChannelType, EmptySeq DEF Init, NoGapInv, InStep, Sent
<1>4. TypeOK /\ TypeOK' /\ NoGapInv /\ [Next]_vars => NoGapInv'
  <2>1. SUFFICES ASSUME TypeOK, TypeOK', NoGapInv, [Next]_vars PROVE NoGapInv'
    OBVIOUS
  <2>2. CASE UNCHANGED vars
    BY <2>1, <2>2
    DEF NoGapInv, InStep, Sent, Told, Reading, vars, senderVars, receiverVars
  <2>3. CASE GetAgain
    BY <1>1, <2>3, ChannelType, EmptySeq DEF GetAgain, Asked, NoGapInv, InStep, Sent
  <2>4. QED
    BY <2>1, <2>2, <2>3, SenderKeepsStep, ReceiverKeepsStep, FaultKeepsStep DEF Next
<1>5. QED
  BY <1>3, <1>4, StopAndWaitTypes, PTL DEF Spec

(* Without FLOW no block is ever beyond the one the receiver expects, and   *)
(* no acknowledgement ahead of what it has written, for every file, retry   *)
(* limit and number of faults: the DROP that _receive answers a gap with,   *)
(* which _send_block does not understand, is never sent.                    *)
THEOREM NoBlockIsAhead == Spec => []NoGap
<1>1. TypeOK /\ NoGapInv => NoGap
  <2>1. SUFFICES ASSUME TypeOK, NoGapInv PROVE NoGap
    OBVIOUS
  <2>2. seq \in Nat /\ expected \in Nat
    BY <2>1 DEF TypeOK, SenderTypeOK, ReceiverTypeOK, Seqs
  <2>3. \A i \in 1 .. Len(toReceiver) : toReceiver[i] \in Sent
    BY <2>1, LenProperties DEF NoGapInv
  <2>4. \A i \in 1 .. Len(toSender) : toSender[i] \in Told
    BY <2>1, LenProperties DEF NoGapInv
  <2>5. Reading => expected \in {seq, seq + 1}
    BY <2>1 DEF NoGapInv, InStep
  <2>6. Reading => \A i \in 1 .. Len(toReceiver) : toReceiver[i].seq <= expected
    BY <2>2, <2>3, <2>5 DEF Sent, ToReceiverLine, Seqs
  <2>7. QED
    BY <2>4, <2>5, <2>6 DEF NoGap, Told
<1>2. QED
  BY <1>1, StepHolds, StopAndWaitTypes, PTL

-----------------------------------------------------------------------------
(* The refinement.  The receiver's .PART holds exactly what this GET has    *)
(* brought, its verdict is said once that is the whole file, and a sender   *)
(* that reports success has read that verdict.                              *)

Begun(n)   == [i \in 1 .. n |-> <<gets, i - 1>>]
Numbers(n) == [i \in 1 .. n |-> i - 1]
NotOk      == {m \in ToSenderLine : m.kind # "OK"}
Settled    == {"closed", "renamed", "installed"}

FileInv ==
  /\ rPhase \in Unopened => expected = 0
  /\ rPhase \in {"data", "saving"} => part = Begun(expected)
  /\ rPhase \in Settled => part = Begun(Blocks)
WholeHere  == rPhase \in Settled \cup {"raised"} /\ part = Begun(Blocks)
VerdictInv == WholeHere \/ (result # "verified" /\ toSender \in Seq(NotOk))
NotYetReported == phase # "end" <=> result = "none"
DeliveryInv == TypeOK /\ FileInv /\ VerdictInv /\ NotYetReported

(* One more block of this GET. *)
LEMMA BegunGrows ==
  ASSUME NEW n \in Nat, NEW g
  PROVE  /\ Len([i \in 1 .. n |-> <<g, i - 1>>]) = n
         /\ Append([i \in 1 .. n |-> <<g, i - 1>>], <<g, n>>) = [i \in 1 .. n + 1 |-> <<g, i - 1>>]
  OBVIOUS

(* One more number of the file. *)
LEMMA NumbersGrow ==
  ASSUME NEW n \in Nat
  PROVE  Len(Numbers(n)) = n /\ Append(Numbers(n), n) = Numbers(n + 1) /\ Numbers(0) = <<>>
  BY DEF Numbers

(* The abstract copy of a .PART that this GET has begun. *)
LEMMA CopyOfBegun ==
  ASSUME NEW n \in Nat, part = Begun(n), rPhase \notin Unopened
  PROVE  Copy = Numbers(n)
<1>1. Len(part) = n
  BY DEF Begun
<1>2. \A i \in 1 .. n : part[i][1] = gets /\ part[i][2] = i - 1
  BY DEF Begun
<1>3. QED
  BY <1>1, <1>2 DEF Copy, Numbers

(* The abstract copy of a .PART whose last blocks were not written out. *)
LEMMA CopyOfBeginning ==
  ASSUME part \in Seq(Nat \X Seqs), rPhase \notin Unopened, rPhase' \notin Unopened,
         UNCHANGED gets, NEW n \in 0 .. Len(part), part' = SubSeq(part, 1, n)
  PROVE  n \in 0 .. Len(Copy) /\ Copy' = SubSeq(Copy, 1, n)
<1>1. Len(part) \in Nat /\ Len(Copy) = Len(part)
  BY LenProperties DEF Copy
<1>2. Len(part') = n /\ \A i \in 1 .. n : part'[i] = part[i]
  BY <1>1
<1>3. Copy' = [i \in 1 .. n |-> Copy[i]]
  BY <1>1, <1>2 DEF Copy
<1>4. SubSeq(Copy, 1, n) = [i \in 1 .. n |-> Copy[i]]
  BY <1>1
<1>5. QED
  BY <1>1, <1>3, <1>4

(* A sender action leaves the receiver alone, reports at most once, and     *)
(* reports success only for an OK it has read.                              *)
LEMMA SenderReports ==
  ASSUME TypeOK, NotYetReported, SenderStep
  PROVE  /\ UNCHANGED <<receiverVars, gets>> /\ result = "none" /\ NotYetReported'
         /\ toSender' = toSender \/ (toSender # <<>> /\ toSender' = Tail(toSender))
         /\ result' = "verified" => toSender # <<>> /\ Reply.kind = "OK"
<1> DEFINE Open == phase' # "end" /\ result' = result
           Shut == phase' = "end" /\ result' \notin {"none", "verified"}
<1>1. TakeReply \/ NoReply
  BY DEF SenderStep, RecvReady, GiveUp, RecvAck, RecvNak, AckTimeout, RecvUnexpectedReply,
         RecvFinal
<1>2. phase # "end"
  BY DEF SenderStep, RecvReady, GiveUp, DeadlineWaits, RecvAck, RecvNak, AckTimeout,
         RecvUnexpectedReply, RecvFinal
<1>3. /\ \A n : SendBlock(n) => Open
      /\ \A why : (Raises(why) \/ Fails(why)) /\ why \notin {"none", "verified"} => Shut
  BY DEF SendBlock, Raises, Fails, Ends
<1>4. \A missed : SendAgain(missed) => Open \/ Shut
  BY <1>2, <1>3 DEF SendAgain
<1>5. \/ Open \/ Shut
      \/ phase' = "end" /\ result' = "verified" /\ toSender # <<>> /\ Reply.kind = "OK"
  <2>1. CASE RecvReady \/ GiveUp \/ RecvUnexpectedReply
    BY <1>3, <2>1 DEF RecvReady, GiveUp, RecvUnexpectedReply
  <2>2. CASE RecvAck
    BY <1>3, <2>2 DEF RecvAck
  <2>3. CASE RecvNak \/ AckTimeout
    BY <1>3, <1>4, <2>3 DEF RecvNak, AckTimeout
  <2>4. CASE RecvFinal
    BY <2>4 DEF RecvFinal, Raises, Ends, TakeReply
  <2>5. QED
    BY <2>1, <2>2, <2>3, <2>4 DEF SenderStep
<1>6. UNCHANGED <<receiverVars, gets>>
  BY <1>1 DEF TakeReply, NoReply, OfSender, world
<1>7. toSender' = toSender \/ (toSender # <<>> /\ toSender' = Tail(toSender))
  BY <1>1 DEF TakeReply, NoReply
<1>8. QED
  BY <1>2, <1>5, <1>6, <1>7 DEF NotYetReported

(* The receiver and the faults leave the sender and the GET alone. *)
LEMMA OthersLeaveSender ==
  ASSUME ReceiverStep \/ FaultStep
  PROVE  UNCHANGED <<senderVars, gets>>
  BY DEF ReceiverStep, FaultStep, OfReceiver, OnDisk, Read, LineOnly, Fault, world,
     RecvMeta, OpenCheckpoint, OpenPart, RecvAnswered, RecvBlock, SaveCheckpoint, RecvShortFrame,
     RecvDone, Rename, DropCheckpoint, RecvUnexpected, RecvTimeout,
     LoseLine, DamageLine, GarbleReply, StorageFails, ReceiverCrash

LEMMA HeadType == \A S : \A s \in Seq(S) : s # <<>> => Head(s) \in S
  BY ChannelType

LEMMA ReadType ==
  ASSUME TypeOK, toReceiver # <<>>
  PROVE  Input \in ToReceiverLine
<1>1. toReceiver \in Seq(ToReceiverLine)
  BY DEF TypeOK, LineTypeOK
<1>2. QED
  BY <1>1, HeadType, Zenon DEF Input

(* What the receiver and its machine do to the file, one step at a time.   *)
LEMMA FileStep ==
  ASSUME TypeOK, FileInv, ReceiverStep \/ FaultStep
  PROVE  \/ UNCHANGED <<part, expected, rPhase>>
         \/ /\ rPhase \in Unopened /\ rPhase' \in Unopened \ {"refused"}
            /\ UNCHANGED <<part, expected>>
            /\ rPhase # "refused"
         \/ /\ rPhase = "open" /\ rPhase' = "data" /\ part' = <<>> /\ UNCHANGED expected
         \/ /\ rPhase = "data" /\ rPhase' \in {"data", "saving"} /\ expected < Blocks
            /\ part' = Append(part, <<gets, expected>>) /\ expected' = expected + 1
         \/ rPhase = "saving" /\ rPhase' = "data" /\ UNCHANGED <<part, expected>>
         \/ /\ rPhase = "data" /\ rPhase' = "closed" /\ expected = Blocks
            /\ UNCHANGED <<part, expected>>
         \/ /\ rPhase = "closed" /\ rPhase' = "renamed"
            /\ UNCHANGED <<part, expected>>
         \/ /\ rPhase = "renamed" /\ rPhase' = "installed"
            /\ UNCHANGED <<part, expected>>
         \/ /\ rPhase \in Unopened \ {"refused"} /\ rPhase' = "refused"
            /\ UNCHANGED <<part, expected>>
         \/ /\ rPhase \in {"data", "saving"} /\ rPhase' \in {"kept", "raised"}
            /\ UNCHANGED expected
            /\ \E n \in 0 .. Len(part) : part' = SubSeq(part, 1, n)
         \/ /\ rPhase = "closed" /\ rPhase' = "raised" /\ UNCHANGED <<part, expected>>
<1>1. TakeInput => Input \in ToReceiverLine
  BY ReadType DEF TakeInput
<1>2. UNCHANGED part => \E n \in 0 .. Len(part) : part' = SubSeq(part, 1, n)
  <2>1. part \in Seq(Nat \X Seqs)
    BY DEF TypeOK, ReceiverTypeOK
  <2>2. Len(part) \in 0 .. Len(part) /\ part = SubSeq(part, 1, Len(part))
    BY <2>1
  <2>3. QED
    BY <2>2, Zenon
<1>3. CASE RecvMeta \/ OpenCheckpoint \/ OpenPart
  BY <1>3
  DEF RecvMeta, OpenCheckpoint, OpenPart, OnDisk, Truncated, Raise, Abandoned, Unopened, disk
<1>4. CASE SaveCheckpoint \/ Rename \/ DropCheckpoint
  BY <1>4 DEF SaveCheckpoint, Rename, DropCheckpoint, OnDisk
<1>5. CASE RecvAnswered \/ RecvShortFrame
  BY <1>5 DEF RecvAnswered, RecvShortFrame, receiverVars, disk
<1>6. CASE RecvBlock
  <2>1. expected < Blocks
    BY <1>1, <1>6, StopAndWaitAssumption DEF RecvBlock, Read, ToReceiverLine, Seqs
  <2>2. QED
    BY <1>6, <2>1 DEF RecvBlock, Read
<1>7. CASE RecvDone
  BY <1>2, <1>7 DEF RecvDone, Read, disk
<1>8. CASE RecvUnexpected
  BY <1>2, <1>8 DEF RecvUnexpected, Read, Raise, Abandoned, Unopened, disk
<1>9. CASE RecvTimeout
  BY <1>2, <1>9 DEF RecvTimeout, Raise, Abandoned, Unopened, disk
<1>10. CASE LoseLine \/ DamageLine \/ GarbleReply
  BY <1>10 DEF LoseLine, DamageLine, GarbleReply, LineOnly, receiverVars, disk
<1>11. CASE StorageFails
  BY <1>2, <1>11 DEF StorageFails, Raise, Abandoned, Unopened, disk
<1>12. CASE ReceiverCrash
  BY <1>2, <1>12 DEF ReceiverCrash, Abandoned, Unopened
<1>13. QED
  BY <1>3, <1>4, <1>5, <1>6, <1>7, <1>8, <1>9, <1>10, <1>11, <1>12 DEF ReceiverStep, FaultStep

(* The file invariant holds after any such step. *)
LEMMA FileInvStays ==
  ASSUME TypeOK, FileInv, ReceiverStep \/ FaultStep
  PROVE  FileInv'
<1>1. expected \in Nat /\ UNCHANGED gets
  BY OthersLeaveSender DEF TypeOK, ReceiverTypeOK
<1>2. \A n : Begun(n)' = Begun(n)
  BY <1>1 DEF Begun
<1>3. Begun(0) = <<>> /\ Append(Begun(expected), <<gets, expected>>) = Begun(expected + 1)
  BY <1>1, BegunGrows DEF Begun
<1>4. QED
  BY <1>1, <1>2, <1>3, FileStep DEF FileInv, Unopened, Settled

(* An OK on its way means that the whole file is here, and so does a        *)
(* verified result.                                                         *)
LEMMA VerdictStays ==
  ASSUME TypeOK, FileInv, FileInv', VerdictInv, NotYetReported, [Next]_vars
  PROVE  VerdictInv'
<1>1. CASE UNCHANGED vars
  BY <1>1 DEF VerdictInv, WholeHere, Begun, vars, senderVars, receiverVars, disk, world
<1>2. CASE GetAgain
  BY <1>2, EmptySeq DEF GetAgain, Asked, VerdictInv
<1>3. CASE SenderStep
  <2>1. CASE WholeHere
    BY <1>3, <2>1, SenderReports DEF WholeHere, VerdictInv, Begun, receiverVars, disk
  <2>2. CASE toSender \in Seq(NotOk)
    <3>1. toSender # <<>> => Reply \in NotOk /\ Tail(toSender) \in Seq(NotOk)
      BY <2>2, ChannelType DEF Reply
    <3>2. result' # "verified" /\ toSender' \in Seq(NotOk)
      BY <1>3, <2>2, <3>1, SenderReports DEF NotOk
    <3>3. QED
      BY <3>2 DEF VerdictInv
  <2>3. QED
    BY <2>1, <2>2 DEF VerdictInv
<1>4. CASE ReceiverStep \/ FaultStep
  <2>1. UNCHANGED <<result, gets>>
    BY <1>4, OthersLeaveSender DEF senderVars
  <2>2. CASE WholeHere
    <3>1. rPhase' \in Settled \cup {"raised"} /\ UNCHANGED part
      BY <1>4, <2>2, FileStep DEF WholeHere, Settled, Unopened
    <3>2. QED
      BY <2>1, <2>2, <3>1 DEF WholeHere, VerdictInv, Begun
  <2>3. CASE rPhase' = "closed"
    BY <2>3 DEF FileInv, VerdictInv, WholeHere, Settled
  <2>4. CASE rPhase' # "closed" /\ result # "verified" /\ toSender \in Seq(NotOk)
    <3>1. expected \in Nat /\ (TakeInput => Input.seq \in Nat)
      <4>1. TakeInput => Input \in ToReceiverLine
        BY ChannelType DEF TypeOK, LineTypeOK, TakeInput, Input
      <4>2. QED
        BY <4>1 DEF TypeOK, ReceiverTypeOK, ToReceiverLine, Seqs
    <3>2. \A kind \in ReceiverKinds \ {"OK"} :
            Word(kind) \in NotOk /\ \A n \in Nat : Line(kind, n) \in NotOk
      BY LineType, Zenon DEF NotOk, Word, Line
    <3>3. \A line \in NotOk : Answer(line) => toSender' \in Seq(NotOk)
      BY <2>4, ChannelType DEF Answer
    <3>4. \A kind \in ReceiverKinds \ {"OK"} : Answer(Word(kind)) => toSender' \in Seq(NotOk)
      BY <3>2, <3>3
    <3>5. \A kind \in ReceiverKinds \ {"OK"}, n \in Nat :
            Answer(Line(kind, n)) => toSender' \in Seq(NotOk)
      BY <3>2, <3>3
    <3>6. toSender' \in Seq(NotOk)
      <4>1. CASE UNCHANGED toSender
        BY <2>4, <4>1
      <4>2. CASE RecvMeta \/ RecvDone \/ RecvUnexpected \/ StorageFails
        BY <2>4, <3>4, <4>1, <4>2
        DEF RecvMeta, RecvDone, RecvUnexpected, StorageFails, ReceiverKinds
      <4>3. CASE RecvAnswered \/ RecvBlock \/ RecvShortFrame
        BY <3>1, <3>5, <4>1, <4>3
        DEF RecvAnswered, RepeatedAnswer, RecvBlock, RecvShortFrame, Read, ReceiverKinds
      <4>4. CASE LoseLine \/ GarbleReply
        BY <2>4, <3>2, <4>1, <4>4, ChannelType DEF LoseLine, GarbleReply, ReceiverKinds
      <4>5. QED
        BY <1>4, <4>1, <4>2, <4>3, <4>4
        DEF ReceiverStep, FaultStep, OnDisk, OpenCheckpoint, OpenPart, SaveCheckpoint, Rename,
            DropCheckpoint, RecvTimeout, DamageLine, ReceiverCrash
    <3>7. QED
      BY <2>1, <2>4, <3>6 DEF VerdictInv
  <2>5. QED
    BY <2>2, <2>3, <2>4 DEF VerdictInv
<1>5. QED
  BY <1>1, <1>2, <1>3, <1>4 DEF Next

(* Every step is a step of FileDelivery, or none. *)
LEMMA DeliveryStep ==
  ASSUME DeliveryInv, VerdictInv', [Next]_vars
  PROVE  [Delivery!Next]_<<Copy, Holder, Outcome>>
<1>1. CASE UNCHANGED vars
  BY <1>1
  DEF vars, senderVars, receiverVars, disk, world, Copy, Holder, Outcome, Reading
<1>2. CASE GetAgain
  <2>1. Copy' = <<>> /\ Holder' = "writing" /\ Outcome' = "none"
    BY <1>2 DEF GetAgain, Asked, Copy, Holder, Outcome, Reading, Unopened
  <2>2. Holder \in {"stopped", "installed"} /\ Outcome # "none"
    BY <1>2
    DEF GetAgain, SenderEnded, ReceiverEnded, Holder, Outcome, Reading, DeliveryInv, NotYetReported
  <2>3. QED
    BY <2>1, <2>2 DEF Delivery!Next, Delivery!AskAgain
<1>3. CASE SenderStep
  <2>1. UNCHANGED <<Copy, Holder>> /\ result = "none"
    BY <1>3, SenderReports DEF DeliveryInv, receiverVars, disk, Copy, Holder, Reading
  <2>2. CASE result' = "none"
    BY <2>1, <2>2 DEF Outcome
  <2>3. CASE result' = "verified"
    <3>1. WholeHere
      <4>1. WholeHere'
        BY <2>3, <1>3 DEF VerdictInv
      <4>2. QED
        BY <1>3, <4>1, SenderReports DEF DeliveryInv, receiverVars, disk, WholeHere, Begun
    <3>2. Copy = Numbers(Blocks)
      BY <3>1, CopyOfBegun, StopAndWaitAssumption DEF WholeHere, Settled, Unopened
    <3>3. Holder # "writing"
      BY <3>1 DEF WholeHere, Settled, Holder, Reading
    <3>4. Delivery!Report
      BY <2>1, <2>3, <3>2, <3>3 DEF Delivery!Report, Delivery!File, Numbers, Outcome
    <3>5. QED
      BY <3>4 DEF Delivery!Next
  <2>4. CASE result' \notin {"none", "verified"}
    <3>1. Delivery!Report
      BY <2>1, <2>4 DEF Delivery!Report, Outcome
    <3>2. QED
      BY <3>1 DEF Delivery!Next
  <2>5. QED
    BY <2>2, <2>3, <2>4
<1>4. CASE ReceiverStep \/ FaultStep
  <2>1. UNCHANGED <<Outcome, gets>> /\ TypeOK /\ FileInv
    BY <1>4, OthersLeaveSender DEF senderVars, Outcome, DeliveryInv
  <2>2. expected \in Nat /\ part \in Seq(Nat \X Seqs)
    BY <2>1 DEF TypeOK, ReceiverTypeOK
  <2>3. CASE UNCHANGED <<part, rPhase>>
    BY <2>1, <2>3 DEF Holder, Reading, Copy
  <2>4. CASE rPhase \in Unopened \ {"refused"} /\ rPhase' \in Unopened \ {"refused"}
    BY <2>1, <2>4 DEF Holder, Reading, Copy, Unopened
  <2>5. CASE rPhase = "open" /\ rPhase' = "data" /\ part' = <<>>
    <3>1. Copy = <<>> /\ Copy' = <<>>
      BY <2>5 DEF Copy, Unopened
    <3>2. QED
      BY <2>1, <2>5, <3>1 DEF Holder, Reading
  <2>6. CASE /\ rPhase = "data" /\ rPhase' \in {"data", "saving"} /\ expected < Blocks
             /\ part' = Append(part, <<gets, expected>>) /\ expected' = expected + 1
    <3>1. part = Begun(expected)
      BY <2>1, <2>6 DEF FileInv
    <3>2. Copy = Numbers(expected)
      BY <2>2, <2>6, <3>1, CopyOfBegun DEF Unopened
    <3>3. part' = Begun(expected + 1)
      BY <2>2, <2>6, <3>1, BegunGrows DEF Begun
    <3>4. Copy' = Numbers(expected + 1)
      <4>1. Len(part') = expected + 1
        BY <2>2, <2>1, <2>6, <3>3 DEF Begun
      <4>2. \A i \in 1 .. expected + 1 : part'[i] = <<gets, i - 1>>
        BY <2>2, <3>3 DEF Begun
      <4>3. QED
        <5>1. \A i \in 1 .. expected + 1 : part'[i][1] = gets' /\ part'[i][2] = i - 1
          BY <2>1, <4>2
        <5>2. rPhase' \notin Unopened
          BY <2>6 DEF Unopened
        <5>3. QED
          BY <4>1, <5>1, <5>2 DEF Copy, Numbers
    <3>5. Delivery!Write
      BY <2>1, <2>2, <2>6, <3>2, <3>4, NumbersGrow DEF Delivery!Write, Holder, Reading
    <3>6. QED
      BY <3>5 DEF Delivery!Next
  <2>7. CASE rPhase = "saving" /\ rPhase' = "data" /\ UNCHANGED part
    BY <2>1, <2>7 DEF Holder, Reading, Copy, Unopened
  <2>8. CASE rPhase = "data" /\ rPhase' = "closed" /\ expected = Blocks /\ UNCHANGED part
    <3>1. Copy = Numbers(Blocks)
      BY <2>1, <2>2, <2>8, CopyOfBegun DEF FileInv, Unopened
    <3>2. Copy' = Copy
      BY <2>1, <2>8 DEF Copy, Unopened
    <3>3. Delivery!Verify
      BY <2>1, <2>8, <3>1, <3>2 DEF Delivery!Verify, Delivery!File, Numbers, Holder, Reading
    <3>4. QED
      BY <3>3 DEF Delivery!Next
  <2>9. CASE rPhase = "closed" /\ rPhase' = "renamed" /\ UNCHANGED part
    BY <2>1, <2>9 DEF Delivery!Next, Delivery!Install, Holder, Reading, Copy, Unopened
  <2>10. CASE rPhase = "renamed" /\ rPhase' = "installed" /\ UNCHANGED part
    BY <2>1, <2>10 DEF Holder, Reading, Copy, Unopened
  <2>11. CASE rPhase \in Unopened \ {"refused"} /\ rPhase' = "refused"
    BY <2>1, <2>11 DEF Delivery!Next, Delivery!Stop, Holder, Reading, Copy, Unopened
  <2>12. CASE /\ rPhase \in {"data", "saving"} /\ rPhase' \in {"kept", "raised"}
              /\ \E n \in 0 .. Len(part) : part' = SubSeq(part, 1, n)
    <3>1. \E n \in 0 .. Len(Copy) : Copy' = SubSeq(Copy, 1, n)
      <4>1. PICK n \in 0 .. Len(part) : part' = SubSeq(part, 1, n)
        BY <2>12
      <4>2. rPhase \notin Unopened /\ rPhase' \notin Unopened
        BY <2>12 DEF Unopened
      <4>3. QED
        BY <2>1, <2>2, <4>1, <4>2, CopyOfBeginning
    <3>2. Holder = "writing" /\ Holder' = "stopped"
      BY <2>12 DEF Holder, Reading
    <3>3. QED
      BY <2>1, <3>1, <3>2 DEF Delivery!Next, Delivery!Stop
  <2>13. CASE rPhase = "closed" /\ rPhase' = "raised" /\ UNCHANGED part
    BY <2>1, <2>13 DEF Delivery!Next, Delivery!Stop, Holder, Reading, Copy, Unopened
  <2>14. QED
    BY <1>4, <2>1, <2>3, <2>4, <2>5, <2>6, <2>7, <2>8, <2>9, <2>10, <2>11, <2>12, <2>13, FileStep
<1>5. QED
  BY <1>1, <1>2, <1>3, <1>4 DEF Next

(* send_file and _receive without FLOW implement FileDelivery too, wherever *)
(* the receiver is killed or its disk fails and however often the file is   *)
(* asked for again: no block of an earlier attempt survives into the next.  *)
THEOREM StopAndWaitDelivers == Spec => DeliversFile
<1>1. Init => FileInv /\ VerdictInv /\ NotYetReported /\ Delivery!Init
  BY EmptySeq
  DEF Init, FileInv, VerdictInv, NotYetReported, Delivery!Init, Copy, Holder, Outcome, Reading,
      Unopened, Settled
<1>2. TypeOK /\ FileInv /\ NotYetReported /\ [Next]_vars => FileInv' /\ NotYetReported'
  <2>1. SUFFICES ASSUME TypeOK, FileInv, NotYetReported, [Next]_vars
                 PROVE  FileInv' /\ NotYetReported'
    OBVIOUS
  <2>2. CASE UNCHANGED vars
    BY <2>1, <2>2
    DEF FileInv, NotYetReported, Begun, vars, senderVars, receiverVars, disk, world
  <2>3. CASE SenderStep
    BY <2>1, <2>3, SenderReports DEF FileInv, Begun, receiverVars, disk
  <2>4. CASE ReceiverStep \/ FaultStep
    BY <2>1, <2>4, FileInvStays, OthersLeaveSender DEF NotYetReported, senderVars
  <2>5. CASE GetAgain
    BY <2>5 DEF GetAgain, Asked, FileInv, NotYetReported, Settled
  <2>6. QED
    BY <2>1, <2>2, <2>3, <2>4, <2>5 DEF Next
<1>3. TypeOK /\ FileInv /\ FileInv' /\ VerdictInv /\ NotYetReported /\ [Next]_vars => VerdictInv'
  BY VerdictStays
<1>4. DeliveryInv /\ VerdictInv' /\ [Next]_vars => [Delivery!Next]_(Delivery!delivery)
  BY DeliveryStep DEF Delivery!delivery
<1>5. DeliveryInv <=> TypeOK /\ FileInv /\ VerdictInv /\ NotYetReported
  BY DEF DeliveryInv
<1>6. QED
  BY <1>1, <1>2, <1>3, <1>4, <1>5, StopAndWaitTypes, PTL DEF Spec, DeliversFile, Delivery!Spec

-----------------------------------------------------------------------------
(* The checkpoint.  While blocks are read it is the last position at which *)
(* one was due, and it goes only after .PART did.                          *)

Behind ==
  /\ checkpoint \in 0 .. expected
  /\ checkpoint = 0 \/ CheckpointDue(checkpoint)
  /\ \A n \in checkpoint + 1 .. expected : ~CheckpointDue(n)
CheckpointInv ==
  /\ partThere => checkpoint # NoCheckpoint
  /\ rPhase \notin Unopened /\ checkpoint # NoCheckpoint => checkpoint <= expected
  /\ rPhase = "open" => checkpoint = 0
  /\ rPhase = "renamed" => ~partThere
  /\ rPhase = "data" => Behind
  /\ rPhase = "saving" => CheckpointDue(expected)

(* Quotient and remainder. *)
LEMMA Division ==
  ASSUME NEW a \in Nat, NEW d \in Nat \ {0}
  PROVE  /\ a = d * (a \div d) + (a % d)
         /\ a % d \in 0 .. d - 1 /\ a \div d \in Nat
  OBVIOUS

(* The only multiple of d below d and above -d is zero. *)
LEMMA SmallMultiple ==
  ASSUME NEW q \in Int, NEW d \in Int, d > 0, q * d < d, q * d > 0 - d
  PROVE  q = 0
<1>1. CASE q >= 1
  <2>1. q * d >= d
    BY <1>1
  <2>2. QED
    BY <2>1
<1>2. CASE q <= -1
  <2>1. q * d <= -d
    BY <1>2
  <2>2. QED
    BY <2>1
<1>3. QED
  BY <1>1, <1>2

(* Checkpoints are at multiples of the distance between them. *)
LEMMA NextMultiple ==
  ASSUME NEW c \in Nat, NEW d \in Nat \ {0}, c % d = 0
  PROVE  (c + d) % d = 0
<1>1. PICK q \in Nat : q = c \div d
  BY Division
<1>2. c = d * q
  BY <1>1, Division
<1>3. PICK e \in Nat : e = c + d
  OBVIOUS
<1>4. PICK s \in Nat, r \in 0 .. d - 1 : s = e \div d /\ r = e % d
  BY <1>3, Division
<1>5. e = d * s + r
  BY <1>3, <1>4, Division
<1>6. r = d * (q + 1 - s)
  BY <1>2, <1>3, <1>5
<1>7. q + 1 - s = 0
  BY <1>6, SmallMultiple
<1>8. QED
  BY <1>3, <1>4, <1>6, <1>7

(* The next checkpoint comes in time, and with the last block. *)
LEMMA BehindTrails ==
  ASSUME TypeOK, Behind
  PROVE  /\ checkpoint <= expected
         /\ expected < checkpoint + CheckpointEvery
         /\ expected = Blocks => checkpoint = Blocks
<1>1. /\ checkpoint \in Nat /\ expected \in 0 .. Blocks /\ checkpoint <= expected
      /\ Blocks \in Nat /\ CheckpointEvery \in Nat \ {0}
  BY StopAndWaitAssumption DEF TypeOK, ReceiverTypeOK, Behind
<1>2. expected = Blocks => checkpoint = Blocks
  <2>1. CheckpointDue(Blocks)
    BY DEF CheckpointDue
  <2>2. QED
    BY <1>1, <2>1 DEF Behind
<1>3. expected < checkpoint + CheckpointEvery
  <2>1. CASE checkpoint = Blocks
    BY <1>1, <2>1
  <2>2. CASE checkpoint # Blocks
    <3>1. checkpoint % CheckpointEvery = 0
      BY <1>1, <2>2 DEF Behind, CheckpointDue
    <3>2. CheckpointDue(checkpoint + CheckpointEvery)
      BY <1>1, <3>1, NextMultiple DEF CheckpointDue
    <3>3. QED
      BY <1>1, <3>2 DEF Behind
  <2>3. QED
    BY <2>1, <2>2
<1>4. QED
  BY <1>1, <1>2, <1>3

(* What the receiver and its machine do to the checkpoint keeps it so. *)
LEMMA CheckpointStays ==
  ASSUME TypeOK, FileInv, CheckpointInv, ReceiverStep \/ FaultStep
  PROVE  CheckpointInv'
<1>1. expected \in 0 .. Blocks /\ Blocks \in Nat
  BY StopAndWaitAssumption DEF TypeOK, ReceiverTypeOK
<1>2. CASE /\ UNCHANGED <<checkpoint, partThere, expected>>
           /\ rPhase' \in {"opening", "refused", "closed", "kept", "raised", "installed", rPhase}
           /\ rPhase' \in Unopened \/ rPhase \notin Unopened
  <2>1. Behind' <=> Behind
    BY <1>2 DEF Behind, CheckpointDue
  <2>2. CheckpointDue(expected)' <=> CheckpointDue(expected)
    BY <1>2 DEF CheckpointDue
  <2>3. NoCheckpoint' = NoCheckpoint
    BY DEF NoCheckpoint
  <2>4. QED
    BY <1>2, <2>1, <2>2, <2>3 DEF CheckpointInv
<1>3. CASE RecvMeta \/ RecvDone \/ RecvUnexpected \/ RecvTimeout
  BY <1>2, <1>3
  DEF RecvMeta, RecvDone, RecvUnexpected, RecvTimeout, Read, Raise, Abandoned, Unopened, disk
<1>4. CASE OpenCheckpoint
  BY <1>1, <1>4 DEF OpenCheckpoint, OnDisk, FileInv, CheckpointInv, Unopened, NoCheckpoint
<1>5. CASE OpenPart
  <2>1. expected = 0 /\ UNCHANGED <<expected, checkpoint>> /\ checkpoint = 0 /\ rPhase' = "data"
    BY <1>5 DEF OpenPart, OnDisk, FileInv, CheckpointInv, Unopened
  <2>2. Behind'
    BY <2>1 DEF Behind
  <2>3. QED
    BY <1>1, <2>1, <2>2 DEF CheckpointInv, NoCheckpoint, Unopened
<1>6. CASE RecvAnswered \/ RecvShortFrame \/ LoseLine \/ DamageLine \/ GarbleReply
  BY <1>2, <1>6
  DEF RecvAnswered, RecvShortFrame, LoseLine, DamageLine, GarbleReply, LineOnly, receiverVars, disk
<1>7. CASE RecvBlock
  <2>1. /\ rPhase = "data" /\ expected' = expected + 1 /\ UNCHANGED <<partThere, checkpoint>>
        /\ rPhase' = IF CheckpointDue(expected + 1) THEN "saving" ELSE "data"
    BY <1>7 DEF RecvBlock, Read
  <2>2. Behind /\ checkpoint <= expected + 1
    BY <1>1, <2>1 DEF CheckpointInv, Behind
  <2>3. CASE CheckpointDue(expected + 1)
    BY <2>1, <2>2, <2>3 DEF CheckpointInv, CheckpointDue, NoCheckpoint
  <2>4. CASE ~CheckpointDue(expected + 1)
    <3>1. \A n \in checkpoint + 1 .. expected + 1 : ~CheckpointDue(n)
      BY <1>1, <2>2, <2>4 DEF Behind
    <3>2. Behind'
      <4>1. checkpoint \in 0 .. expected + 1
        BY <1>1, <2>2 DEF Behind
      <4>2. QED
        BY <2>1, <2>2, <3>1, <4>1 DEF Behind, CheckpointDue
    <3>3. QED
      BY <2>1, <2>2, <2>4, <3>2 DEF CheckpointInv, NoCheckpoint
  <2>5. QED
    BY <2>3, <2>4
<1>8. CASE SaveCheckpoint
  <2>1. UNCHANGED expected /\ checkpoint' = expected /\ rPhase' = "data"
        /\ CheckpointDue(expected)
    BY <1>8 DEF SaveCheckpoint, OnDisk, CheckpointInv
  <2>2. Behind'
    BY <1>1, <2>1 DEF Behind, CheckpointDue
  <2>3. QED
    BY <1>1, <2>1, <2>2 DEF CheckpointInv, NoCheckpoint
<1>9. CASE Rename \/ DropCheckpoint
  BY <1>9 DEF Rename, DropCheckpoint, OnDisk, CheckpointInv, NoCheckpoint, Unopened
<1>10. CASE StorageFails \/ ReceiverCrash
  BY <1>2, <1>10 DEF StorageFails, ReceiverCrash, Raise, Abandoned, Unopened, disk
<1>11. QED
  BY <1>3, <1>4, <1>5, <1>6, <1>7, <1>8, <1>9, <1>10 DEF ReceiverStep, FaultStep

(* Wherever _receive is killed or its disk fails, whatever the distance     *)
(* between two checkpoints, .PART is never without a .PCUTP, and that one   *)
(* never names a block that _receive has not written; while it reads on,    *)
(* the .PCUTP is behind by less than that distance and level with the last  *)
(* block.  What a kill leaves of the writes is not the theorem's subject.   *)
THEOREM CheckpointIsBehind == Spec => []CheckpointTrails
<1>1. Init => FileInv /\ CheckpointInv /\ NotYetReported
  BY DEF Init, FileInv, CheckpointInv, NotYetReported, Unopened, Settled
<1>2. TypeOK /\ FileInv /\ CheckpointInv /\ NotYetReported /\ [Next]_vars
        => FileInv' /\ CheckpointInv' /\ NotYetReported'
  <2>1. SUFFICES ASSUME TypeOK, FileInv, CheckpointInv, NotYetReported, [Next]_vars
                 PROVE  FileInv' /\ CheckpointInv' /\ NotYetReported'
    OBVIOUS
  <2>2. CASE UNCHANGED vars
    BY <2>1, <2>2
    DEF FileInv, NotYetReported, Begun, CheckpointInv, Behind, CheckpointDue, NoCheckpoint,
        vars, senderVars, receiverVars, disk, world
  <2>3. CASE SenderStep
    <3>1. UNCHANGED <<rPhase, expected, part, gets, checkpoint, partThere>> /\ NotYetReported'
      BY <2>1, <2>3, SenderReports DEF receiverVars, disk
    <3>2. QED
      BY <2>1, <3>1 DEF FileInv, Begun, CheckpointInv, Behind, CheckpointDue, NoCheckpoint
  <2>4. CASE ReceiverStep \/ FaultStep
    BY <2>1, <2>4, FileInvStays, CheckpointStays, OthersLeaveSender DEF NotYetReported, senderVars
  <2>5. CASE GetAgain
    BY <2>1, <2>5
    DEF GetAgain, Asked, FileInv, NotYetReported, CheckpointInv, NoCheckpoint, Settled, Unopened, disk
  <2>6. QED
    BY <2>1, <2>2, <2>3, <2>4, <2>5 DEF Next
<1>3. TypeOK /\ CheckpointInv => CheckpointTrails
  BY BehindTrails DEF CheckpointInv, CheckpointTrails
<1>4. QED
  BY <1>1, <1>2, <1>3, StopAndWaitTypes, PTL DEF Spec

-----------------------------------------------------------------------------
(* Recovery.  When replies are prompt and lines are only lost or corrupted, *)
(* at most one line is under way, and a block has been sent again no more   *)
(* often than a fault has hit it.                                           *)

Lost          == toReceiver = <<>> /\ toSender = <<>>
Carries(line) == toReceiver = <<line>> /\ toSender = <<>>
Returns(line) == toReceiver = <<>> /\ toSender = <<line>>

Asking ==
  /\ phase = "ready" /\ metaOk
  /\ \/ rPhase = "meta" /\ (Carries(Word("META")) \/ Lost)
     \/ rPhase \in {"opening", "open", "data"} /\ (Returns(Word("READY")) \/ Lost)
OnItsWay  == Carries(Line("DATA", seq)) \/ Returns(Line("ACK", seq))
SetBack   == Carries(Line("BAD", seq)) \/ Lost \/ \E n \in Nat : Returns(Line("NAK", n))
Delivering ==
  /\ phase = "ack" /\ metaOk /\ rPhase \in {"opening", "open", "data", "saving"}
  /\ timeouts <= attempt
  /\ (OnItsWay /\ attempt <= faults) \/ (SetBack /\ attempt < faults)
Closing ==
  /\ phase = "done"
  /\ \/ /\ rPhase \in {"data", "saving"} /\ expected = Blocks /\ metaOk
        /\ Carries(Word("DONE")) \/ Lost
     \/ rPhase \in Settled /\ (Returns(Word("OK")) \/ Lost)
Ended == phase = "end" /\ result \in {"verified", "timeout"}

(* The line that is missing was the first since the receiver heard one. *)
OneMissing == phase = "ack" /\ Lost => silence = 0

Recovering ==
  Recoverable =>
    faults <= setting.budget /\ OneMissing /\ (Asking \/ Delivering \/ Closing \/ Ended)

(* A channel of one line. *)
LEMMA OneLine ==
  ASSUME NEW m
  PROVE  /\ <<m>> # <<>> /\ Head(<<m>>) = m /\ Tail(<<m>>) = <<>> /\ Len(<<m>>) = 1
         /\ Append(<<>>, m) = <<m>> /\ <<m>> \o <<>> = <<m>>
  OBVIOUS

(* Lines and words differ by their kind and number. *)
LEMMA LineFields ==
  /\ \A kind, n : Line(kind, n).kind = kind /\ Line(kind, n).seq = n
  /\ \A kind : Word(kind).kind = kind /\ Word(kind).seq = 0
  BY DEF Line, Word

(* The positions of a receiver that has not ended. *)
LEMMA WaitingReceiver ==
  ASSUME Asking \/ Delivering
  PROVE  /\ rPhase \in {"meta", "opening", "open", "data", "saving"} /\ Reading
         /\ phase \in {"ready", "ack"} /\ metaOk
         /\ rPhase = "meta" => phase = "ready"
  BY DEF Asking, Delivering, Reading

(* With prompt replies a deadline of the sender passes only when its line   *)
(* or the answer to it was lost, or the receiver has ended.                 *)
LEMMA DeadlineMeansLost ==
  ASSUME setting.prompt, DeadlinePassed, Asking \/ Delivering
  PROVE  Lost
<1>1. toSender = <<>> /\ Reading
  BY WaitingReceiver DEF DeadlinePassed
<1>2. toReceiver = <<>> \/ ShortFramePending
  BY <1>1 DEF DeadlinePassed
<1>3. ASSUME ShortFramePending PROVE FALSE
  <2>1. toReceiver # <<>>
    BY <1>3 DEF ShortFramePending
  <2>2. \E m : toReceiver = <<m>> /\ m.kind # "SHORT"
    BY <1>1, <2>1, OneLine, LineFields
    DEF Asking, Delivering, OnItsWay, SetBack, Carries, Returns, Lost
  <2>3. QED
    BY <1>3, <2>2, OneLine DEF ShortFramePending
<1>4. QED
  BY <1>1, <1>2, <1>3 DEF Lost

(* The sender: every block that is sent again, and every deadline, is one   *)
(* fault; so neither limit is reached.                                      *)
LEMMA SenderRecovers ==
  ASSUME TypeOK, NoGapInv, FileInv, Recoverable, faults <= setting.budget,
         Asking \/ Delivering \/ Closing \/ Ended, SenderStep
  PROVE  Asking' \/ Delivering' \/ Closing' \/ Ended'
<1>1. /\ attempt \in Nat /\ timeouts \in Nat /\ faults \in Nat /\ seq \in Nat /\ expected \in Nat
      /\ MaxRetries \in Nat /\ MaxTimeouts \in Nat /\ setting.budget \in Nat
      /\ setting.prompt /\ setting.budget <= MaxRetries /\ setting.budget < MaxTimeouts
  BY StopAndWaitAssumption
  DEF TypeOK, SenderTypeOK, ReceiverTypeOK, WorldTypeOK, Seqs, Setting, Recoverable
<1>2. UNCHANGED <<rPhase, expected, metaOk, faults>>
  BY DEF SenderStep, RecvReady, GiveUp, RecvAck, RecvNak, AckTimeout, RecvUnexpectedReply,
         RecvFinal, TakeReply, NoReply, OfSender, receiverVars
<1>3. CASE RecvReady
  <2>1. Asking /\ toReceiver = <<>> /\ toSender = <<Word("READY")>>
    BY <1>3, OneLine DEF RecvReady, TakeReply, Asking, Delivering, Closing, Ended, Lost, Carries, Returns
  <2>2. Reply.kind = "READY" /\ Tail(toSender) = <<>>
    BY <2>1, OneLine, LineFields DEF Reply
  <2>3. SendBlock(0) /\ toSender' = <<>>
    BY <1>3, <2>2 DEF RecvReady, TakeReply
  <2>4. Carries(Line("DATA", seq))'
    BY <2>1, <2>3, OneLine DEF SendBlock, Send, Carries
  <2>5. Delivering'
    BY <1>1, <1>2, <2>1, <2>3, <2>4, OneLine DEF SendBlock, Asking, Carries, Returns, Lost, Delivering, OnItsWay
  <2>6. QED
    BY <2>5
<1>4. CASE GiveUp
  <2>1. Ended'
    BY <1>4 DEF GiveUp, Raises, Ends, Ended
  <2>2. QED
    BY <2>1
<1>5. CASE phase = "ack" /\ TakeReply
  <2>1. Delivering
    BY <1>5 DEF Asking, Delivering, Closing, Ended
  <2>2. /\ toReceiver = <<>> /\ toSender' = <<>>
        /\ \/ toSender = <<Line("ACK", seq)>>
           \/ (\E n \in Nat : toSender = <<Line("NAK", n)>>) /\ attempt < faults
    BY <1>5, <2>1, OneLine DEF TakeReply, Delivering, OnItsWay, SetBack, Carries, Returns, Lost
  <2>3. \/ Reply = Line("ACK", seq)
        \/ (\E n \in Nat : Reply = Line("NAK", n)) /\ attempt < faults
    BY <2>2, OneLine DEF Reply
  <2>4. CASE RecvAck
    <3>1. Reply = Line("ACK", seq)
      BY <2>3, <2>4, LineFields DEF RecvAck, AckOfBlock
    <3>2. CASE SendBlock(seq + 1)
      <4>1. Carries(Line("DATA", seq))'
        BY <2>2, <3>2, OneLine DEF SendBlock, Send, Carries
      <4>2. Delivering'
        BY <1>1, <1>2, <2>1, <3>2, <4>1 DEF SendBlock, Delivering, OnItsWay
      <4>3. QED
        BY <4>2
    <3>3. CASE seq + 1 >= Blocks /\ phase' = "done" /\ Send(Word("DONE"))
      <4>1. Carries(Word("DONE"))'
        BY <2>2, <3>3, OneLine DEF Send, Carries
      <4>2. Reading /\ metaOk
        BY <2>1, WaitingReceiver
      <4>3. expected > seq /\ expected <= Blocks
        <5>1. Reply \in Told
          BY <2>2, ChannelType, OneLine DEF NoGapInv, Reply
        <5>2. QED
          BY <1>1, <3>1, <5>1, LineFields DEF Told, TypeOK, ReceiverTypeOK
      <4>4. expected = Blocks
        BY <1>1, <3>3, <4>3, StopAndWaitAssumption
      <4>5. rPhase \in {"data", "saving"}
        BY <2>1, <4>4, StopAndWaitAssumption DEF Delivering, FileInv, Unopened
      <4>6. Closing'
        BY <1>2, <3>3, <4>1, <4>2, <4>4, <4>5 DEF Closing
      <4>7. QED
        BY <4>6
    <3>4. QED
      BY <2>4, <3>2, <3>3 DEF RecvAck
  <2>5. CASE RecvNak
    <3>1. attempt < faults
      BY <2>3, <2>5, LineFields DEF RecvNak
    <3>2. attempt < MaxRetries
      BY <1>1, <3>1
    <3>3. /\ attempt' = attempt + 1 /\ timeouts' = timeouts
          /\ Send(Line("DATA", seq)) /\ UNCHANGED <<phase, seq>>
      BY <1>1, <2>5, <3>2 DEF RecvNak, SendAgain
    <3>4. Carries(Line("DATA", seq))'
      BY <2>2, <3>3, OneLine DEF Send, Carries
    <3>5. timeouts' <= attempt' /\ attempt' <= faults'
      BY <1>1, <1>2, <2>1, <3>1, <3>3 DEF Delivering
    <3>6. Delivering'
      BY <1>2, <2>1, <3>3, <3>4, <3>5 DEF Delivering, OnItsWay
    <3>7. QED
      BY <3>6
  <2>6. ~RecvUnexpectedReply
    BY <2>3, LineFields DEF RecvUnexpectedReply, AckOfBlock
  <2>7. QED
    BY <1>3, <1>4, <1>5, <2>4, <2>5, <2>6
    DEF SenderStep, AckTimeout, NoReply, DeadlinePassed, TakeReply, RecvFinal
<1>6. CASE AckTimeout
  <2>1. Delivering
    BY <1>6 DEF AckTimeout, Asking, Delivering, Closing, Ended
  <2>2. Lost /\ UNCHANGED toSender
    BY <1>1, <1>6, <2>1, DeadlineMeansLost DEF AckTimeout, NoReply
  <2>3. attempt < faults /\ timeouts <= attempt
    BY <2>1, <2>2, OneLine DEF Delivering, OnItsWay, Lost, Carries, Returns
  <2>4. attempt < MaxRetries /\ ~LastTimeout
    BY <1>1, <2>3 DEF LastTimeout
  <2>5. /\ attempt' = attempt + 1 /\ timeouts' = timeouts + 1
        /\ Send(Line("DATA", seq)) /\ UNCHANGED <<phase, seq>>
    BY <1>1, <1>6, <2>4 DEF AckTimeout, SendAgain
  <2>6. Carries(Line("DATA", seq))'
    BY <2>2, <2>5, OneLine DEF Lost, Send, Carries
  <2>7. timeouts' <= attempt' /\ attempt' <= faults'
    BY <1>1, <1>2, <2>3, <2>5
  <2>8. Delivering'
    BY <1>2, <2>1, <2>5, <2>6, <2>7 DEF Delivering, OnItsWay
  <2>9. QED
    BY <2>8
<1>7. CASE RecvFinal
  <2>1. Closing /\ toSender # <<>>
    BY <1>7 DEF RecvFinal, TakeReply, Asking, Delivering, Closing, Ended
  <2>2. toSender = <<Word("OK")>>
    BY <2>1 DEF Closing, Carries, Returns, Lost
  <2>3. Reply.kind = "OK"
    BY <2>2, OneLine, LineFields DEF Reply
  <2>4. Ended'
    BY <1>7, <2>3 DEF RecvFinal, Raises, Ends, Ended
  <2>5. QED
    BY <2>4
<1>8. QED
  BY <1>3, <1>4, <1>5, <1>6, <1>7
  DEF SenderStep, RecvAck, RecvNak, RecvUnexpectedReply

(* The receiver: it answers the one line it is sent, and never gives up on  *)
(* a sender that has not ended.                                             *)
LEMMA ReceiverRecovers ==
  ASSUME TypeOK, NoGapInv, FileInv, NotYetReported, Recoverable, OneMissing,
         Asking \/ Delivering \/ Closing \/ Ended, ReceiverStep
  PROVE  Asking' \/ Delivering' \/ Closing' \/ Ended'
<1>1. /\ UNCHANGED <<phase, result, seq, attempt, timeouts, faults, gets>>
      /\ attempt \in Nat /\ faults \in Nat /\ seq \in Nat /\ expected \in Nat
  <2>1. UNCHANGED <<senderVars, faults>>
    BY DEF ReceiverStep, OfReceiver, OnDisk, Read, RecvMeta, OpenCheckpoint, OpenPart,
           RecvAnswered, RecvBlock, SaveCheckpoint, RecvShortFrame, RecvDone, Rename,
           DropCheckpoint, RecvUnexpected, RecvTimeout
  <2>2. UNCHANGED gets
    BY OthersLeaveSender
  <2>3. attempt \in Nat /\ faults \in Nat /\ seq \in Nat /\ expected \in Nat
    BY DEF TypeOK, SenderTypeOK, ReceiverTypeOK, WorldTypeOK, Seqs
  <2>4. QED
    BY <2>1, <2>2, <2>3 DEF senderVars
<1>2. CASE Ended
  BY <1>1, <1>2 DEF Ended
<1>3. CASE RecvTimeout
  <2>1. ~(phase = "ack" /\ toSender = <<>> /\ silence + 1 >= Patience)
    BY <1>3 DEF RecvTimeout, OneMissing, Lost, Patience
  <2>2. phase = "end"
    BY <1>3, <2>1 DEF RecvTimeout, Recoverable
  <2>3. QED
    BY <1>2, <2>2 DEF Asking, Delivering, Closing, Ended
<1>4. CASE UNCHANGED <<toReceiver, toSender, expected, metaOk>> /\ ~Ended
           /\ \/ rPhase \in {"opening", "open"} /\ rPhase' \in {"open", "data"}
              \/ rPhase = "saving" /\ rPhase' = "data"
              \/ rPhase \in Settled /\ rPhase' \in Settled
  BY <1>1, <1>4
  DEF Asking, Delivering, Closing, OnItsWay, SetBack, Lost, Carries, Returns, Settled
<1>5. CASE Asking /\ RecvMeta
  <2>1. toReceiver = <<Word("META")>> /\ toSender = <<>>
    BY <1>5, OneLine DEF Asking, RecvMeta, TakeInput, Lost, Carries, Returns
  <2>2. Input.kind = "META"
    BY <2>1, OneLine, LineFields DEF Input
  <2>3. /\ rPhase' = "opening" /\ metaOk' /\ toReceiver' = <<>>
        /\ toSender' = <<Word("READY")>>
    BY <1>5, <2>1, <2>2, OneLine DEF RecvMeta, TakeInput, Answer
  <2>4. Asking'
    BY <1>1, <1>5, <2>3 DEF Asking, Returns
  <2>5. QED
    BY <2>4
<1>6. CASE Delivering /\ toReceiver # <<>> /\ rPhase = "data"
           /\ (RecvAnswered \/ RecvBlock \/ RecvShortFrame \/ RecvDone \/ RecvUnexpected)
  <2>1. /\ toSender = <<>>
        /\ \/ toReceiver = <<Line("DATA", seq)>> /\ attempt <= faults
           \/ toReceiver = <<Line("BAD", seq)>> /\ attempt < faults
    BY <1>1, <1>6 DEF Delivering, OnItsWay, SetBack, Lost, Carries, Returns
  <2>2. CASE toReceiver = <<Line("DATA", seq)>> /\ attempt <= faults
    <3>1. Input = Line("DATA", seq) /\ Tail(toReceiver) = <<>>
      BY <2>2, OneLine DEF Input
    <3>2. /\ RecvAnswered \/ RecvBlock
          /\ Input.seq = seq
      BY <1>6, <3>1, LineFields
      DEF RecvShortFrame, RecvDone, RecvUnexpected, Read
    <3>3. toReceiver' = <<>> /\ toSender' = <<Line("ACK", seq)>>
      <4>1. CASE RecvAnswered
        BY <2>1, <3>1, <4>1, OneLine, LineFields
        DEF RecvAnswered, Read, TakeInput, Answer, RepeatedAnswer
      <4>2. CASE RecvBlock
        BY <2>1, <3>1, <3>2, <4>2, OneLine, LineFields DEF RecvBlock, Read, TakeInput, Answer
      <4>3. QED
        BY <3>2, <4>1, <4>2
    <3>4. rPhase' \in {"data", "saving"} /\ metaOk' = metaOk
      BY <1>6, <3>2 DEF RecvAnswered, RecvBlock, receiverVars
    <3>5. Delivering'
      BY <1>1, <1>6, <2>2, <3>3, <3>4 DEF Delivering, OnItsWay, Returns
    <3>6. QED
      BY <3>5
  <2>3. CASE toReceiver = <<Line("BAD", seq)>> /\ attempt < faults
    <3>1. Input = Line("BAD", seq) /\ Tail(toReceiver) = <<>>
      BY <2>3, OneLine DEF Input
    <3>2. RecvAnswered
      BY <1>6, <3>1, LineFields
      DEF RecvBlock, RecvShortFrame, RecvDone, RecvUnexpected, Read
    <3>3. toReceiver' = <<>> /\ toSender' = <<Line("NAK", expected)>>
      BY <2>1, <3>1, <3>2, OneLine, LineFields
      DEF RecvAnswered, Read, TakeInput, Answer
    <3>4. UNCHANGED <<rPhase, metaOk>>
      BY <3>2 DEF RecvAnswered, receiverVars
    <3>5. Delivering'
      BY <1>1, <1>6, <2>3, <3>3, <3>4 DEF Delivering, SetBack, Returns
    <3>6. QED
      BY <3>5
  <2>4. QED
    BY <2>1, <2>2, <2>3
<1>7. CASE Closing /\ toReceiver # <<>> /\ rPhase = "data"
           /\ (RecvAnswered \/ RecvBlock \/ RecvShortFrame \/ RecvDone \/ RecvUnexpected)
  <2>1. toSender = <<>> /\ toReceiver = <<Word("DONE")>> /\ expected = Blocks /\ metaOk
    BY <1>7 DEF Closing, Settled, Lost, Carries, Returns
  <2>2. Input.kind = "DONE" /\ Tail(toReceiver) = <<>>
    BY <2>1, OneLine, LineFields DEF Input
  <2>3. RecvDone
    BY <1>7, <2>2 DEF RecvAnswered, RecvBlock, RecvShortFrame, RecvUnexpected, Read
  <2>4. Received = Whole
    <3>1. part = Begun(Blocks) /\ Len(part) = Blocks
      BY <1>7, <2>1, StopAndWaitAssumption, BegunGrows DEF FileInv, Begun
    <3>2. part \in Seq(Nat \X Seqs)
      BY DEF TypeOK, ReceiverTypeOK
    <3>3. Received = part
      <4>1. Len(part) - expected + 1 = 1
        BY <2>1, <3>1, StopAndWaitAssumption
      <4>2. SubSeq(part, 1, Len(part)) = part
        BY <3>2
      <4>3. QED
        BY <4>1, <4>2 DEF Received
    <3>4. QED
      BY <3>1, <3>3 DEF Whole, Begun
  <2>5. rPhase' = "closed" /\ Answer(Word("OK")) /\ toReceiver' = <<>>
    BY <2>1, <2>2, <2>3, <2>4 DEF RecvDone, Read, TakeInput, FileVerified
  <2>6. Closing'
    BY <1>1, <1>7, <2>1, <2>5, OneLine DEF Answer, Closing, Settled, Returns
  <2>7. QED
    BY <2>6
<1>8. CASE ~Ended /\ (RecvMeta \/ RecvAnswered \/ RecvBlock \/ RecvShortFrame \/ RecvDone \/ RecvUnexpected)
  <2>1. toReceiver # <<>> /\ (RecvMeta => rPhase = "meta") /\ (~RecvMeta => rPhase = "data")
    BY <1>8 DEF RecvMeta, RecvAnswered, RecvBlock, RecvShortFrame, RecvDone, RecvUnexpected, Read, TakeInput
  <2>2. (Asking => rPhase = "meta") /\ (Delivering \/ Closing => rPhase # "meta")
    BY <2>1, OneLine DEF Asking, Delivering, Closing, Settled, Lost, Carries, Returns
  <2>3. QED
    BY <1>5, <1>6, <1>7, <1>8, <2>1, <2>2
<1>9. CASE ~Ended /\ (OpenCheckpoint \/ OpenPart \/ SaveCheckpoint \/ Rename \/ DropCheckpoint)
  BY <1>4, <1>9
  DEF OpenCheckpoint, OpenPart, SaveCheckpoint, Rename, DropCheckpoint, OnDisk, Settled
<1>10. QED
  BY <1>2, <1>3, <1>8, <1>9 DEF ReceiverStep

(* The line: what it loses or corrupts it counts. *)
LEMMA LineRecovers ==
  ASSUME TypeOK, Recoverable, faults <= setting.budget,
         Asking \/ Delivering \/ Closing \/ Ended, FaultStep
  PROVE  faults' <= setting'.budget /\ (Asking' \/ Delivering' \/ Closing' \/ Ended')
<1>1. setting.kinds \subseteq {"lose", "corrupt"}
  BY DEF Recoverable
<1>2. ~GarbleReply /\ ~StorageFails /\ ~ReceiverCrash
  BY <1>1 DEF GarbleReply, StorageFails, ReceiverCrash, Fault
<1>3. LoseLine \/ DamageLine
  BY <1>2 DEF FaultStep
<1>4. /\ UNCHANGED <<phase, result, seq, attempt, timeouts, rPhase, expected, metaOk, setting>>
      /\ faults' = faults + 1 /\ faults < setting.budget
      /\ faults \in Nat /\ attempt \in Nat /\ setting.budget \in Nat
  <2>1. /\ UNCHANGED <<senderVars, receiverVars, setting>>
        /\ faults' = faults + 1 /\ faults < setting.budget
    BY <1>3 DEF LoseLine, DamageLine, LineOnly, Fault, world
  <2>2. faults \in Nat /\ attempt \in Nat /\ setting.budget \in Nat
    BY StopAndWaitAssumption DEF TypeOK, WorldTypeOK, SenderTypeOK, Setting
  <2>3. QED
    BY <2>1, <2>2 DEF senderVars, receiverVars
<1>5. faults' <= setting'.budget
  BY <1>4
<1>6. CASE Ended
  BY <1>4, <1>5, <1>6 DEF Ended
<1>7. CASE LoseLine /\ ~Ended
  <2>1. (\E m : Carries(m)) \/ (\E m : Returns(m)) \/ Lost
    BY <1>7 DEF Asking, Delivering, Closing, OnItsWay, SetBack
  <2>2. Lost'
    BY <1>7, <2>1, OneLine DEF LoseLine, TakeInput, Lost, Carries, Returns
  <2>3. Delivering => attempt' < faults'
    BY <1>4 DEF Delivering
  <2>4. Asking' \/ Delivering' \/ Closing'
    BY <1>4, <1>7, <2>2, <2>3 DEF Asking, Delivering, Closing, SetBack, Settled
  <2>5. QED
    BY <1>5, <2>4
<1>8. CASE DamageLine /\ ~Ended
  <2>1. Input.kind = "DATA" /\ Replaced(Line("BAD", Input.seq)) /\ toReceiver # <<>>
        /\ UNCHANGED toSender
    BY <1>1, <1>8 DEF DamageLine, Fault
  <2>2. Delivering /\ toReceiver = <<Line("DATA", seq)>> /\ toSender = <<>>
    <3>1. \E m : toReceiver = <<m>> /\ m.kind = "DATA"
      BY <1>8, <2>1, OneLine
      DEF Asking, Delivering, Closing, OnItsWay, SetBack, Lost, Carries, Returns, Input
    <3>2. QED
      BY <1>8, <3>1, OneLine, LineFields
      DEF Asking, Delivering, Closing, OnItsWay, SetBack, Lost, Carries, Returns
  <2>3. Carries(Line("BAD", seq))'
    BY <1>4, <2>1, <2>2, OneLine, LineFields DEF Replaced, Carries, Input
  <2>4. attempt' < faults'
    BY <1>4, <2>2 DEF Delivering
  <2>5. Delivering'
    BY <1>4, <2>2, <2>3, <2>4 DEF Delivering, SetBack
  <2>6. QED
    BY <1>5, <2>5
<1>9. QED
  BY <1>3, <1>6, <1>7, <1>8

(* A sender that waits for an ACK has just sent its block, and a line that  *)
(* is lost after that is the first one the receiver misses.                 *)
LEMMA MissingStays ==
  ASSUME TypeOK, Recoverable, OneMissing, Next
  PROVE  OneMissing'
<1>1. toReceiver \in Seq(ToReceiverLine)
  BY DEF TypeOK, LineTypeOK
<1>2. \A line : Send(line) => toReceiver' # <<>>
  BY <1>1 DEF Send
<1>3. CASE SenderStep
  <2>1. \A n : SendBlock(n) => toReceiver' # <<>>
    BY <1>2 DEF SendBlock
  <2>2. \A missed : SendAgain(missed) => phase' = "end" \/ toReceiver' # <<>>
    BY <1>2 DEF SendAgain, Fails, Ends
  <2>3. phase' # "ack" \/ toReceiver' # <<>>
    BY <1>3, <2>1, <2>2
    DEF SenderStep, RecvReady, GiveUp, RecvAck, RecvNak, AckTimeout, RecvUnexpectedReply,
        RecvFinal, Raises, Fails, Ends
  <2>4. QED
    BY <2>3 DEF OneMissing, Lost
<1>4. CASE ReceiverStep
  BY <1>4
  DEF ReceiverStep, OfReceiver, OnDisk, Read, RecvMeta, OpenCheckpoint, OpenPart, RecvAnswered,
      RecvBlock, SaveCheckpoint, RecvShortFrame, RecvDone, Rename, DropCheckpoint,
      RecvUnexpected, RecvTimeout, OneMissing
<1>5. CASE LoseLine
  <2>1. silence \in Nat /\ setting.inARow \in Nat
    BY StopAndWaitAssumption DEF TypeOK, WorldTypeOK, Setting
  <2>2. silence < setting.inARow /\ UNCHANGED silence
    BY <1>5 DEF LoseLine, LineOnly, Recoverable
  <2>3. silence' = 0
    BY <2>1, <2>2 DEF Recoverable
  <2>4. QED
    BY <2>3 DEF OneMissing
<1>6. CASE DamageLine
  <2>1. \A line : Replaced(line) => toReceiver' # <<>>
    BY <1>1, <1>6, ConcatProperties DEF DamageLine, Replaced
  <2>2. QED
    BY <1>6, <2>1 DEF DamageLine, OneMissing, Lost
<1>7. CASE GarbleReply \/ StorageFails \/ ReceiverCrash
  BY <1>7 DEF GarbleReply, StorageFails, ReceiverCrash, Fault, Recoverable
<1>8. CASE GetAgain
  BY <1>8 DEF GetAgain, Asked, OneMissing
<1>9. QED
  BY <1>3, <1>4, <1>5, <1>6, <1>7, <1>8 DEF Next, FaultStep

(* With prompt replies, for every file and every pair of limits, losing or  *)
(* corrupting as many lines as the retries allow, but no two in a row, never *)
(* makes _send_block give up or meet an answer it does not understand, nor  *)
(* _receive run into its 24 s between two blocks or answer DONE with FAIL.  *)
THEOREM FaultsAreRecovered == Spec => []LossIsRecovered
<1>1. Init => FileInv /\ NotYetReported /\ Recovering
  <2>1. SUFFICES ASSUME Init PROVE FileInv /\ NotYetReported /\ Recovering
    OBVIOUS
  <2>2. setting.budget \in Nat
    BY <2>1, StopAndWaitAssumption DEF Init, Setting
  <2>3. Asking /\ OneMissing /\ faults <= setting.budget
    BY <2>1, <2>2 DEF Init, Asking, OneMissing, Carries
  <2>4. QED
    BY <2>1, <2>3 DEF Init, FileInv, NotYetReported, Recovering, Unopened, Settled
<1>2. /\ TypeOK /\ NoGapInv /\ FileInv /\ NotYetReported /\ Recovering /\ [Next]_vars
      => FileInv' /\ NotYetReported' /\ Recovering'
  <2>1. SUFFICES ASSUME TypeOK, NoGapInv, FileInv, NotYetReported, Recovering, [Next]_vars
                 PROVE  FileInv' /\ NotYetReported' /\ Recovering'
    OBVIOUS
  <2>2. CASE UNCHANGED vars
    BY <2>1, <2>2
    DEF FileInv, NotYetReported, Begun, Recovering, Recoverable, Asking, Delivering, Closing,
        Ended, OnItsWay, SetBack, OneMissing, Lost, Carries, Returns, Settled, Unopened,
        vars, senderVars, receiverVars, disk, world
  <2>3. CASE SenderStep
    <3>1. UNCHANGED <<receiverVars, gets, setting, faults>> /\ NotYetReported'
      BY <2>1, <2>3, SenderReports
      DEF SenderStep, RecvReady, GiveUp, RecvAck, RecvNak, AckTimeout, RecvUnexpectedReply,
          RecvFinal, TakeReply, NoReply, OfSender, world
    <3>2. FileInv'
      BY <2>1, <3>1 DEF FileInv, Begun, receiverVars, disk
    <3>3. Recovering'
      BY <2>1, <2>3, <3>1, SenderRecovers, MissingStays DEF Recovering, Recoverable, Next
    <3>4. QED
      BY <3>1, <3>2, <3>3
  <2>4. CASE ReceiverStep
    <3>1. UNCHANGED <<setting, faults>>
      BY <2>4
      DEF ReceiverStep, OfReceiver, OnDisk, Read, RecvMeta, OpenCheckpoint, OpenPart,
          RecvAnswered, RecvBlock, SaveCheckpoint, RecvShortFrame, RecvDone, Rename,
          DropCheckpoint, RecvUnexpected, RecvTimeout, world
    <3>2. Recovering'
      BY <2>1, <2>4, <3>1, ReceiverRecovers, MissingStays DEF Recovering, Recoverable, Next
    <3>3. QED
      BY <2>1, <2>4, <3>2, FileInvStays, OthersLeaveSender DEF NotYetReported, senderVars
  <2>5. CASE FaultStep
    <3>1. UNCHANGED setting
      BY <2>5
      DEF FaultStep, LoseLine, DamageLine, GarbleReply, StorageFails, ReceiverCrash, Fault, world
    <3>2. Recovering'
      BY <2>1, <2>5, <3>1, LineRecovers, MissingStays DEF Recovering, Recoverable, Next
    <3>3. QED
      BY <2>1, <2>5, <3>2, FileInvStays, OthersLeaveSender DEF NotYetReported, senderVars
  <2>6. CASE GetAgain
    <3>1. UNCHANGED <<setting, faults>> /\ Asking'
      BY <2>6 DEF GetAgain, Asked, Asking, Carries
    <3>2. QED
      BY <2>1, <2>6, <3>1
      DEF GetAgain, Asked, FileInv, NotYetReported, OneMissing, Recovering, Recoverable, Settled
  <2>7. QED
    BY <2>1, <2>2, <2>3, <2>4, <2>5, <2>6 DEF Next
<1>3. NotYetReported /\ Recovering => LossIsRecovered
  BY DEF NotYetReported, Recovering, LossIsRecovered, Asking, Delivering, Closing, Ended
<1>4. QED
  BY <1>1, <1>2, <1>3, StopAndWaitTypes, StepHolds, PTL DEF Spec

=============================================================================
