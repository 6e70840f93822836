--------------------------- MODULE TransferProofs ---------------------------
(***************************************************************************)
(* Theorems about Transfer, for every file size, window, retry limit, set  *)
(* of faults and number of faults.                                         *)
(*                                                                         *)
(* The sender's actions are built from a few outcomes (Fail, Fill,         *)
(* StartBarrier, ...), so one lemma per outcome says that it keeps the     *)
(* sender's types and the type of the line to the receiver; each action    *)
(* then follows from the outcomes it can have.                             *)
(***************************************************************************)
EXTENDS Transfer, SequenceTheorems, TLAPS

SenderSide == SenderTypeOK /\ ToReceiverOK

-----------------------------------------------------------------------------
(* Sequences. *)

(* Adding to a channel, or reading its head, keeps its type. *)
LEMMA ChannelType ==
  ASSUME NEW S, NEW s \in Seq(S)
  PROVE  /\ \A e \in S : Append(s, e) \in Seq(S)
         /\ \A t \in Seq(S) : s \o t \in Seq(S)
         /\ s # <<>> => Head(s) \in S /\ Tail(s) \in Seq(S)
         /\ <<>> \in Seq(S)
  BY AppendProperties, ConcatProperties, HeadTailProperties, EmptySeq

(* A sequence that has elements is not empty. *)
LEMMA NonEmpty == ASSUME NEW s, Len(s) > 0 PROVE s # <<>>
  OBVIOUS

(* Replacing what reaches the far end keeps a channel's type. *)
LEMMA ReplaceHeadType ==
  ASSUME NEW S, NEW s \in Seq(S), s # <<>>, NEW e \in S
  PROVE  /\ <<e>> \in Seq(S)
         /\ <<e>> \o Tail(s) \in Seq(S)
         /\ <<e>> \o s \in Seq(S)
<1>1. Tail(s) \in Seq(S) /\ <<e>> \in Seq(S)
  BY ChannelType
<1>2. QED
  BY <1>1, ConcatProperties

(* The lines the two sides send are of the right type. *)
LEMMA SentLineType ==
  ASSUME NEW kind \in SenderKinds
  PROVE  /\ Word(kind) \in ToReceiverLine
         /\ \A tok \in Nat : Ask(kind, tok) \in ToReceiverLine
         /\ \A seq \in Seqs : About(kind, seq) \in ToReceiverLine
<1>1. 0 \in Seqs
  BY TransferAssumption DEF Seqs
<1>2. QED
  BY <1>1 DEF Line, Word, Ask, About, ToReceiverLine

(* The lines the receiver sends are of the right type. *)
LEMMA AnswerLineType ==
  ASSUME NEW kind \in ReceiverKinds
  PROVE  /\ Word(kind) \in ToSenderLine
         /\ \A tok \in Nat : Ask(kind, tok) \in ToSenderLine
         /\ \A seq \in Nat : About(kind, seq) \in ToSenderLine
         /\ \A tok \in Nat, seq \in Nat : Line(kind, tok, seq) \in ToSenderLine
  BY DEF Line, Word, Ask, About, ToSenderLine

(* The questions that carry the current or the next token. *)
LEMMA AskType ==
  ASSUME token \in Nat, NEW kind \in {"AYT", "RST", "BARRIER"}
  PROVE  /\ token + 1 \in Nat
         /\ Ask(kind, token) \in ToReceiverLine
         /\ Ask(kind, token + 1) \in ToReceiverLine
<1>1. kind \in SenderKinds
  BY DEF SenderKinds
<1>2. token + 1 \in Nat
  OBVIOUS
<1>3. QED
  BY <1>1, <1>2, SentLineType

(* Sending a line keeps the type of the line to the receiver. *)
LEMMA SendType ==
  ASSUME ToReceiverOK, NEW line \in ToReceiverLine, Send(line)
  PROVE  ToReceiverOK'
  BY ChannelType DEF ToReceiverOK, Send

-----------------------------------------------------------------------------
(* The outcomes of a sender action. *)

(* A send_file that ends with ERR. *)
LEMMA AbortType ==
  ASSUME SenderSide, NEW why \in Results, NEW confirmed \in Nat, Abort(why, confirmed)
  PROVE  SenderSide'
<1>1. Word("ERR") \in ToReceiverLine
  BY SentLineType DEF SenderKinds
<1>2. ToReceiverOK'
  BY <1>1, SendType DEF SenderSide, Abort
<1>3. QED
  BY <1>2 DEF SenderSide, SenderTypeOK, Abort, windowVars, Phases

(* The same, with the reset token as it was. *)
LEMMA FailType ==
  ASSUME SenderSide, NEW why \in Results, Fail(why)
  PROVE  SenderSide'
  BY AbortType DEF Fail, SenderSide, SenderTypeOK

(* A reply that is dropped. *)
LEMMA KeepWaitingType ==
  ASSUME SenderSide, KeepWaiting
  PROVE  SenderSide'
  BY DEF SenderSide, SenderTypeOK, ToReceiverOK, KeepWaiting, askVars, windowVars

(* The first BARRIER of a recovery. *)
LEMMA StartBarrierType ==
  ASSUME ToReceiverOK, token \in Nat, NEW after, NEW confirmed, StartBarrier(after, confirmed)
  PROVE  token' \in Nat /\ tries' \in Nat /\ ToReceiverOK'
<1>1. Ask("BARRIER", token + 1) \in ToReceiverLine
  BY AskType
<1>2. QED
  BY <1>1, SendType DEF StartBarrier

(* A full-file reset, or the last one refused. *)
LEMMA RestartFileType ==
  ASSUME SenderSide, NEW confirmed \in Nat, RestartFile(confirmed)
  PROVE  SenderSide'
<1>1. CASE ResetsExhausted
  BY <1>1, AbortType DEF RestartFile, FromTheStart, Results
<1>2. CASE ~ResetsExhausted
  <2>1. token' \in Nat /\ tries' \in Nat /\ ToReceiverOK'
    BY <1>2, StartBarrierType DEF RestartFile, FromTheStart, SenderSide, SenderTypeOK
  <2>2. QED
    BY <1>2, <2>1, TransferAssumption
    DEF RestartFile, FromTheStart, ResetsExhausted, StartBarrier, SenderSide, SenderTypeOK, Phases
<1>3. QED
  BY <1>1, <1>2

(* A recovery after NAK, DROP or HERE. *)
LEMMA RecoverFlightType ==
  ASSUME SenderSide, RecoverFlight
  PROVE  SenderSide'
<1>1. token' \in Nat /\ tries' \in Nat /\ ToReceiverOK'
  BY StartBarrierType DEF RecoverFlight, SenderSide, SenderTypeOK
<1>2. QED
  BY <1>1, TransferAssumption
  DEF RecoverFlight, WindowAfterLoss, StartBarrier, SenderSide, SenderTypeOK, Phases

(* The filling loop stops inside the window, and what it sends are blocks. *)
LEMMA FillEndType ==
  ASSUME NEW n \in 0 .. Blocks, NEW edge \in 0 .. Blocks, n < edge
  PROVE  FillEnd(n, edge) \in n .. edge
  BY DEF FillEnd, FirstExhausted

(* A flight is a sequence of DATA frames. *)
LEMMA FlightType ==
  ASSUME NEW n \in 0 .. Blocks, NEW end \in 0 .. Blocks, n <= end
  PROVE  Flight(n, end) \in Seq(ToReceiverLine)
<1>1. end - n \in Nat
  OBVIOUS
<1>2. \A i \in 1 .. end - n : About("DATA", n + i - 1) \in ToReceiverLine
  BY SentLineType, TransferAssumption DEF SenderKinds, Frames, Seqs
<1>3. QED
  BY <1>1, <1>2 DEF Flight

(* The filling loop: it stays in the file, and sends blocks of it. *)
LEMMA FillType ==
  ASSUME SenderSide, NEW b \in 0 .. Blocks, NEW n \in 0 .. Blocks, NEW w \in Nat \ {0},
         Fill(b, n, w)
  PROVE  /\ ToReceiverOK'
         /\ phase' \in Phases /\ result' \in Results
         /\ base' \in 0 .. Blocks /\ nextSeq' \in 0 .. Blocks /\ cwnd' \in Nat \ {0}
         /\ attempts' \in [Seqs -> Nat]
<1> DEFINE edge == Minimum(Blocks, b + w)
           end  == IF n < edge THEN FillEnd(n, edge) ELSE n
<1>1. edge \in 0 .. Blocks
  BY TransferAssumption DEF Minimum
<1>2. end \in 0 .. Blocks /\ n <= end
  BY <1>1, FillEndType, TransferAssumption DEF SenderSide
<1>3. Flight(n, end) \in Seq(ToReceiverLine)
  BY <1>2, FlightType
<1>4. Word("ERR") \in ToReceiverLine /\ Word("DONE") \in ToReceiverLine
  BY SentLineType DEF SenderKinds
<1>5. /\ base' = b /\ nextSeq' = end /\ cwnd' = w
      /\ attempts' = Counted(b, n, end)
      /\ \/ phase' = "done" /\ Send(Word("DONE")) /\ UNCHANGED result
         \/ /\ phase' = "end" /\ result' = "retry"
            /\ toReceiver' = toReceiver \o Flight(n, end) \o <<Word("ERR")>>
         \/ /\ phase' = "ack" /\ UNCHANGED result
            /\ toReceiver' = toReceiver \o Flight(n, end)
  BY DEF Fill
<1>6. Counted(b, n, end) \in [Seqs -> Nat]
  BY DEF Counted, SenderSide, SenderTypeOK
<1>7. toReceiver \o Flight(n, end) \in Seq(ToReceiverLine)
  BY <1>3, ChannelType DEF SenderSide, ToReceiverOK
<1>8. (toReceiver \o Flight(n, end)) \o <<Word("ERR")>> \in Seq(ToReceiverLine)
  <2>1. <<Word("ERR")>> \in Seq(ToReceiverLine)
    BY <1>4
  <2>2. QED
    BY <1>7, <2>1, ChannelType
<1>9. Append(toReceiver, Word("DONE")) \in Seq(ToReceiverLine)
  BY <1>4, ChannelType DEF SenderSide, ToReceiverOK
<1>10. ToReceiverOK'
  BY <1>5, <1>7, <1>8, <1>9 DEF ToReceiverOK, Send
<1>11. QED
  BY <1>2, <1>5, <1>6, <1>10 DEF Phases, Results, SenderSide, SenderTypeOK

(* An ACK of a block that was sent. *)
LEMMA AcknowledgeType ==
  ASSUME SenderSide, NEW ack \in base .. nextSeq - 1, Acknowledge(ack)
  PROVE  SenderSide'
<1> DEFINE w == IF cleanAcks + 1 >= FlowGrowAcks THEN WindowSize ELSE cwnd
<1>1. ack + 1 \in 0 .. Blocks /\ nextSeq \in 0 .. Blocks /\ w \in Nat \ {0}
  BY TransferAssumption DEF SenderSide, SenderTypeOK
<1>2. Fill(ack + 1, nextSeq, w)
  BY DEF Acknowledge
<1>3. cleanAcks' \in 0 .. FlowGrowAcks /\ recoveries' \in 0 .. MaxRetries
  BY TransferAssumption DEF Acknowledge, Minimum, SenderSide, SenderTypeOK
<1>4. QED
  BY <1>1, <1>2, <1>3, FillType
  DEF Acknowledge, SenderSide, SenderTypeOK, askVars

(* Every branch of the reply's interpretation. *)
LEMMA InterpretType ==
  ASSUME SenderSide, NEW m \in ToSenderLine, NEW late, Interpret(m, late)
  PROVE  SenderSide'
  BY FailType, KeepWaitingType, AcknowledgeType, RestartFileType, RecoverFlightType
  DEF Interpret, Results, SenderSide, SenderTypeOK

(* The guard wait before a probe. *)
LEMMA EnterGuardType ==
  ASSUME SenderSide, NEW wait \in {"guard", "reguard"}, EnterGuard(wait),
         cwnd' \in Nat \ {0}, cleanAcks' \in 0 .. FlowGrowAcks
  PROVE  SenderSide'
  BY DEF EnterGuard, SenderSide, SenderTypeOK, ToReceiverOK, Phases, askVars

-----------------------------------------------------------------------------
(* The steps. *)

(* Every action of the sender keeps its types and reads a typed reply. *)
LEMMA SenderStepType ==
  ASSUME TypeOK, SenderStep
  PROVE  TypeOK'
<1>1. SenderSide /\ ToSenderOK
  BY DEF TypeOK, SenderSide
<1>2. UNCHANGED <<receiverVars, setting, faults>> /\ ToSenderOK'
  <2>1. (TakeReply \/ NoReply) => UNCHANGED <<receiverVars, setting, faults>> /\ ToSenderOK'
    BY <1>1, ChannelType DEF TakeReply, NoReply, OfSender, ToSenderOK
  <2>2. TakeReply \/ NoReply
    BY DEF SenderStep, RecvReady, GiveUp, RecvWindowReply, AckTimeout, RecvInGuard,
           GuardTimeout, RecvProbeReply, ProbeTimeout, ConfirmReset, RecvOtherResetReply,
           ResetTimeout, ResumeFlight, ResumeFromZero, RecvOtherBarrierReply,
           BarrierTimeout, RecvFinal
  <2>3. QED
    BY <2>1, <2>2
<1>3. TakeReply => Reply \in ToSenderLine
  BY <1>1, ChannelType DEF TakeReply, Reply, ToSenderOK
<1>4. SenderSide'
  <2>1. CASE RecvReady
    <3>1. CASE Fill(0, 0, 1) /\ UNCHANGED <<askVars, cleanAcks, recoveries, resets>>
      BY <1>1, <3>1, FillType, TransferAssumption DEF SenderSide, SenderTypeOK, askVars
    <3>2. CASE phase' = "end" /\ result' = "declined" /\ UNCHANGED <<askVars, windowVars, toReceiver>>
      BY <1>1, <3>2 DEF SenderSide, SenderTypeOK, ToReceiverOK, askVars, windowVars, Phases, Results
    <3>3. QED
      BY <2>1, <3>1, <3>2 DEF RecvReady
  <2>2. CASE GiveUp
    BY <1>1, <2>2 DEF GiveUp, SenderSide, SenderTypeOK, ToReceiverOK, askVars, windowVars,
                      Phases, Results
  <2>3. CASE RecvWindowReply
    BY <1>1, <1>3, <2>3, KeepWaitingType, EnterGuardType, InterpretType
    DEF RecvWindowReply, SenderSide, SenderTypeOK
  <2>4. CASE AckTimeout
    BY <1>1, <2>4, EnterGuardType, TransferAssumption DEF AckTimeout
  <2>5. CASE RecvInGuard
    BY <1>1, <1>3, <2>5, EnterGuardType, InterpretType
    DEF RecvInGuard, SenderSide, SenderTypeOK
  <2>6. CASE GuardTimeout
    <3>1. token + 1 \in Nat /\ Ask("AYT", token + 1) \in ToReceiverLine
      BY <1>1, AskType DEF SenderSide, SenderTypeOK
    <3>2. ToReceiverOK'
      BY <1>1, <2>6, <3>1, SendType DEF GuardTimeout, SenderSide
    <3>3. QED
      BY <1>1, <2>6, <3>1, <3>2 DEF GuardTimeout, SenderSide, SenderTypeOK, windowVars, Phases
  <2>7. CASE RecvProbeReply
    BY <1>1, <1>3, <2>7, RecoverFlightType, InterpretType, KeepWaitingType DEF RecvProbeReply
  <2>8. CASE ProbeTimeout
    <3>1. /\ token + 1 \in Nat
          /\ Ask("AYT", token + 1) \in ToReceiverLine /\ Ask("RST", token + 1) \in ToReceiverLine
      BY <1>1, AskType DEF SenderSide, SenderTypeOK
    <3>2. ToReceiverOK'
      BY <1>1, <2>8, <3>1, SendType DEF ProbeTimeout, SenderSide
    <3>3. QED
      BY <1>1, <2>8, <3>1, <3>2 DEF ProbeTimeout, SenderSide, SenderTypeOK, windowVars, Phases
  <2>9. CASE ConfirmReset
    BY <1>1, <2>9, RestartFileType DEF ConfirmReset, SenderSide, SenderTypeOK
  <2>10. CASE RecvOtherResetReply
    BY <1>1, <2>10, KeepWaitingType, FailType DEF RecvOtherResetReply, Results
  <2>11. CASE ResetTimeout
    <3>1. Ask("RST", token) \in ToReceiverLine
      BY <1>1, AskType DEF SenderSide, SenderTypeOK
    <3>2. CASE tries >= RstRetries /\ Fail("lost")
      BY <1>1, <3>2, FailType DEF Results
    <3>3. CASE /\ tries' = tries + 1 /\ Send(Ask("RST", token))
               /\ UNCHANGED <<phase, result, token, resetToken, windowVars>>
      <4>1. ToReceiverOK'
        BY <1>1, <3>1, <3>3, SendType DEF SenderSide
      <4>2. QED
        BY <1>1, <3>3, <4>1 DEF SenderSide, SenderTypeOK, windowVars
    <3>4. QED
      BY <2>11, <3>2, <3>3 DEF ResetTimeout
  <2>12. CASE ResumeFlight
    <3> DEFINE n == Reply.seq
               stuck == IF n > base THEN 0 ELSE recoveries + 1
    <3>1. n \in Nat /\ stuck \in Nat
      BY <1>1, <1>3, <2>12 DEF ResumeFlight, ToSenderLine, SenderSide, SenderTypeOK
    <3>2. CASE Fail("protocol") \/ Fail("retry")
      BY <1>1, <3>2, FailType DEF Results
    <3>3. CASE /\ n \in base .. nextSeq /\ stuck <= MaxRetries
               /\ recoveries' = stuck
               /\ Fill(n, n, cwnd)
               /\ UNCHANGED <<askVars, cleanAcks, resets>>
      <4>1. n \in 0 .. Blocks /\ cwnd \in Nat \ {0}
        BY <1>1, <3>1, <3>3, TransferAssumption DEF SenderSide, SenderTypeOK
      <4>2. QED
        BY <1>1, <3>1, <3>3, <4>1, FillType, TransferAssumption
        DEF SenderSide, SenderTypeOK, askVars
    <3>4. QED
      BY <2>12, <3>2, <3>3 DEF ResumeFlight
  <2>13. CASE ResumeFromZero
    <3>1. 0 \in Seqs /\ About("DATA", 0) \in ToReceiverLine
      BY SentLineType, TransferAssumption DEF SenderKinds, Frames, Seqs
    <3>2. CASE Fail("protocol")
      BY <1>1, <3>2, FailType DEF Results
    <3>3. CASE Reply.seq = 0
      <4>1. ToReceiverOK'
        BY <1>1, <2>13, <3>1, <3>3, SendType DEF ResumeFromZero, SenderSide
      <4>2. attempts' \in [Seqs -> Nat]
        BY <2>13, <3>3 DEF ResumeFromZero, NoTries
      <4>3. QED
        BY <1>1, <2>13, <3>3, <4>1, <4>2, TransferAssumption
        DEF ResumeFromZero, SenderSide, SenderTypeOK, askVars, Phases
    <3>4. QED
      BY <2>13, <3>2, <3>3 DEF ResumeFromZero
  <2>14. CASE RecvOtherBarrierReply
    BY <1>1, <2>14, KeepWaitingType, FailType DEF RecvOtherBarrierReply, Results
  <2>15. CASE BarrierTimeout
    <3>1. Ask("BARRIER", token) \in ToReceiverLine
      BY <1>1, AskType DEF SenderSide, SenderTypeOK
    <3>2. CASE tries > MaxRetries /\ Fail("stalled")
      BY <1>1, <3>2, FailType DEF Results
    <3>3. CASE /\ tries' = tries + 1 /\ Send(Ask("BARRIER", token))
               /\ UNCHANGED <<phase, result, token, resetToken, windowVars>>
      <4>1. ToReceiverOK'
        BY <1>1, <3>1, <3>3, SendType DEF SenderSide
      <4>2. QED
        BY <1>1, <3>3, <4>1 DEF SenderSide, SenderTypeOK, windowVars
    <3>4. QED
      BY <2>15, <3>2, <3>3 DEF BarrierTimeout
  <2>16. CASE RecvFinal
    BY <1>1, <2>16, KeepWaitingType
    DEF RecvFinal, SenderSide, SenderTypeOK, ToReceiverOK, askVars, windowVars, Phases, Results
  <2>17. QED
    BY <2>1, <2>2, <2>3, <2>4, <2>5, <2>6, <2>7, <2>8, <2>9, <2>10, <2>11, <2>12, <2>13,
       <2>14, <2>15, <2>16 DEF SenderStep
<1>5. QED
  BY <1>2, <1>4 DEF TypeOK, SenderSide, ReceiverTypeOK, receiverVars

(* Answering keeps the type of the line to the sender. *)
LEMMA AnswerType ==
  ASSUME ToSenderOK, NEW line \in ToSenderLine, Answer(line)
  PROVE  ToSenderOK'
  BY ChannelType DEF ToSenderOK, Answer

(* Every action of the receiver keeps its types and answers with typed lines. *)
LEMMA ReceiverStepType ==
  ASSUME TypeOK, ReceiverStep
  PROVE  TypeOK'
<1> USE DEF ReceiverKinds
<1>1. /\ ReceiverTypeOK /\ ToReceiverOK /\ ToSenderOK
      /\ Blocks \in Nat \ {0} /\ expected \in Nat
  BY TransferAssumption DEF TypeOK, ReceiverTypeOK
<1>2. SenderTypeOK' /\ faults' \in Nat /\ setting' \in Settings
  <2>1. UNCHANGED <<senderVars, setting, faults>>
    BY DEF ReceiverStep, OfReceiver, RecvMeta, RecvAnswered, RecvGap, RecvBlock,
           RecvShortFrame, RecvReset, RecvDone, Install, RecvUnexpected, RecvTimeout, Read
  <2>2. QED
    BY <2>1 DEF TypeOK, SenderTypeOK, senderVars, askVars, windowVars
<1>3. TakeInput => Input \in ToReceiverLine /\ ToReceiverOK'
  BY <1>1, ChannelType DEF TakeInput, Input, ToReceiverOK
<1>4. Word("ERR") \in ToSenderLine /\ Word("READY") \in ToSenderLine
      /\ Word("RST") \in ToSenderLine /\ Word("OK") \in ToSenderLine
      /\ Word("FAIL") \in ToSenderLine
  BY AnswerLineType
<1>5. /\ About("NAK", expected) \in ToSenderLine /\ About("DROP", expected) \in ToSenderLine
      /\ About("ACK", expected) \in ToSenderLine
  BY <1>1, AnswerLineType
<1>6. Raise => ReceiverTypeOK'
  BY <1>1 DEF Raise, ReceiverTypeOK, RPhases
<1>7. CASE RecvMeta
  BY <1>1, <1>2, <1>3, <1>4, <1>6, <1>7, AnswerType
  DEF RecvMeta, TypeOK, ReceiverTypeOK, RPhases, ToSenderOK
<1>8. CASE RecvAnswered
  <2>1. Input.tok \in Nat /\ ToReceiverOK' /\ ReceiverTypeOK'
    BY <1>1, <1>3, <1>8 DEF RecvAnswered, Read, ToReceiverLine, ReceiverTypeOK, receiverVars
  <2>2. CASE Input.kind = "DATA" /\ Input.seq < expected /\ Answer(About("ACK", expected - 1))
    <3>1. expected - 1 \in Nat
      BY <1>1, <1>3, <1>8, <2>2 DEF RecvAnswered, Read, ToReceiverLine, Seqs
    <3>2. QED
      BY <1>1, <1>2, <2>1, <2>2, <3>1, AnswerLineType, AnswerType DEF TypeOK
  <2>3. CASE Answer(About("NAK", expected))
    BY <1>1, <1>2, <1>5, <2>1, <2>3, AnswerType DEF TypeOK
  <2>4. CASE Answer(Line("HERE", Input.tok, expected)) \/ Answer(Line("RESUME", Input.tok, expected))
    BY <1>1, <1>2, <2>1, <2>4, AnswerLineType, AnswerType DEF TypeOK
  <2>5. QED
    BY <1>8, <2>2, <2>3, <2>4 DEF RecvAnswered
<1>9. CASE RecvGap
  <2>1. ToReceiverOK' /\ ToSenderOK'
    BY <1>1, <1>3, <1>4, <1>5, <1>9, AnswerType DEF RecvGap, Read
  <2>2. ReceiverTypeOK'
    <3>1. /\ drops + 1 \in Nat /\ rResets + 1 \in Nat
          /\ <<>> \in Seq(Seqs) /\ 0 \in 0 .. Blocks
      BY <1>1, ChannelType DEF ReceiverTypeOK
    <3>2. CASE Raise
      BY <1>6, <3>2
    <3>3. CASE drops' = drops + 1 /\ UNCHANGED <<rPhase, expected, part, rResets, metaOk>>
      BY <1>1, <3>1, <3>3 DEF ReceiverTypeOK
    <3>4. CASE rResets' = rResets + 1 /\ StartOver /\ UNCHANGED <<rPhase, metaOk>>
      BY <1>1, <3>1, <3>4 DEF ReceiverTypeOK, StartOver
    <3>5. QED
      BY <1>9, <3>2, <3>3, <3>4 DEF RecvGap
  <2>3. QED
    BY <1>2, <2>1, <2>2 DEF TypeOK
<1>10. CASE RecvBlock
  <2>1. expected \in Seqs
    BY <1>3, <1>10 DEF RecvBlock, Read, ToReceiverLine
  <2>2. ReceiverTypeOK'
    BY <1>1, <1>10, <2>1, ChannelType DEF RecvBlock, ReceiverTypeOK, Seqs
  <2>3. ToReceiverOK' /\ ToSenderOK'
    BY <1>1, <1>3, <1>5, <1>10, AnswerType DEF RecvBlock, Read
  <2>4. QED
    BY <1>2, <2>2, <2>3 DEF TypeOK
<1>11. CASE RecvShortFrame
  <2>1. Input \in ToReceiverLine /\ Word("JUNK") \in ToReceiverLine
    BY <1>1, <1>11, ChannelType, SentLineType
    DEF RecvShortFrame, Input, ToReceiverOK, SenderKinds
  <2>2. /\ <<Input>> \in Seq(ToReceiverLine) /\ <<Word("JUNK")>> \in Seq(ToReceiverLine)
        /\ <<>> \in Seq(ToReceiverLine)
    BY <2>1
  <2>3. Len(toReceiver) > 1 => Tail(Tail(toReceiver)) \in Seq(ToReceiverLine)
    <3>1. SUFFICES ASSUME Len(toReceiver) > 1
                   PROVE  Tail(Tail(toReceiver)) \in Seq(ToReceiverLine)
      OBVIOUS
    <3>2. toReceiver # <<>>
      BY <1>11 DEF RecvShortFrame
    <3>3. Len(Tail(toReceiver)) = Len(toReceiver) - 1 /\ Len(toReceiver) \in Nat
      BY <1>1, <3>2, HeadTailProperties, LenProperties DEF ToReceiverOK
    <3>4. Tail(toReceiver) # <<>>
      <4>1. Len(Tail(toReceiver)) > 0
        BY <3>1, <3>3
      <4>2. QED
        BY <4>1, NonEmpty
    <3>5. QED
      BY <1>1, <3>2, <3>4, ChannelType DEF ToReceiverOK
  <2>4. ToReceiverOK'
    BY <1>11, <2>2, <2>3, ChannelType DEF RecvShortFrame, ToReceiverOK
  <2>5. ToSenderOK' /\ ReceiverTypeOK'
    BY <1>1, <1>5, <1>11, AnswerType
    DEF RecvShortFrame, ReceiverTypeOK, receiverVars, ToSenderOK
  <2>6. QED
    BY <1>2, <2>4, <2>5 DEF TypeOK
<1>12. CASE RecvReset
  <2>1. Ask("RSTACK", Input.tok) \in ToSenderLine /\ ToReceiverOK'
    BY <1>3, <1>12, AnswerLineType DEF RecvReset, Read, ToReceiverLine
  <2>2. ReceiverTypeOK' /\ ToSenderOK'
    BY <1>1, <1>12, <2>1, ChannelType, AnswerType DEF RecvReset, StartOver, ReceiverTypeOK
  <2>3. QED
    BY <1>2, <2>1, <2>2 DEF TypeOK
<1>13. CASE RecvDone
  <2>1. ToReceiverOK' /\ ToSenderOK'
    BY <1>1, <1>3, <1>4, <1>13, AnswerType DEF RecvDone, Read, ToSenderOK
  <2>2. ReceiverTypeOK'
    BY <1>1, <1>6, <1>13 DEF RecvDone, ReceiverTypeOK, RPhases
  <2>3. QED
    BY <1>2, <2>1, <2>2 DEF TypeOK
<1>14. CASE Install
  BY <1>1, <1>2, <1>14 DEF Install, TypeOK, ReceiverTypeOK, RPhases, ToReceiverOK, ToSenderOK
<1>15. CASE RecvUnexpected
  BY <1>1, <1>2, <1>3, <1>4, <1>6, <1>15, AnswerType DEF RecvUnexpected, Read, TypeOK, ToSenderOK
<1>16. CASE RecvTimeout
  BY <1>1, <1>2, <1>6, <1>16 DEF RecvTimeout, TypeOK, ToReceiverOK, ToSenderOK
<1>17. QED
  BY <1>7, <1>8, <1>9, <1>10, <1>11, <1>12, <1>13, <1>14, <1>15, <1>16 DEF ReceiverStep

(* A fault leaves typed lines on the channels. *)
LEMMA FaultStepType ==
  ASSUME TypeOK, FaultStep
  PROVE  TypeOK'
<1>1. /\ ReceiverTypeOK /\ ToReceiverOK /\ ToSenderOK
      /\ toReceiver \in Seq(ToReceiverLine) /\ toSender \in Seq(ToSenderLine)
  BY DEF TypeOK, ToReceiverOK, ToSenderOK
<1>2. SenderTypeOK' /\ faults' \in Nat /\ setting' \in Settings
  <2>1. UNCHANGED <<senderVars, setting>> /\ faults' = faults + 1
    BY DEF FaultStep, LoseLine, DuplicateLine, DamageFrame, GarbleLine, StorageFails,
           ReceiverCrash, LineOnly, Fault
  <2>2. QED
    BY <2>1 DEF TypeOK, SenderTypeOK, senderVars, askVars, windowVars
<1>3. LineOnly => ReceiverTypeOK'
  BY <1>1 DEF LineOnly, ReceiverTypeOK, receiverVars
<1>4. Raise => ReceiverTypeOK'
  BY <1>1 DEF Raise, ReceiverTypeOK, RPhases
<1>5. \A kind \in SenderKinds : Word(kind) \in ToReceiverLine
  BY SentLineType
<1>6. Word("JUNK") \in ToSenderLine /\ Word("ERR") \in ToSenderLine
  BY AnswerLineType DEF ReceiverKinds
<1>7. TakeInput => ToReceiverOK'
  BY <1>1, ChannelType DEF TakeInput, ToReceiverOK
<1>8. CASE LoseLine
  BY <1>1, <1>2, <1>3, <1>8, ChannelType DEF LoseLine, TypeOK, ToReceiverOK, ToSenderOK
<1>9. CASE DuplicateLine
  BY <1>1, <1>2, <1>3, <1>9, ChannelType, ReplaceHeadType
  DEF DuplicateLine, Input, Reply, TypeOK, ToReceiverOK, ToSenderOK
<1>10. CASE DamageFrame
  <2>1. toReceiver # <<>> /\ Input.seq \in Seqs
    <3>1. toReceiver # <<>>
      BY <1>10 DEF DamageFrame
    <3>2. Input \in ToReceiverLine
      BY <1>1, <3>1, ChannelType DEF Input
    <3>3. QED
      BY <3>1, <3>2 DEF ToReceiverLine
  <2>2. About("BAD", Input.seq) \in ToReceiverLine /\ About("SHORT", Input.seq) \in ToReceiverLine
    BY <2>1, SentLineType DEF SenderKinds, Frames
  <2>3. /\ <<About("BAD", Input.seq)>> \o Tail(toReceiver) \in Seq(ToReceiverLine)
        /\ <<About("SHORT", Input.seq)>> \o Tail(toReceiver) \in Seq(ToReceiverLine)
    BY <1>1, <2>1, <2>2, ReplaceHeadType
  <2>4. ToReceiverOK' /\ UNCHANGED toSender
    BY <1>10, <2>3 DEF DamageFrame, ToReceiverOK
  <2>5. QED
    BY <1>1, <1>2, <1>3, <1>10, <2>4 DEF DamageFrame, TypeOK, ToSenderOK
<1>11. CASE GarbleLine
  <2>1. ToReceiverOK'
    BY <1>1, <1>5, <1>11, ReplaceHeadType DEF GarbleLine, ToReceiverOK, SenderKinds
  <2>2. ToSenderOK'
    BY <1>1, <1>6, <1>11, ReplaceHeadType DEF GarbleLine, ToSenderOK
  <2>3. QED
    BY <1>2, <1>3, <1>11, <2>1, <2>2 DEF GarbleLine, TypeOK
<1>12. CASE StorageFails
  BY <1>1, <1>2, <1>4, <1>6, <1>7, <1>12, AnswerType
  DEF StorageFails, TypeOK, ToReceiverOK, ToSenderOK
<1>13. CASE ReceiverCrash
  BY <1>1, <1>2, <1>4, <1>13 DEF ReceiverCrash, TypeOK, ToReceiverOK, ToSenderOK
<1>14. QED
  BY <1>8, <1>9, <1>10, <1>11, <1>12, <1>13 DEF FaultStep

(* What send_file and _receive start with has its type. *)
LEMMA InitType == Init => TypeOK
<1>1. SUFFICES ASSUME Init PROVE TypeOK
  OBVIOUS
<1>2. attempts \in [Seqs -> Nat]
  BY <1>1 DEF Init, NoTries
<1>3. SenderTypeOK
  <2>1. base \in 0 .. Blocks /\ nextSeq \in 0 .. Blocks
    BY <1>1, TransferAssumption DEF Init
  <2>2. cleanAcks \in 0 .. FlowGrowAcks /\ recoveries \in 0 .. MaxRetries
        /\ resets \in 0 .. MaxResets
    BY <1>1, TransferAssumption DEF Init
  <2>3. QED
    BY <1>1, <1>2, <2>1, <2>2 DEF Init, SenderTypeOK, Phases, Results
<1>4. ReceiverTypeOK
  <2>1. rPhase \in RPhases /\ part \in Seq(Seqs)
    BY <1>1, EmptySeq DEF Init, RPhases
  <2>2. expected \in 0 .. Blocks
    BY <1>1, TransferAssumption DEF Init
  <2>3. drops \in Nat /\ rResets \in Nat /\ metaOk \in BOOLEAN
    BY <1>1 DEF Init
  <2>4. QED
    BY <2>1, <2>2, <2>3 DEF ReceiverTypeOK
<1>5. ToReceiverOK
  BY <1>1, SentLineType DEF Init, ToReceiverOK, SenderKinds
<1>6. ToSenderOK
  BY <1>1, EmptySeq DEF Init, ToSenderOK
<1>7. QED
  BY <1>1, <1>3, <1>4, <1>5, <1>6 DEF Init, TypeOK

(* The variables have their types and the retry counters their limits,     *)
(* whatever _send_window, _probe_receiver, _recover_window, _receive and   *)
(* the line do.                                                            *)
THEOREM TypeCorrect == Spec => []TypeOK
<1>1. Init => TypeOK
  BY InitType
<1>2. TypeOK /\ [Next]_vars => TypeOK'
  <2>1. TypeOK /\ UNCHANGED vars => TypeOK'
    BY DEF vars, senderVars, askVars, windowVars, receiverVars, TypeOK, SenderTypeOK,
           ReceiverTypeOK, ToReceiverOK, ToSenderOK
  <2>2. QED
    BY <2>1, SenderStepType, ReceiverStepType, FaultStepType DEF Next
<1>3. QED
  BY <1>1, <1>2, PTL DEF Spec

-----------------------------------------------------------------------------
(* The final verdict.  VerifiedMeansReceived is not inductive: it does not  *)
(* say that an OK on its way to the sender was earned.  VerdictInv does: as *)
(* long as the receiver has not verified the whole file, no OK is on the    *)
(* line and the sender has not reported success.  Once it has, it handles   *)
(* no more lines of this file, so that stays.                               *)

WholeFileHere == metaOk /\ part = WholeFile /\ ~Reading
NotOk         == {m \in ToSenderLine : m.kind # "OK"}
VerdictInv    == ~WholeFileHere => result # "verified" /\ toSender \in Seq(NotOk)

(* Only an OK read from the line makes the sender report success. *)
LEMMA VerifiedByOk ==
  ASSUME SenderStep, result # "verified", result' = "verified"
  PROVE  TakeReply /\ Reply.kind = "OK"
<1>1. \A why, confirmed : Abort(why, confirmed) => result' = why
  BY DEF Abort
<1>2. \A b, n, w : ~Fill(b, n, w)
  BY DEF Fill
<1>3. ~KeepWaiting /\ ~RecoverFlight /\ \A wait : ~EnterGuard(wait)
  BY DEF KeepWaiting, RecoverFlight, StartBarrier, EnterGuard
<1>4. \A confirmed : ~RestartFile(confirmed)
  BY <1>1 DEF RestartFile, FromTheStart, StartBarrier
<1>5. \A why \in {"timeout", "retry", "protocol", "stalled", "lost"} : ~Fail(why)
  BY <1>1 DEF Fail
<1>6. \A m, late : ~Interpret(m, late)
  BY <1>2, <1>3, <1>4, <1>5 DEF Interpret, Acknowledge
<1>7. CASE RecvFinal
  BY <1>3, <1>7 DEF RecvFinal
<1>8. ~RecvReady /\ ~GiveUp /\ ~AckTimeout /\ ~GuardTimeout /\ ~ProbeTimeout
  BY <1>2, <1>3 DEF RecvReady, GiveUp, AckTimeout, GuardTimeout, ProbeTimeout
<1>9. ~RecvWindowReply /\ ~RecvInGuard /\ ~RecvProbeReply
  BY <1>3, <1>6 DEF RecvWindowReply, RecvInGuard, RecvProbeReply
<1>10. ~ConfirmReset /\ ~RecvOtherResetReply /\ ~ResetTimeout
  BY <1>3, <1>4, <1>5 DEF ConfirmReset, RecvOtherResetReply, ResetTimeout
<1>11. ~ResumeFlight /\ ~ResumeFromZero /\ ~RecvOtherBarrierReply /\ ~BarrierTimeout
  BY <1>2, <1>3, <1>5 DEF ResumeFlight, ResumeFromZero, RecvOtherBarrierReply, BarrierTimeout
<1>12. QED
  BY <1>7, <1>8, <1>9, <1>10, <1>11 DEF SenderStep

(* No step takes the verified file back. *)
LEMMA WholeFileStays ==
  ASSUME WholeFileHere, [Next]_vars
  PROVE  WholeFileHere'
<1>1. CASE UNCHANGED vars
  BY <1>1 DEF vars, receiverVars, WholeFileHere, Reading
<1>2. CASE SenderStep
  <2>1. TakeReply \/ NoReply
    BY <1>2 DEF SenderStep, RecvReady, GiveUp, RecvWindowReply, AckTimeout, RecvInGuard,
           GuardTimeout, RecvProbeReply, ProbeTimeout, ConfirmReset, RecvOtherResetReply,
           ResetTimeout, ResumeFlight, ResumeFromZero, RecvOtherBarrierReply,
           BarrierTimeout, RecvFinal
  <2>2. QED
    BY <2>1 DEF TakeReply, NoReply, OfSender, receiverVars, WholeFileHere, Reading
<1>3. CASE ReceiverStep
  <2>1. Install
    BY <1>3 DEF WholeFileHere, Reading, ReceiverStep, RecvMeta, RecvAnswered, RecvGap, RecvBlock,
                RecvShortFrame, RecvReset, RecvDone, RecvUnexpected, RecvTimeout, Read
  <2>2. QED
    BY <2>1 DEF Install, WholeFileHere, Reading
<1>4. CASE FaultStep
  BY <1>4 DEF FaultStep, LoseLine, DuplicateLine, DamageFrame, GarbleLine, StorageFails,
              ReceiverCrash, LineOnly, Raise, receiverVars, WholeFileHere, Reading
<1>5. QED
  BY <1>1, <1>2, <1>3, <1>4 DEF Next

(* Nothing but a verified DONE puts an OK on the line. *)
LEMMA OkIsEarned ==
  ASSUME TypeOK, toSender \in Seq(NotOk), [Next]_vars, ~WholeFileHere'
  PROVE  toSender' \in Seq(NotOk)
<1>1. \A kind \in ReceiverKinds \ {"OK"} :
        /\ Word(kind) \in NotOk
        /\ \A tok \in Nat : Ask(kind, tok) \in NotOk
        /\ \A seq \in Nat : About(kind, seq) \in NotOk
        /\ \A tok \in Nat, seq \in Nat : Line(kind, tok, seq) \in NotOk
  BY DEF NotOk, ToSenderLine, Word, Ask, About, Line
<1>2. \A line \in NotOk : Answer(line) => toSender' \in Seq(NotOk)
  BY ChannelType DEF Answer
<1>3. UNCHANGED toSender => toSender' \in Seq(NotOk)
  OBVIOUS
<1>4. CASE SenderStep
  <2>1. TakeReply \/ NoReply
    BY <1>4 DEF SenderStep, RecvReady, GiveUp, RecvWindowReply, AckTimeout, RecvInGuard,
           GuardTimeout, RecvProbeReply, ProbeTimeout, ConfirmReset, RecvOtherResetReply,
           ResetTimeout, ResumeFlight, ResumeFromZero, RecvOtherBarrierReply,
           BarrierTimeout, RecvFinal
  <2>2. QED
    BY <2>1, ChannelType DEF TakeReply, NoReply
<1>5. CASE ReceiverStep
  <2>1. expected \in Nat /\ ToReceiverOK
    BY TransferAssumption DEF TypeOK, ReceiverTypeOK
  <2>2. TakeInput => Input \in ToReceiverLine
    BY <2>1, ChannelType DEF TakeInput, Input, ToReceiverOK
  <2>3. CASE RecvMeta \/ RecvGap \/ RecvUnexpected \/ RecvTimeout \/ Install
    BY <1>1, <1>2, <2>1, <2>3
    DEF RecvMeta, RecvGap, RecvUnexpected, RecvTimeout, Install, ReceiverKinds
  <2>4. CASE RecvBlock \/ RecvShortFrame
    BY <1>1, <1>2, <2>1, <2>4 DEF RecvBlock, RecvShortFrame, ReceiverKinds
  <2>5. CASE RecvReset
    <3>1. Input.tok \in Nat
      BY <2>2, <2>5 DEF RecvReset, Read, ToReceiverLine
    <3>2. QED
      BY <1>1, <1>2, <2>5, <3>1 DEF RecvReset, ReceiverKinds
  <2>6. CASE RecvAnswered
    <3>1. Input.tok \in Nat /\ Input.seq \in Nat
      BY <2>2, <2>6 DEF RecvAnswered, Read, ToReceiverLine, Seqs
    <3>2. Input.seq < expected => expected - 1 \in Nat
      BY <2>1, <3>1
    <3>3. QED
      BY <1>1, <1>2, <2>1, <2>6, <3>1, <3>2 DEF RecvAnswered, ReceiverKinds
  <2>7. CASE RecvDone
    <3>1. ~FileVerified(Input)
      BY <2>7 DEF RecvDone, FileVerified, WholeFileHere, Reading, Raise
    <3>2. QED
      BY <1>1, <1>2, <2>7, <3>1 DEF RecvDone, ReceiverKinds
  <2>8. QED
    BY <1>5, <2>3, <2>4, <2>5, <2>6, <2>7 DEF ReceiverStep
<1>6. CASE FaultStep
  <2>1. Word("ERR") \in NotOk /\ Word("JUNK") \in NotOk
    BY <1>1 DEF ReceiverKinds
  <2>2. toSender # <<>> =>
          /\ Tail(toSender) \in Seq(NotOk)
          /\ <<Reply>> \o toSender \in Seq(NotOk)
          /\ <<Word("JUNK")>> \o Tail(toSender) \in Seq(NotOk)
    BY <2>1, ChannelType, ReplaceHeadType DEF Reply
  <2>3. QED
    BY <1>2, <1>6, <2>1, <2>2
    DEF FaultStep, LoseLine, DuplicateLine, DamageFrame, GarbleLine, StorageFails, ReceiverCrash
<1>7. CASE UNCHANGED vars
  BY <1>7 DEF vars
<1>8. QED
  BY <1>4, <1>5, <1>6, <1>7 DEF Next

(* The invariant behind VerifiedMeansReceived. *)
LEMMA VerdictHolds == Spec => []VerdictInv
<1>1. Init => VerdictInv
  BY EmptySeq DEF Init, VerdictInv
<1>2. TypeOK /\ VerdictInv /\ [Next]_vars => VerdictInv'
  <2>1. SUFFICES ASSUME TypeOK, VerdictInv, [Next]_vars, ~WholeFileHere'
                 PROVE  result' # "verified" /\ toSender' \in Seq(NotOk)
    BY DEF VerdictInv
  <2>2. result # "verified" /\ toSender \in Seq(NotOk)
    BY <2>1, WholeFileStays DEF VerdictInv
  <2>3. toSender' \in Seq(NotOk)
    BY <2>1, <2>2, OkIsEarned
  <2>4. CASE SenderStep
    <3>1. ASSUME result' = "verified" PROVE FALSE
      <4>1. TakeReply /\ Reply.kind = "OK"
        BY <2>2, <2>4, <3>1, VerifiedByOk
      <4>2. Reply \in NotOk
        BY <2>2, <4>1, ChannelType DEF TakeReply, Reply
      <4>3. QED
        BY <4>1, <4>2 DEF NotOk
    <3>2. QED
      BY <2>3, <3>1
  <2>5. CASE ReceiverStep \/ FaultStep \/ UNCHANGED vars
    <3>1. UNCHANGED result
      BY <2>5 DEF ReceiverStep, FaultStep, vars, senderVars, OfReceiver, Read, LineOnly,
        RecvMeta, RecvAnswered, RecvGap, RecvBlock, RecvShortFrame, RecvReset, RecvDone, Install,
        RecvUnexpected, RecvTimeout, LoseLine, DuplicateLine, DamageFrame, GarbleLine,
        StorageFails, ReceiverCrash
    <3>2. QED
      BY <2>2, <2>3, <3>1
  <2>6. QED
    BY <2>1, <2>4, <2>5 DEF Next
<1>3. QED
  BY <1>1, <1>2, TypeCorrect, PTL DEF Spec

(* send_file reports a verified file only if _receive had written and       *)
(* checked all of it, whatever the line lost, damaged, garbled or repeated  *)
(* and wherever the receiver's storage or the receiver itself failed.       *)
THEOREM VerifiedIsReceived == Spec => []VerifiedMeansReceived
<1>1. VerdictInv => VerifiedMeansReceived
  BY DEF VerdictInv, WholeFileHere, VerifiedMeansReceived
<1>2. QED
  BY <1>1, VerdictHolds, PTL

-----------------------------------------------------------------------------
(* The refinement.  A transfer takes the steps of FileDelivery because the  *)
(* receiver's counter and its .PART file never drift apart, and because     *)
(* send_file reports once.                                                  *)

PartLength     == Len(part) = expected
NotYetReported == phase # "end" => result = "none"
DeliveryInv    == TypeOK /\ VerdictInv /\ PartLength /\ NotYetReported

(* A sender action ends send_file or leaves its result open. *)
LEMMA SenderReportsOnce ==
  ASSUME SenderStep, NotYetReported
  PROVE  result = "none" /\ NotYetReported'
<1> DEFINE Open == phase' = "end" \/ UNCHANGED result
<1>1. \A why, confirmed : Abort(why, confirmed) => Open
  BY DEF Abort
<1>2. \A b, n, w : Fill(b, n, w) => Open
  BY DEF Fill
<1>3. (KeepWaiting => Open) /\ (RecoverFlight => Open) /\ \A wait : EnterGuard(wait) => Open
  BY DEF KeepWaiting, RecoverFlight, StartBarrier, EnterGuard
<1>4. \A confirmed : RestartFile(confirmed) => Open
  BY <1>1 DEF RestartFile, FromTheStart, StartBarrier
<1>5. \A why : Fail(why) => Open
  BY <1>1 DEF Fail
<1> HIDE DEF Open
<1>6. \A m, late : Interpret(m, late) => Open
  BY <1>2, <1>3, <1>4, <1>5 DEF Interpret, Acknowledge
<1>7. RecvReady \/ GiveUp \/ AckTimeout \/ GuardTimeout \/ ProbeTimeout \/ RecvFinal => Open
  BY <1>2, <1>3 DEF RecvReady, GiveUp, AckTimeout, GuardTimeout, ProbeTimeout, RecvFinal, Open
<1>8. RecvWindowReply \/ RecvInGuard \/ RecvProbeReply => Open
  BY <1>3, <1>6 DEF RecvWindowReply, RecvInGuard, RecvProbeReply
<1>9. ConfirmReset \/ RecvOtherResetReply => Open
  BY <1>3, <1>4, <1>5 DEF ConfirmReset, RecvOtherResetReply
<1>10. ResetTimeout \/ BarrierTimeout => Open
  BY <1>5 DEF ResetTimeout, BarrierTimeout, Open
<1>11. ResumeFlight \/ RecvOtherBarrierReply => Open
  BY <1>2, <1>3, <1>5 DEF ResumeFlight, RecvOtherBarrierReply
<1>12. ResumeFromZero => Open
  BY <1>5 DEF ResumeFromZero, Open
<1>13. Open
  BY <1>7, <1>8, <1>9, <1>10, <1>11, <1>12 DEF SenderStep
<1>14. phase # "end"
  BY DEF SenderStep, RecvReady, GiveUp, DeadlineWaits, RecvWindowReply, AckTimeout, RecvInGuard,
         GuardTimeout, RecvProbeReply, ProbeTimeout, ConfirmReset, RecvOtherResetReply,
         ResetTimeout, ResumeFlight, ResumeFromZero, RecvOtherBarrierReply, BarrierTimeout,
         RecvFinal
<1>15. QED
  BY <1>13, <1>14 DEF NotYetReported, Open

(* What a sender action leaves alone. *)
LEMMA SenderLeavesReceiver ==
  ASSUME SenderStep
  PROVE  UNCHANGED receiverVars
<1>1. TakeReply \/ NoReply
  BY DEF SenderStep, RecvReady, GiveUp, RecvWindowReply, AckTimeout, RecvInGuard,
         GuardTimeout, RecvProbeReply, ProbeTimeout, ConfirmReset, RecvOtherResetReply,
         ResetTimeout, ResumeFlight, ResumeFromZero, RecvOtherBarrierReply,
         BarrierTimeout, RecvFinal
<1>2. QED
  BY <1>1 DEF TakeReply, NoReply, OfSender

(* What the other two leave alone. *)
LEMMA OthersLeaveSender ==
  ASSUME ReceiverStep \/ FaultStep
  PROVE  UNCHANGED senderVars
  BY DEF ReceiverStep, FaultStep, OfReceiver, Read, LineOnly,
     RecvMeta, RecvAnswered, RecvGap, RecvBlock, RecvShortFrame, RecvReset, RecvDone, Install,
     RecvUnexpected, RecvTimeout, LoseLine, DuplicateLine, DamageFrame, GarbleLine,
     StorageFails, ReceiverCrash

(* What the receiver and its machine do to the file, one step at a time.   *)
LEMMA FileStep ==
  ASSUME TypeOK, PartLength, ReceiverStep \/ FaultStep
  PROVE  \/ UNCHANGED <<part, expected, rPhase>>
         \/ /\ rPhase = "meta" /\ rPhase' = "data"
            /\ UNCHANGED <<part, expected>>
         \/ /\ rPhase = "data" /\ expected < Blocks
            /\ part' = Append(part, expected) /\ expected' = expected + 1
            /\ UNCHANGED rPhase
         \/ rPhase = "data" /\ StartOver /\ UNCHANGED rPhase
         \/ /\ rPhase = "data" /\ rPhase' = "install" /\ part = WholeFile
            /\ UNCHANGED <<part, expected>>
         \/ /\ rPhase = "install" /\ rPhase' = "installed"
            /\ UNCHANGED <<part, expected>>
         \/ /\ rPhase \in {"meta", "data", "install"} /\ rPhase' \in {"kept", "raised"}
            /\ UNCHANGED <<part, expected>>
<1>1. TakeInput => Input \in ToReceiverLine
  BY ChannelType DEF TypeOK, ToReceiverOK, TakeInput, Input
<1>2. CASE RecvMeta \/ RecvUnexpected \/ RecvTimeout \/ Install
  BY <1>2 DEF RecvMeta, RecvUnexpected, RecvTimeout, Install, Raise, Read, Reading
<1>3. CASE RecvAnswered \/ RecvShortFrame
  BY <1>3 DEF RecvAnswered, RecvShortFrame, receiverVars
<1>4. CASE RecvGap \/ RecvReset
  BY <1>4 DEF RecvGap, RecvReset, Raise, Read
<1>5. CASE RecvBlock
  <2>1. expected < Blocks
    BY <1>1, <1>5, TransferAssumption DEF RecvBlock, Read, ToReceiverLine, Seqs
  <2>2. QED
    BY <1>5, <2>1 DEF RecvBlock, Read
<1>6. CASE RecvDone
  BY <1>6 DEF RecvDone, FileVerified, Raise, Read
<1>7. CASE FaultStep
  BY <1>7 DEF FaultStep, LoseLine, DuplicateLine, DamageFrame, GarbleLine, StorageFails,
              ReceiverCrash, LineOnly, Raise, receiverVars
<1>8. QED
  BY <1>2, <1>3, <1>4, <1>5, <1>6, <1>7 DEF ReceiverStep

(* The receiver's counter and its file move together. *)
LEMMA PartLengthStays ==
  ASSUME TypeOK, PartLength, [Next]_vars
  PROVE  PartLength'
<1>1. part \in Seq(Seqs) /\ expected \in Nat /\ Blocks \in Nat
  BY TransferAssumption DEF TypeOK, ReceiverTypeOK
<1>2. CASE SenderStep \/ UNCHANGED vars
  BY <1>2, SenderLeavesReceiver DEF PartLength, receiverVars, vars
<1>3. CASE ReceiverStep \/ FaultStep
  <2>1. CASE part' = Append(part, expected) /\ expected' = expected + 1 /\ expected < Blocks
    <3>1. expected \in Seqs
      BY <1>1, <2>1 DEF Seqs
    <3>2. Len(part') = Len(part) + 1
      BY <1>1, <2>1, <3>1, AppendProperties
    <3>3. QED
      BY <2>1, <3>2 DEF PartLength
  <2>2. CASE StartOver
    BY <2>2 DEF StartOver, PartLength
  <2>3. CASE UNCHANGED <<part, expected>>
    BY <2>3 DEF PartLength
  <2>4. QED
    BY <1>3, <2>1, <2>2, <2>3, FileStep
<1>4. QED
  BY <1>2, <1>3 DEF Next

(* Every step of the transfer is a step of FileDelivery, or none. *)
LEMMA DeliveryStep ==
  ASSUME DeliveryInv, VerdictInv', [Next]_vars
  PROVE  [Delivery!Next]_<<part, Holder, Outcome>>
<1>1. CASE UNCHANGED vars
  BY <1>1 DEF vars, senderVars, receiverVars, Holder, Outcome, Reading
<1>2. CASE SenderStep
  <2>1. UNCHANGED <<part, Holder>>
    BY <1>2, SenderLeavesReceiver DEF receiverVars, Holder, Reading
  <2>2. result = "none"
    BY <1>2, SenderReportsOnce DEF DeliveryInv
  <2>3. CASE result' = "none"
    BY <2>1, <2>2, <2>3 DEF Outcome
  <2>4. CASE result' = "verified"
    <3>1. part = WholeFile /\ ~Reading
      BY <1>2, <2>4, SenderLeavesReceiver
      DEF VerdictInv, WholeFileHere, receiverVars, Reading
    <3>2. Delivery!Report
      BY <2>1, <2>2, <2>4, <3>1 DEF Delivery!Report, Delivery!File, WholeFile, Holder, Outcome
    <3>3. QED
      BY <3>2 DEF Delivery!Next
  <2>5. CASE result' \notin {"none", "verified"}
    <3>1. Delivery!Report
      BY <2>1, <2>2, <2>5 DEF Delivery!Report, Outcome
    <3>2. QED
      BY <3>1 DEF Delivery!Next
  <2>6. QED
    BY <2>3, <2>4, <2>5
<1>3. CASE ReceiverStep \/ FaultStep
  <2>1. UNCHANGED Outcome
    BY <1>3, OthersLeaveSender DEF senderVars, Outcome
  <2>2. TypeOK /\ Len(part) = expected
    BY DEF DeliveryInv, PartLength
  <2>3. CASE UNCHANGED <<part, expected, rPhase>>
    BY <2>1, <2>3 DEF Holder, Reading
  <2>4. CASE rPhase = "meta" /\ rPhase' = "data" /\ UNCHANGED <<part, expected>>
    BY <2>1, <2>4 DEF Holder, Reading
  <2>5. CASE /\ rPhase = "data" /\ expected < Blocks
             /\ part' = Append(part, expected) /\ expected' = expected + 1
             /\ UNCHANGED rPhase
    BY <2>1, <2>2, <2>5 DEF Delivery!Next, Delivery!Write, Holder, Reading
  <2>6. CASE rPhase = "data" /\ StartOver /\ UNCHANGED rPhase
    BY <2>1, <2>6 DEF Delivery!Next, Delivery!StartAgain, StartOver, Holder, Reading
  <2>7. CASE /\ rPhase = "data" /\ rPhase' = "install" /\ part = WholeFile
             /\ UNCHANGED <<part, expected>>
    BY <2>1, <2>7
    DEF Delivery!Next, Delivery!Verify, Delivery!File, WholeFile, Holder, Reading
  <2>8. CASE /\ rPhase = "install" /\ rPhase' = "installed"
             /\ UNCHANGED <<part, expected>>
    BY <2>1, <2>8 DEF Delivery!Next, Delivery!Install, Holder, Reading
  <2>9. CASE /\ rPhase \in {"meta", "data", "install"} /\ rPhase' \in {"kept", "raised"}
             /\ UNCHANGED <<part, expected>>
    BY <2>1, <2>9 DEF Delivery!Next, Delivery!Stop, Holder, Reading
  <2>10. QED
    BY <1>3, <2>2, <2>3, <2>4, <2>5, <2>6, <2>7, <2>8, <2>9, FileStep DEF PartLength
<1>4. QED
  BY <1>1, <1>2, <1>3 DEF Next

(* send_file, _receive and the line between them implement FileDelivery: a  *)
(* .PART that is always a beginning of the file, verdict before rename, and *)
(* a report of success only for a file the receiver has verified.           *)
THEOREM TransferDelivers == Spec => DeliversFile
<1>1. Init => DeliveryInv /\ Delivery!Init
  <2>1. Init => TypeOK
    BY InitType
  <2>2. Init => VerdictInv /\ PartLength /\ NotYetReported
    BY EmptySeq DEF Init, VerdictInv, PartLength, NotYetReported
  <2>3. Init => Delivery!Init
    BY DEF Init, Delivery!Init, Holder, Outcome, Reading
  <2>4. QED
    BY <2>1, <2>2, <2>3 DEF DeliveryInv
<1>2. TypeOK /\ TypeOK' /\ VerdictInv /\ VerdictInv' /\ PartLength /\ NotYetReported /\ [Next]_vars
        => PartLength' /\ NotYetReported'
  <2>1. SUFFICES ASSUME TypeOK, PartLength, NotYetReported, [Next]_vars
                 PROVE  PartLength' /\ NotYetReported'
    OBVIOUS
  <2>2. PartLength'
    BY <2>1, PartLengthStays
  <2>3. NotYetReported'
    BY <2>1, SenderReportsOnce, OthersLeaveSender DEF Next, NotYetReported, vars, senderVars
  <2>4. QED
    BY <2>2, <2>3
<1>3. DeliveryInv /\ VerdictInv' /\ [Next]_vars => [Delivery!Next]_(Delivery!delivery)
  BY DeliveryStep DEF Delivery!delivery
<1>4. Spec => []TypeOK /\ []VerdictInv
  BY TypeCorrect, VerdictHolds, PTL
<1>5. DeliveryInv <=> TypeOK /\ VerdictInv /\ PartLength /\ NotYetReported
  BY DEF DeliveryInv
<1>6. QED
  BY <1>1, <1>2, <1>3, <1>4, <1>5, PTL DEF Spec, DeliversFile, Delivery!Spec

=============================================================================
