------------------------ MODULE TransferFlightProofs ------------------------
(***************************************************************************)
(* Theorems about the flights of Transfer, for every file, window, retry   *)
(* limit and number of faults.  On a line that repeats nothing flights do  *)
(* not overlap, what is acknowledged is committed and the receiver never   *)
(* asks for a reset; on every line DONE reaches only a receiver that has   *)
(* every block.                                                            *)
(*                                                                         *)
(* The inductive invariant says where every line under way stands relative *)
(* to the positions of both sides, and which lines may follow which.  The  *)
(* heart of it is the barrier: nothing but more barriers follows the       *)
(* current BARRIER, so when its RESUME is under way the line to the        *)
(* receiver is empty of frames and the position in it is the receiver's.   *)
(*                                                                         *)
(* The second half proves that losses and corruption are recovered: a      *)
(* second invariant says, wait by wait, what is on the line and how many   *)
(* faults the retries so far have cost.                                    *)
(***************************************************************************)
EXTENDS TransferProofs

(* The phases in which the sender may have undone what was acknowledged.   *)
Undone  == {"reset", "restart", "end"}
Waiting == phase \in {"resume", "restart"}
Closing == {"done", "end"}
Verdict == {"DONE", "DONEBAD"}

(* The positions.  While gaps are counted, either the last gap was read in *)
(* this flight, below nextSeq, or the flight was resumed with one block.   *)
Positions ==
  /\ expected <= nextSeq /\ nextSeq <= base + WindowSize
  /\ cwnd <= WindowSize /\ drops < WindowSize
  /\ drops > 0 => \/ nextSeq > expected + drops
                  \/ base = expected /\ nextSeq <= expected + 1
  /\ phase = "ready" => nextSeq = 0
  /\ phase = "resume" => cwnd = 1
  /\ phase \notin Undone => base <= expected

(* A line to the receiver. *)
Sent(m) ==
  /\ m.kind \in Frames => /\ base <= expected /\ m.seq < nextSeq
                          /\ m.seq = expected \/ m.seq > expected + drops
  /\ m.kind = "RST" => phase \in Undone
  /\ m.kind = "BARRIER" => m.tok <= token
  /\ m.kind \in Verdict => phase \in Closing /\ expected = Blocks

(* One line to the receiver ahead of another. *)
Ahead(a, b) ==
  /\ a.kind \in Frames /\ b.kind \in Frames => a.seq < b.seq
  /\ a.kind = "RST" => b.kind \notin Frames \cup Verdict
  /\ Waiting /\ a.kind = "BARRIER" /\ a.tok = token => b.kind = "BARRIER"

(* A line to the sender, and one ahead of another. *)
Resumes(m) == Waiting /\ m.kind = "RESUME" /\ m.tok = token
Said(m) ==
  /\ m.kind # "RST"
  /\ m.kind = "ACK" /\ phase \notin Undone => m.seq < expected
  /\ m.kind = "RESUME" => m.tok <= token
  /\ Resumes(m) => m.seq = expected
SaidAhead(a, b) == Resumes(a) => b.kind # "ACK"

ToReceiverInv ==
  /\ \A i \in 1 .. Len(toReceiver) : Sent(toReceiver[i])
  /\ \A i, j \in 1 .. Len(toReceiver) : i < j => Ahead(toReceiver[i], toReceiver[j])
ToSenderInv ==
  /\ \A i \in 1 .. Len(toSender) : Said(toSender[i])
  /\ \A i, j \in 1 .. Len(toSender) : i < j => SaidAhead(toSender[i], toSender[j])

(* Once a barrier was answered the line to the receiver is quiet. *)
Quiet == \A i \in 1 .. Len(toReceiver) : toReceiver[i].kind \in {"BARRIER", "JUNK"}
QuietInv == (\E i \in 1 .. Len(toSender) : Resumes(toSender[i])) => Quiet

FlightInv == ~Repeats => Positions /\ ToReceiverInv /\ ToSenderInv /\ QuietInv

-----------------------------------------------------------------------------
(* What the lines are.                                                      *)

LEMMA LineTypes ==
  ASSUME TypeOK
  PROVE  /\ \A i \in 1 .. Len(toReceiver) : toReceiver[i] \in ToReceiverLine
         /\ \A i \in 1 .. Len(toSender) : toSender[i] \in ToSenderLine
         /\ Len(toReceiver) \in Nat /\ Len(toSender) \in Nat
  BY LenProperties, ElementOfSeq DEF TypeOK, ToReceiverOK, ToSenderOK

(* The numbers a line carries. *)
LEMMA LineFields ==
  ASSUME TypeOK
  PROVE  /\ token \in Nat /\ Len(toReceiver) \in Nat /\ Len(toSender) \in Nat
         /\ \A i \in 1 .. Len(toReceiver) : toReceiver[i].tok \in Nat /\ toReceiver[i].seq \in Nat
         /\ \A i \in 1 .. Len(toSender) : toSender[i].tok \in Nat /\ toSender[i].seq \in Nat
<1>1. token \in Nat
  BY DEF TypeOK, SenderTypeOK
<1>2. \A m \in ToReceiverLine : m.tok \in Nat /\ m.seq \in Nat
  BY TransferAssumption DEF ToReceiverLine, Seqs
<1>3. \A m \in ToSenderLine : m.tok \in Nat /\ m.seq \in Nat
  BY DEF ToSenderLine
<1>4. QED
  BY <1>1, <1>2, <1>3, LineTypes

(* The sender reads one line or none. *)
Consumed ==
  \E d \in {0, 1} : /\ Len(toSender') = Len(toSender) - d
                    /\ \A i \in 1 .. Len(toSender') : toSender'[i] = toSender[i + d]

(* A tail, element by element. *)
LEMMA TailElements ==
  ASSUME NEW S, NEW s \in Seq(S), s # <<>>
  PROVE  /\ Len(s) \in Nat \ {0} /\ Len(Tail(s)) = Len(s) - 1
         /\ \A i \in 1 .. Len(Tail(s)) : Tail(s)[i] = s[i + 1]
         /\ Head(s) = s[1]
  BY HeadTailProperties, EmptySeq, LenProperties

(* The outcome of recv_line for the sender. *)
LEMMA ReplyConsumed ==
  ASSUME TypeOK, TakeReply \/ NoReply
  PROVE  Consumed /\ UNCHANGED <<receiverVars, setting>>
<1>1. CASE NoReply
  BY <1>1, LineTypes DEF NoReply, OfSender, Consumed
<1>2. CASE TakeReply
  <2>1. toSender # <<>> /\ toSender' = Tail(toSender) /\ toSender \in Seq(ToSenderLine)
    BY <1>2 DEF TakeReply, TypeOK, ToSenderOK
  <2>2. Len(toSender') = Len(toSender) - 1
        /\ \A i \in 1 .. Len(toSender') : toSender'[i] = toSender[i + 1]
    BY <2>1, TailElements
  <2>3. QED
    BY <1>2, <2>2 DEF TakeReply, OfSender, Consumed
<1>3. QED
  BY <1>1, <1>2

(* The reply that is read, under the invariant. *)
LEMMA ReplyIsSaid ==
  ASSUME TypeOK, FlightInv, ~Repeats, TakeReply
  PROVE  /\ Reply \in ToSenderLine /\ Said(Reply)
         /\ Resumes(Reply) => Quiet
         /\ \A i \in 1 .. Len(toSender') : SaidAhead(Reply, toSender'[i])
<1>1. toSender # <<>> /\ toSender' = Tail(toSender) /\ toSender \in Seq(ToSenderLine)
  BY DEF TakeReply, TypeOK, ToSenderOK
<1>2. /\ Len(toSender) \in Nat \ {0} /\ Len(toSender') = Len(toSender) - 1
      /\ \A i \in 1 .. Len(toSender') : toSender'[i] = toSender[i + 1]
      /\ Reply = toSender[1]
  BY <1>1, TailElements DEF Reply
<1>3. QED
  <2>1. ToSenderInv /\ QuietInv
    BY DEF FlightInv
  <2>2. 1 \in 1 .. Len(toSender) /\ \A i \in 1 .. Len(toSender') : i + 1 \in 1 .. Len(toSender) /\ 1 < i + 1
    BY <1>2
  <2>3. Said(Reply) /\ (Resumes(Reply) => Quiet)
    BY <1>2, <2>1, <2>2, Zenon DEF ToSenderInv, QuietInv
  <2>4. \A i \in 1 .. Len(toSender') : SaidAhead(Reply, toSender'[i])
    BY <1>2, <2>1, <2>2, Zenon DEF ToSenderInv
  <2>5. Reply \in ToSenderLine
    BY <1>2, <2>2, LineTypes
  <2>6. QED
    BY <2>3, <2>4, <2>5

-----------------------------------------------------------------------------
(* The sender.                                                              *)

(* A step that starts no flight: it says nothing, asks a question, or ends. *)
LEMMA SenderSpeaks ==
  ASSUME TypeOK, FlightInv, ~Repeats, Consumed,
         UNCHANGED <<receiverVars, setting, base, nextSeq>>,
         token' \in Nat, token <= token', cwnd' \in Nat, cwnd' <= WindowSize,
         phase' = "ready" => phase = "ready",
         phase' = "resume" => cwnd' = 1,
         phase \in Undone => phase' \in Undone,
         phase \in Closing => phase' \in Closing,
         Waiting' /\ token' = token => Waiting,
         NEW x \in ToReceiverLine,
         \/ UNCHANGED toReceiver
         \/ /\ toReceiver' = Append(toReceiver, x)
            /\ x.kind \in {"AYT", "RST", "BARRIER", "ERR"}
            /\ x.kind = "RST" => phase' \in Undone
            /\ x.kind = "BARRIER" => x.tok <= token'
            /\ Waiting' => x.kind = "BARRIER"
  PROVE  FlightInv'
<1> USE DEF Undone, Closing, Verdict, Frames, receiverVars
<1>1. Positions /\ ToReceiverInv /\ ToSenderInv /\ QuietInv
  BY DEF FlightInv
<1>2. /\ token \in Nat /\ Len(toReceiver) \in Nat /\ Len(toSender) \in Nat
      /\ \A i \in 1 .. Len(toReceiver) : toReceiver[i].tok \in Nat /\ toReceiver[i].seq \in Nat
      /\ \A i \in 1 .. Len(toSender) : toSender[i].tok \in Nat /\ toSender[i].seq \in Nat
  BY LineFields
<1>3. Positions'
  BY <1>1 DEF Positions
<1>4. \/ UNCHANGED toReceiver
      \/ /\ Len(toReceiver') = Len(toReceiver) + 1
         /\ \A i \in 1 .. Len(toReceiver) : toReceiver'[i] = toReceiver[i]
         /\ toReceiver'[Len(toReceiver) + 1] = x
  BY AppendProperties DEF TypeOK, ToReceiverOK
<1>5. \A i \in 1 .. Len(toReceiver) : Sent(toReceiver[i])'
  <2>1. ASSUME NEW i \in 1 .. Len(toReceiver) PROVE Sent(toReceiver[i])'
    <3>1. toReceiver'[i] = toReceiver[i] /\ Sent(toReceiver[i])
      BY <1>1, <1>4 DEF ToReceiverInv
    <3>2. toReceiver[i].tok \in Nat /\ token \in Nat
      BY <1>2
    <3>3. QED
      BY <3>1, <3>2 DEF Sent
  <2>2. QED
    BY <2>1
<1>6. \A i, j \in 1 .. Len(toReceiver) : i < j => Ahead(toReceiver[i], toReceiver[j])'
  <2>1. ASSUME NEW i \in 1 .. Len(toReceiver), NEW j \in 1 .. Len(toReceiver), i < j
        PROVE  Ahead(toReceiver[i], toReceiver[j])'
    <3>1. /\ toReceiver'[i] = toReceiver[i] /\ toReceiver'[j] = toReceiver[j]
          /\ Sent(toReceiver[i]) /\ Ahead(toReceiver[i], toReceiver[j])
      BY <1>1, <1>4, <2>1 DEF ToReceiverInv
    <3>2. toReceiver[i].tok \in Nat /\ token \in Nat
      BY <1>2
    <3>3. QED
      BY <3>1, <3>2 DEF Sent, Ahead
  <2>2. QED
    BY <2>1
<1>7. ToReceiverInv'
  <2>1. CASE UNCHANGED toReceiver
    BY <1>2, <1>5, <1>6, <2>1 DEF ToReceiverInv
  <2>2. CASE ~UNCHANGED toReceiver
    <3>1. x.kind \in {"AYT", "RST", "BARRIER", "ERR"} /\ (x.kind = "RST" => phase' \in Undone)
          /\ (x.kind = "BARRIER" => x.tok <= token') /\ (Waiting' => x.kind = "BARRIER")
      BY <2>2
    <3>2. Sent(x)'
      BY <3>1 DEF Sent
    <3>3. \A i \in 1 .. Len(toReceiver) : Ahead(toReceiver[i], x)'
      BY <3>1 DEF Ahead
    <3>4. \A i \in 1 .. Len(toReceiver') : i = Len(toReceiver) + 1 \/ i \in 1 .. Len(toReceiver)
      BY <1>2, <1>4, <2>2, <3>2
    <3>5. QED
      <4>1. PICK l \in Nat : l = Len(toReceiver)
        BY <1>2
      <4>2. /\ toReceiver'[l + 1] = x /\ \A i \in 1 .. l : toReceiver'[i] = toReceiver[i]
            /\ \A i \in 1 .. Len(toReceiver') : i = l + 1 \/ i \in 1 .. l
        BY <1>4, <2>2, <3>4, <4>1, Zenon
      <4>3. \A i \in 1 .. Len(toReceiver') : Sent(toReceiver[i])'
        BY <1>5, <3>2, <4>1, <4>2, Zenon
      <4>4. ASSUME NEW i \in 1 .. Len(toReceiver'), NEW j \in 1 .. Len(toReceiver'), i < j
            PROVE  Ahead(toReceiver[i], toReceiver[j])'
        <5>1. i \in 1 .. l
          BY <4>2, <4>4
        <5>2. CASE j = l + 1
          BY <3>3, <4>1, <4>2, <5>1, <5>2, Zenon
        <5>3. CASE j \in 1 .. l
          BY <1>6, <4>1, <4>4, <5>1, <5>3, Zenon
        <5>4. QED
          BY <4>2, <5>2, <5>3
      <4>5. QED
        BY <4>3, <4>4 DEF ToReceiverInv
  <2>3. QED
    BY <2>1, <2>2
<1>8. PICK d \in {0, 1} : /\ Len(toSender') = Len(toSender) - d
                          /\ \A i \in 1 .. Len(toSender') : toSender'[i] = toSender[i + d]
  BY DEF Consumed
<1>9. \A i \in 1 .. Len(toSender') : Resumes(toSender[i])' => Resumes(toSender[i + d])
  <2>1. ASSUME NEW i \in 1 .. Len(toSender'), Resumes(toSender[i])' PROVE Resumes(toSender[i + d])
    <3>1. i + d \in 1 .. Len(toSender) /\ toSender'[i] = toSender[i + d]
      BY <1>2, <1>8
    <3>2. Said(toSender[i + d]) /\ toSender[i + d].tok \in Nat /\ token \in Nat
      BY <1>1, <1>2, <3>1 DEF ToSenderInv
    <3>3. QED
      BY <2>1, <3>1, <3>2 DEF Said, Resumes
  <2>2. QED
    BY <2>1
<1>10. ToSenderInv'
  <2>1. ASSUME NEW i \in 1 .. Len(toSender') PROVE Said(toSender[i])'
    <3>1. i + d \in 1 .. Len(toSender) /\ toSender'[i] = toSender[i + d]
      BY <1>2, <1>8
    <3>2. Said(toSender[i + d])
      BY <1>1, <3>1 DEF ToSenderInv
    <3>3. QED
      BY <1>2, <1>9, <3>1, <3>2 DEF Said
  <2>2. ASSUME NEW i \in 1 .. Len(toSender'), NEW j \in 1 .. Len(toSender'), i < j
        PROVE  SaidAhead(toSender[i], toSender[j])'
    <3>1. /\ i + d \in 1 .. Len(toSender) /\ toSender'[i] = toSender[i + d]
          /\ j + d \in 1 .. Len(toSender) /\ toSender'[j] = toSender[j + d]
          /\ i + d < j + d
      <4>1. PICK l \in Nat, k \in Nat : l = Len(toSender) /\ k = Len(toSender') /\ k = l - d
        BY <1>2, <1>8
      <4>2. i + d \in 1 .. l /\ j + d \in 1 .. l /\ i + d < j + d
        <5>1. i \in 1 .. k /\ j \in 1 .. k /\ i < j
          BY <2>2, <4>1
        <5>2. QED
          BY ONLY <4>1, <5>1, l \in Nat, k \in Nat, d \in {0, 1}
      <4>3. toSender'[i] = toSender[i + d] /\ toSender'[j] = toSender[j + d]
        BY <1>8, <2>2, Zenon
      <4>4. QED
        BY <4>1, <4>2, <4>3
    <3>2. SaidAhead(toSender[i + d], toSender[j + d])
      BY <1>1, <3>1 DEF ToSenderInv
    <3>3. QED
      <4>1. ASSUME Resumes(toSender[i])' PROVE (toSender'[j]).kind # "ACK"
        <5>1. Resumes(toSender[i + d])
          BY <1>9, <4>1
        <5>2. toSender[j + d].kind # "ACK"
          BY <3>2, <5>1, Zenon DEF SaidAhead
        <5>3. QED
          BY <3>1, <5>2, Zenon
      <4>2. QED
        BY <4>1, Zenon DEF SaidAhead
  <2>3. QED
    BY <2>1, <2>2 DEF ToSenderInv
<1>11. QuietInv'
  <2>1. SUFFICES ASSUME NEW i \in 1 .. Len(toSender'), Resumes(toSender[i])'
                 PROVE  Quiet'
    BY DEF QuietInv
  <2>2. Quiet /\ Waiting'
    BY <1>1, <1>2, <1>8, <1>9, <2>1 DEF QuietInv, Resumes
  <2>3. QED
    BY <1>2, <1>4, <2>2 DEF Quiet
<1>12. QED
  BY <1>3, <1>7, <1>10, <1>11 DEF FlightInv

(* What the filling loop adds to the line, element by element.             *)
LEMMA FillLines ==
  ASSUME TypeOK, NEW b \in 0 .. Blocks, NEW n \in 0 .. Blocks, NEW w \in Nat \ {0}, Fill(b, n, w)
  PROVE  /\ base' = b /\ cwnd' = w
         /\ nextSeq' \in n .. Blocks /\ (nextSeq' = n \/ nextSeq' <= b + w)
         /\ phase' \in {"done", "end", "ack"}
         /\ Len(toReceiver) <= Len(toReceiver') /\ Len(toReceiver') \in Nat
         /\ \A i \in 1 .. Len(toReceiver) : toReceiver'[i] = toReceiver[i]
         /\ \A i \in Len(toReceiver) + 1 .. Len(toReceiver') :
              LET m == toReceiver'[i]
              IN  \/ m.kind = "DATA" /\ m.seq = n + (i - Len(toReceiver)) - 1 /\ m.seq < nextSeq'
                  \/ m.kind = "ERR"
                  \/ m.kind = "DONE" /\ AllAcked(b) /\ phase' = "done"
<1> DEFINE edge == Minimum(Blocks, b + w)
           end  == IF n < edge THEN FillEnd(n, edge) ELSE n
           L    == Len(toReceiver)
<1>1. edge \in 0 .. Blocks /\ edge <= b + w
  BY TransferAssumption DEF Minimum
<1>2. end \in n .. Blocks /\ (end = n \/ end <= b + w)
  <2>1. CASE n < edge
    <3>1. FillEnd(n, edge) \in n .. edge
      BY <1>1, <2>1, FillEndType
    <3>2. QED
      BY <1>1, <2>1, <3>1, TransferAssumption
  <2>2. CASE ~(n < edge)
    BY <2>2, TransferAssumption
  <2>3. QED
    BY <2>1, <2>2
<1>3. Flight(n, end) \in Seq(ToReceiverLine) /\ Len(Flight(n, end)) = end - n
      /\ \A i \in 1 .. end - n : Flight(n, end)[i] = About("DATA", n + i - 1)
  <2>1. end - n \in Nat /\ Blocks \in Nat
    BY <1>2, TransferAssumption
  <2>2. Flight(n, end) \in Seq(ToReceiverLine)
    BY <1>2, <2>1, FlightType
  <2>3. Flight(n, end) = [i \in 1 .. end - n |-> About("DATA", n + i - 1)]
    BY DEF Flight
  <2> HIDE DEF end
  <2>4. DOMAIN Flight(n, end) = 1 .. end - n /\ DOMAIN Flight(n, end) = 1 .. Len(Flight(n, end))
    BY <2>2, <2>3, LenProperties
  <2>5. Len(Flight(n, end)) = end - n
    BY <2>1, <2>2, <2>4, LenProperties
  <2>6. QED
    BY <2>2, <2>3, <2>5
<1>4. toReceiver \in Seq(ToReceiverLine) /\ L \in Nat
  BY LineTypes DEF TypeOK, ToReceiverOK
<1> DEFINE sent == toReceiver \o Flight(n, end)
<1>5. /\ sent \in Seq(ToReceiverLine) /\ Len(sent) = L + (end - n)
      /\ \A i \in 1 .. L : sent[i] = toReceiver[i]
      /\ \A i \in L + 1 .. L + (end - n) : sent[i] = About("DATA", n + (i - L) - 1)
  <2>1. PICK f \in Seq(ToReceiverLine) :
          /\ f = Flight(n, end) /\ Len(f) = end - n
          /\ \A i \in 1 .. end - n : f[i] = About("DATA", n + i - 1)
    BY <1>3
  <2>2. PICK d \in Nat : d = end - n /\ Len(f) = d
    BY <1>2, <2>1
  <2>3. /\ toReceiver \o f \in Seq(ToReceiverLine) /\ Len(toReceiver \o f) = L + d
        /\ \A i \in 1 .. L + d : (toReceiver \o f)[i] = IF i <= L THEN toReceiver[i] ELSE f[i - L]
    BY <1>4, <2>2, ConcatProperties
  <2>4. \A i \in 1 .. L : sent[i] = toReceiver[i]
    BY <1>4, <2>1, <2>3
  <2>5. ASSUME NEW i \in L + 1 .. L + d PROVE sent[i] = About("DATA", n + (i - L) - 1)
    <3>1. i - L \in 1 .. d /\ i \in 1 .. L + d /\ ~(i <= L)
      BY <1>4
    <3>2. sent[i] = f[i - L]
      BY <2>1, <2>3, <3>1
    <3>3. QED
      BY <2>1, <2>2, <3>1, <3>2
  <2>6. QED
    BY <2>1, <2>2, <2>3, <2>4, <2>5
<1>6. base' = b /\ cwnd' = w /\ nextSeq' = end
      /\ \/ AllAcked(b) /\ phase' = "done" /\ toReceiver' = Append(toReceiver, Word("DONE"))
         \/ phase' = "end" /\ toReceiver' = sent \o <<Word("ERR")>>
         \/ phase' = "ack" /\ toReceiver' = sent
  BY DEF Fill, Send
<1>7. \A k : Word(k).kind = k /\ \A q : About(k, q).kind = k /\ About(k, q).seq = q
  BY DEF Word, About, Line
<1> HIDE DEF end, edge, sent, L
<1>8. CASE phase' = "done" /\ AllAcked(b) /\ toReceiver' = Append(toReceiver, Word("DONE"))
  <2>1. /\ Len(toReceiver') = L + 1
        /\ \A i \in 1 .. L : toReceiver'[i] = toReceiver[i]
        /\ toReceiver'[L + 1] = Word("DONE")
    BY <1>4, <1>8, AppendProperties DEF L
  <2>2. QED
    BY <1>2, <1>4, <1>6, <1>7, <1>8, <2>1 DEF L
<1>9. CASE phase' = "end" /\ toReceiver' = sent \o <<Word("ERR")>>
  <2>1. /\ Len(toReceiver') = L + (end - n) + 1
        /\ \A i \in 1 .. L + (end - n) : toReceiver'[i] = sent[i]
        /\ toReceiver'[L + (end - n) + 1] = Word("ERR")
    <3>1. toReceiver' = Append(sent, Word("ERR"))
      BY <1>9
    <3>2. QED
      BY <1>5, <3>1, AppendProperties
  <2>2. end - n \in Nat /\ Len(toReceiver') = Len(toReceiver) + (end - n) + 1
    BY <1>2, <2>1 DEF L
  <2>3. \A i \in 1 .. Len(toReceiver) : toReceiver'[i] = toReceiver[i]
    BY <1>4, <1>5, <2>1, <2>2 DEF L
  <2>4. \A i \in Len(toReceiver) + 1 .. Len(toReceiver) + (end - n) :
          /\ toReceiver'[i].kind = "DATA" /\ toReceiver'[i].seq = n + (i - Len(toReceiver)) - 1
          /\ toReceiver'[i].seq < end
    <3>1. ASSUME NEW i \in L + 1 .. L + (end - n)
          PROVE  /\ toReceiver'[i].kind = "DATA" /\ toReceiver'[i].seq = n + (i - L) - 1
                 /\ toReceiver'[i].seq < end
      <4>1. i \in 1 .. L + (end - n) /\ n + (i - L) - 1 < end
        BY <1>2, <1>4
      <4>2. toReceiver'[i] = About("DATA", n + (i - L) - 1)
        BY <1>5, <2>1, <4>1
      <4>3. QED
        BY <1>7, <4>1, <4>2
    <3>2. QED
      BY <3>1 DEF L
  <2>5. toReceiver'[Len(toReceiver) + (end - n) + 1].kind = "ERR"
    BY <1>7, <2>1 DEF L
  <2>6. \A i \in Len(toReceiver) + 1 .. Len(toReceiver') :
          \/ i \in Len(toReceiver) + 1 .. Len(toReceiver) + (end - n)
          \/ i = Len(toReceiver) + (end - n) + 1
    BY <1>4, <2>2 DEF L
  <2>7. Len(toReceiver) <= Len(toReceiver') /\ Len(toReceiver') \in Nat
    BY <1>4, <2>2 DEF L
  <2>8. \A i \in Len(toReceiver) + 1 .. Len(toReceiver') :
          \/ /\ toReceiver'[i].kind = "DATA" /\ toReceiver'[i].seq < end
             /\ toReceiver'[i].seq = n + (i - Len(toReceiver)) - 1
          \/ toReceiver'[i].kind = "ERR"
    BY <2>4, <2>5, <2>6
  <2>9. QED
    BY <1>2, <1>6, <1>9, <2>3, <2>7, <2>8
<1>10. CASE phase' = "ack" /\ toReceiver' = sent
  <2>1. end - n \in Nat /\ Len(toReceiver') = Len(toReceiver) + (end - n)
    BY <1>2, <1>5, <1>10 DEF L
  <2>2. \A i \in 1 .. Len(toReceiver) : toReceiver'[i] = toReceiver[i]
    BY <1>5, <1>10 DEF L
  <2>3. \A i \in Len(toReceiver) + 1 .. Len(toReceiver') :
          /\ toReceiver'[i].kind = "DATA" /\ toReceiver'[i].seq = n + (i - Len(toReceiver)) - 1
          /\ toReceiver'[i].seq < end
    <3>1. ASSUME NEW i \in Len(toReceiver) + 1 .. Len(toReceiver')
          PROVE  /\ i \in L + 1 .. L + (end - n)
                 /\ n + (i - Len(toReceiver)) - 1 = n + (i - L) - 1
                 /\ n + (i - Len(toReceiver)) - 1 < end
      BY <1>2, <1>4, <2>1 DEF L
    <3>2. QED
      BY <1>5, <1>7, <1>10, <3>1
  <2>4. Len(toReceiver) <= Len(toReceiver') /\ Len(toReceiver') \in Nat
    BY <1>4, <2>1 DEF L
  <2>5. QED
    BY <1>2, <1>6, <1>10, <2>2, <2>3, <2>4
<1>11. QED
  BY <1>6, <1>8, <1>9, <1>10

(* A flight keeps the invariant when it starts at or above the receiver's  *)
(* position, nothing acknowledged is uncommitted, and no RST is under way. *)
LEMMA FillKeeps ==
  ASSUME TypeOK, FlightInv, ~Repeats, Consumed, UNCHANGED <<receiverVars, setting, token>>,
         NEW b \in 0 .. Blocks, NEW n \in 0 .. Blocks, NEW w \in Nat \ {0}, w <= WindowSize,
         Fill(b, n, w),
         b <= expected, expected <= n, n <= b + WindowSize,
         \/ drops = 0
         \/ n > expected + drops
         \/ b = expected /\ n = expected /\ w = 1,
         \A i \in 1 .. Len(toReceiver) :
           /\ toReceiver[i].kind \notin Verdict \cup {"RST"}
           /\ toReceiver[i].kind \in Frames => toReceiver[i].seq < n,
         \A i \in 1 .. Len(toSender') : toSender'[i].kind = "ACK" => toSender'[i].seq < expected
  PROVE  FlightInv'
<1> USE DEF Undone, Closing, Verdict, Frames, receiverVars
<1>1. Positions /\ ToReceiverInv /\ ToSenderInv /\ QuietInv
  BY DEF FlightInv
<1>2. /\ Len(toReceiver) \in Nat /\ Len(toSender) \in Nat
      /\ \A i \in 1 .. Len(toReceiver) : toReceiver[i].seq \in Nat
      /\ \A i \in 1 .. Len(toSender) : toSender[i].tok \in Nat /\ toSender[i].seq \in Nat
      /\ expected \in Nat /\ drops \in Nat /\ expected <= Blocks
  <2>1. expected \in Nat /\ drops \in Nat /\ expected <= Blocks
    BY TransferAssumption DEF TypeOK, ReceiverTypeOK
  <2>2. QED
    BY <2>1, LineFields
<1>3. /\ base' = b /\ cwnd' = w
      /\ nextSeq' \in n .. Blocks /\ (nextSeq' = n \/ nextSeq' <= b + w)
      /\ phase' \in {"done", "end", "ack"}
      /\ Len(toReceiver) <= Len(toReceiver') /\ Len(toReceiver') \in Nat
      /\ \A i \in 1 .. Len(toReceiver) : toReceiver'[i] = toReceiver[i]
      /\ \A i \in Len(toReceiver) + 1 .. Len(toReceiver') :
           \/ /\ toReceiver'[i].kind = "DATA" /\ toReceiver'[i].seq < nextSeq'
              /\ toReceiver'[i].seq = n + (i - Len(toReceiver)) - 1
           \/ toReceiver'[i].kind = "ERR"
           \/ toReceiver'[i].kind = "DONE" /\ AllAcked(b) /\ phase' = "done"
  BY FillLines
<1>4. ~Waiting'
  BY <1>3 DEF Waiting
<1>5. Positions'
  <2>1. WindowSize \in Nat
    BY TransferAssumption
  <2>2. expected <= nextSeq' /\ nextSeq' <= b + WindowSize
    BY <1>2, <1>3, <2>1
  <2>3. drops > 0 => \/ nextSeq' > expected + drops
                     \/ b = expected /\ nextSeq' <= expected + 1
    BY <1>2, <1>3
  <2>4. phase' \notin {"ready", "resume"}
    BY <1>3
  <2>5. drops < WindowSize
    BY <1>1 DEF Positions
  <2>6. QED
    BY <1>3, <2>2, <2>3, <2>4, <2>5 DEF Positions
<1>6. ASSUME NEW i \in 1 .. Len(toReceiver') PROVE Sent(toReceiver[i])'
  <2>1. CASE i \in 1 .. Len(toReceiver)
    <3>1. toReceiver'[i] = toReceiver[i] /\ Sent(toReceiver[i])
      BY <1>1, <1>3, <2>1 DEF ToReceiverInv
    <3>2. PICK m : m = toReceiver[i] /\ m.seq \in Nat
      BY <1>2, <2>1
    <3>3. /\ m.kind \in Frames => m.seq < n /\ (m.seq = expected \/ m.seq > expected + drops)
          /\ m.kind \notin Verdict \cup {"RST"} /\ (m.kind = "BARRIER" => m.tok <= token)
      BY <2>1, <3>1, <3>2 DEF Sent
    <3>4. base' <= expected /\ n <= nextSeq' /\ nextSeq' \in Nat
      BY <1>3
    <3>5. toReceiver'[i] = m /\ UNCHANGED <<expected, drops, token>>
      BY <3>1, <3>2
    <3>6. QED
      BY <3>2, <3>3, <3>4, <3>5 DEF Sent
  <2>2. CASE i \in Len(toReceiver) + 1 .. Len(toReceiver')
    <3>1. CASE toReceiver'[i].kind = "DATA"
      <4>1. /\ toReceiver'[i].seq < nextSeq'
            /\ toReceiver'[i].seq = n + (i - Len(toReceiver)) - 1
        BY <1>3, <2>2, <3>1
      <4>2. toReceiver'[i].seq >= n /\ toReceiver'[i].seq \in Nat
        BY <1>2, <1>3, <2>2, <4>1
      <4>3. toReceiver'[i].seq = expected \/ toReceiver'[i].seq > expected + drops
        <5>1. CASE drops = 0
          BY <1>2, <4>2, <5>1
        <5>2. CASE n > expected + drops
          BY <1>2, <4>2, <5>2
        <5>3. CASE b = expected /\ n = expected /\ w = 1
          <6>1. nextSeq' \in Nat /\ nextSeq' <= expected + 1
            BY <1>2, <1>3, <5>3
          <6>2. \A q, m, e \in Nat : q < m /\ m <= e + 1 /\ q >= e => q = e
            OBVIOUS
          <6>3. toReceiver'[i].seq < nextSeq' /\ toReceiver'[i].seq >= expected
            BY <4>1, <4>2, <5>3
          <6>4. QED
            BY <1>2, <4>2, <6>1, <6>2, <6>3
        <5>4. QED
          BY <5>1, <5>2, <5>3
      <4>4. QED
        BY <1>3, <3>1, <4>1, <4>3 DEF Sent
    <3>2. CASE toReceiver'[i].kind = "DONE"
      <4>1. AllAcked(b) /\ phase' = "done"
        BY <1>3, <2>2, <3>2
      <4>2. expected = Blocks
        BY <1>2, <4>1, TransferAssumption DEF AllAcked
      <4>3. QED
        BY <3>2, <4>1, <4>2 DEF Sent
    <3>3. QED
      BY <1>3, <2>2, <3>1, <3>2 DEF Sent
  <2>3. QED
    BY <1>2, <1>3, <2>1, <2>2
<1>7. ASSUME NEW i \in 1 .. Len(toReceiver'), NEW j \in 1 .. Len(toReceiver'), i < j
      PROVE  Ahead(toReceiver[i], toReceiver[j])'
  <2>1. CASE j \in 1 .. Len(toReceiver)
    <3>1. i \in 1 .. Len(toReceiver)
      BY <1>2, <1>3, <1>7, <2>1
    <3>2. Ahead(toReceiver[i], toReceiver[j])
          /\ toReceiver'[i] = toReceiver[i] /\ toReceiver'[j] = toReceiver[j]
      BY <1>1, <1>3, <1>7, <2>1, <3>1 DEF ToReceiverInv
    <3>3. QED
      BY <1>4, <3>2 DEF Ahead
  <2>2. CASE i \in 1 .. Len(toReceiver) /\ j \in Len(toReceiver) + 1 .. Len(toReceiver')
    <3>1. /\ toReceiver'[i] = toReceiver[i] /\ toReceiver[i].kind # "RST"
          /\ toReceiver[i].kind \in Frames => toReceiver[i].seq < n
      BY <1>3, <2>2
    <3>2. toReceiver'[j].kind \in Frames =>
            toReceiver'[j].seq = n + (j - Len(toReceiver)) - 1
      BY <1>3, <2>2
    <3>3. QED
      <4>1. toReceiver[i].seq \in Nat /\ n + (j - Len(toReceiver)) - 1 >= n
        BY <1>2, <2>2
      <4>2. /\ toReceiver'[i].kind # "RST"
            /\ toReceiver'[i].kind \in Frames /\ toReceiver'[j].kind \in Frames =>
                 toReceiver'[i].seq < toReceiver'[j].seq
        BY <3>1, <3>2, <4>1
      <4>3. QED
        BY <1>4, <4>2 DEF Ahead
  <2>3. CASE i \in Len(toReceiver) + 1 .. Len(toReceiver')
    <3>1. j \in Len(toReceiver) + 1 .. Len(toReceiver')
      BY <1>2, <1>7, <2>3
    <3>2. /\ toReceiver'[i].kind \in Frames =>
               toReceiver'[i].seq = n + (i - Len(toReceiver)) - 1
          /\ toReceiver'[j].kind \in Frames =>
               toReceiver'[j].seq = n + (j - Len(toReceiver)) - 1
          /\ toReceiver'[i].kind # "RST"
      BY <1>3, <2>3, <3>1
    <3>3. QED
      BY <1>2, <1>4, <1>7, <2>3, <3>1, <3>2 DEF Ahead
  <2>4. QED
    BY <1>2, <1>3, <2>1, <2>2, <2>3
<1>8. PICK d \in {0, 1} : /\ Len(toSender') = Len(toSender) - d
                          /\ \A i \in 1 .. Len(toSender') : toSender'[i] = toSender[i + d]
  BY DEF Consumed
<1>9. ASSUME NEW i \in 1 .. Len(toSender') PROVE Said(toSender[i])'
  <2>1. i + d \in 1 .. Len(toSender) /\ toSender'[i] = toSender[i + d]
    BY <1>2, <1>8
  <2>2. Said(toSender[i + d]) /\ ~Resumes(toSender[i])'
    BY <1>1, <1>4, <2>1 DEF ToSenderInv, Resumes
  <2>3. QED
    BY <2>1, <2>2 DEF Said
<1>10. ToSenderInv' /\ QuietInv'
  BY <1>4, <1>9 DEF ToSenderInv, SaidAhead, QuietInv, Resumes
<1>11. QED
  BY <1>5, <1>6, <1>7, <1>10 DEF FlightInv, ToReceiverInv

(* What a sender step reads and leaves alone. *)
SenderReads == (TakeReply \/ NoReply) /\ Consumed /\ UNCHANGED <<receiverVars, setting>>

(* What every action of the sender reads. *)
LEMMA SenderStepReads ==
  ASSUME TypeOK, SenderStep
  PROVE  SenderReads
<1>1. TakeReply \/ NoReply
  BY DEF SenderStep, RecvReady, GiveUp, RecvWindowReply, AckTimeout, RecvInGuard,
         GuardTimeout, RecvProbeReply, ProbeTimeout, ConfirmReset, RecvOtherResetReply,
         ResetTimeout, ResumeFlight, ResumeFromZero, RecvOtherBarrierReply,
         BarrierTimeout, RecvFinal
<1>2. QED
  BY <1>1, ReplyConsumed DEF SenderReads

(* The outcomes of a sender action that start no flight. *)
LEMMA AbortKeeps ==
  ASSUME TypeOK, FlightInv, ~Repeats, SenderReads,
         NEW why, NEW confirmed, Abort(why, confirmed)
  PROVE  FlightInv'
<1>1. Word("ERR") \in ToReceiverLine /\ Word("ERR").kind = "ERR"
  BY SentLineType DEF SenderKinds, Word, Line
<1>2. /\ UNCHANGED <<base, nextSeq, token, cwnd>> /\ phase' = "end"
      /\ toReceiver' = Append(toReceiver, Word("ERR"))
  BY DEF Abort, windowVars, Send
<1>3. token \in Nat /\ cwnd \in Nat /\ cwnd <= WindowSize
  BY DEF TypeOK, SenderTypeOK, FlightInv, Positions
<1>4. ~Waiting'
  BY <1>2 DEF Waiting
<1>5. QED
  BY <1>1, <1>2, <1>3, <1>4, SenderSpeaks DEF SenderReads, Undone, Closing

LEMMA SilenceKeeps ==
  ASSUME TypeOK, FlightInv, ~Repeats, SenderReads, phase # "ready",
         UNCHANGED <<base, nextSeq, token, toReceiver>>,
         cwnd' \in {1, cwnd},
         \/ UNCHANGED <<phase, cwnd>>
         \/ phase \notin Undone \cup Closing /\ phase' \in {"guard", "reguard"}
         \/ phase' = "end"
  PROVE  FlightInv'
<1>1. token \in Nat /\ cwnd' \in Nat /\ cwnd' <= WindowSize /\ Word("ERR") \in ToReceiverLine
  BY SentLineType, TransferAssumption
  DEF TypeOK, SenderTypeOK, FlightInv, Positions, SenderKinds
<1>2. phase' = "resume" => cwnd' = 1
  BY DEF FlightInv, Positions
<1>3. QED
  BY <1>1, <1>2, SenderSpeaks DEF SenderReads, Undone, Closing, Waiting

LEMMA BarrierKeeps ==
  ASSUME TypeOK, FlightInv, ~Repeats, SenderReads, NEW after, NEW confirmed,
         StartBarrier(after, confirmed),
         \/ after = "resume" /\ phase \notin Undone \cup Closing /\ cwnd' = 1
         \/ after = "restart" /\ phase \notin Closing /\ cwnd' = cwnd
  PROVE  FlightInv'
<1>1. /\ token \in Nat /\ cwnd' \in Nat /\ cwnd' <= WindowSize
      /\ Ask("BARRIER", token + 1) \in ToReceiverLine
  BY AskType, TransferAssumption DEF TypeOK, SenderTypeOK, FlightInv, Positions
<1>2. /\ UNCHANGED <<base, nextSeq>> /\ phase' = after /\ token' = token + 1
      /\ toReceiver' = Append(toReceiver, Ask("BARRIER", token + 1))
  BY DEF StartBarrier, Send
<1>3. token + 1 \in Nat /\ token + 1 # token /\ token <= token + 1 /\ token + 1 <= token + 1
  BY <1>1
<1>4. Ask("BARRIER", token + 1).kind = "BARRIER" /\ Ask("BARRIER", token + 1).tok = token + 1
  BY DEF Ask, Line
<1>5. QED
  BY <1>1, <1>2, <1>3, <1>4, SenderSpeaks DEF SenderReads, Undone, Closing

LEMMA RestartFileKeeps ==
  ASSUME TypeOK, FlightInv, ~Repeats, SenderReads, phase \notin Closing,
         NEW confirmed, RestartFile(confirmed)
  PROVE  FlightInv'
  BY AbortKeeps, BarrierKeeps DEF RestartFile, FromTheStart

LEMMA RecoverFlightKeeps ==
  ASSUME TypeOK, FlightInv, ~Repeats, SenderReads, phase \notin Undone \cup Closing, RecoverFlight
  PROVE  FlightInv'
  BY BarrierKeeps DEF RecoverFlight, WindowAfterLoss

(* An acknowledgement: every block it commits was written. *)
LEMMA AcknowledgeKeeps ==
  ASSUME TypeOK, FlightInv, ~Repeats, SenderReads, TakeReply,
         phase \notin Undone \cup Closing \cup {"ready"}, ~Waiting,
         Reply.kind = "ACK", Reply.seq \in base .. nextSeq - 1, Acknowledge(Reply.seq)
  PROVE  FlightInv'
<1> DEFINE b == Reply.seq + 1
           w == IF cleanAcks + 1 >= FlowGrowAcks THEN WindowSize ELSE cwnd
<1>1. /\ base \in Nat /\ nextSeq \in 0 .. Blocks /\ Blocks \in Nat /\ cwnd \in Nat \ {0}
      /\ WindowSize \in Nat \ {0}
  BY TransferAssumption DEF TypeOK, SenderTypeOK
<1>2. expected \in Nat /\ drops \in Nat
  BY TransferAssumption DEF TypeOK, ReceiverTypeOK
<1>3. Positions /\ ToReceiverInv /\ ToSenderInv
  BY DEF FlightInv
<1>4. Reply.seq < expected /\ Reply.seq \in Nat
  BY <1>1, ReplyIsSaid DEF Said
<1>5. b \in 0 .. Blocks /\ b <= expected /\ base < b
  BY <1>1, <1>2, <1>4
<1>6. w \in Nat \ {0} /\ w <= WindowSize
  BY <1>1, <1>3 DEF Positions
<1>7. Fill(b, nextSeq, w) /\ UNCHANGED token
  BY DEF Acknowledge, askVars
<1>8. expected <= nextSeq /\ nextSeq <= b + WindowSize
  BY <1>1, <1>2, <1>3, <1>5 DEF Positions
<1>9. drops = 0 \/ nextSeq > expected + drops
  BY <1>1, <1>2, <1>3, <1>5 DEF Positions
<1>10. \A i \in 1 .. Len(toReceiver) :
         /\ toReceiver[i].kind \notin Verdict \cup {"RST"}
         /\ toReceiver[i].kind \in Frames => toReceiver[i].seq < nextSeq
  BY <1>3 DEF ToReceiverInv, Sent, Verdict
<1>11. \A i \in 1 .. Len(toSender') : toSender'[i].kind = "ACK" => toSender'[i].seq < expected
  <2>1. toSender # <<>> /\ toSender' = Tail(toSender) /\ toSender \in Seq(ToSenderLine)
    BY DEF TakeReply, TypeOK, ToSenderOK
  <2>2. /\ Len(toSender) \in Nat \ {0} /\ Len(toSender') = Len(toSender) - 1
        /\ \A i \in 1 .. Len(toSender') : toSender'[i] = toSender[i + 1]
    BY <2>1, TailElements
  <2>3. \A i \in 1 .. Len(toSender) : toSender[i].kind = "ACK" => toSender[i].seq < expected
    BY <1>3 DEF ToSenderInv, Said
  <2>4. QED
    BY <2>2, <2>3
<1> HIDE DEF b, w
<1>12. QED
  BY <1>1, <1>5, <1>6, <1>7, <1>8, <1>9, <1>10, <1>11, FillKeeps DEF SenderReads

(* Every branch of the reply's interpretation. *)
LEMMA InterpretKeeps ==
  ASSUME TypeOK, FlightInv, ~Repeats, SenderReads, TakeReply,
         phase \notin Undone \cup Closing \cup {"ready"}, ~Waiting,
         NEW late, Interpret(Reply, late)
  PROVE  FlightInv'
<1>1. Reply.kind # "RST"
  BY ReplyIsSaid DEF Said
<1>2. CASE \E why : Fail(why)
  BY <1>2, AbortKeeps DEF Fail
<1>3. CASE KeepWaiting
  BY <1>3, SilenceKeeps DEF KeepWaiting, askVars, windowVars
<1>4. CASE Reply.kind = "ACK" /\ Reply.seq \in base .. nextSeq - 1 /\ Acknowledge(Reply.seq)
  BY <1>4, AcknowledgeKeeps
<1>5. CASE RecoverFlight
  BY <1>5, RecoverFlightKeeps
<1>6. QED
  BY <1>1, <1>2, <1>3, <1>4, <1>5 DEF Interpret

(* The barrier's answer: the line is quiet and the position is current.    *)
LEMMA ResumeFlightKeeps ==
  ASSUME TypeOK, FlightInv, ~Repeats, SenderReads, ResumeFlight
  PROVE  FlightInv'
<1>1. TakeReply /\ phase = "resume" /\ Waiting /\ Resumes(Reply)
  BY DEF ResumeFlight, Waiting, Resumes
<1>2. Quiet /\ Reply.seq = expected
      /\ \A i \in 1 .. Len(toSender') : toSender'[i].kind # "ACK"
  BY <1>1, ReplyIsSaid DEF Said, SaidAhead
<1>3. CASE \E why : Fail(why)
  BY <1>3, AbortKeeps DEF Fail
<1>4. CASE expected \in base .. nextSeq /\ Fill(expected, expected, cwnd) /\ UNCHANGED askVars
  <2>1. expected \in 0 .. Blocks /\ drops \in Nat /\ cwnd = 1 /\ WindowSize \in Nat \ {0}
    BY <1>1, TransferAssumption DEF TypeOK, ReceiverTypeOK, FlightInv, Positions
  <2>2. expected <= expected + WindowSize /\ cwnd <= WindowSize
    BY <2>1, TransferAssumption
  <2>3. \A i \in 1 .. Len(toReceiver) :
          /\ toReceiver[i].kind \notin Verdict \cup {"RST"}
          /\ toReceiver[i].kind \in Frames => toReceiver[i].seq < expected
    BY <1>2 DEF Quiet, Verdict, Frames
  <2>4. QED
    BY <1>2, <1>4, <2>1, <2>2, <2>3, FillKeeps DEF SenderReads, askVars
<1>5. QED
  BY <1>2, <1>3, <1>4 DEF ResumeFlight

(* The same after a reset, where the position is 0. *)
LEMMA ResumeFromZeroKeeps ==
  ASSUME TypeOK, FlightInv, ~Repeats, SenderReads, ResumeFromZero
  PROVE  FlightInv'
<1>1. TakeReply /\ phase = "restart" /\ Waiting /\ Resumes(Reply)
  BY DEF ResumeFromZero, Waiting, Resumes
<1>2. Quiet /\ Reply.seq = expected
      /\ \A i \in 1 .. Len(toSender') : toSender'[i].kind # "ACK"
  BY <1>1, ReplyIsSaid DEF Said, SaidAhead
<1>3. CASE \E why : Fail(why)
  BY <1>3, AbortKeeps DEF Fail
<1>4. CASE Reply.seq = 0
  <2>1. /\ expected = 0 /\ phase' = "ack" /\ base' = 0 /\ nextSeq' = 1 /\ cwnd' = 1
        /\ toReceiver' = Append(toReceiver, About("DATA", 0))
        /\ UNCHANGED <<token, expected, drops>> /\ ~Waiting'
    BY <1>2, <1>4 DEF ResumeFromZero, Send, askVars, SenderReads, receiverVars, Waiting
  <2>2. WindowSize \in Nat \ {0} /\ drops \in Nat /\ token \in Nat
    BY TransferAssumption DEF TypeOK, ReceiverTypeOK, SenderTypeOK
  <2>3. toReceiver \in Seq(ToReceiverLine) /\ About("DATA", 0) \in ToReceiverLine
        /\ About("DATA", 0).kind = "DATA" /\ About("DATA", 0).seq = 0
    BY SentLineType, TransferAssumption
    DEF SenderKinds, Frames, Seqs, TypeOK, ToReceiverOK, About, Line
  <2>4. /\ Len(toReceiver) \in Nat /\ Len(toReceiver') = Len(toReceiver) + 1
        /\ \A i \in 1 .. Len(toReceiver) : toReceiver'[i] = toReceiver[i]
        /\ toReceiver'[Len(toReceiver) + 1] = About("DATA", 0)
    BY <2>1, <2>3, AppendProperties, LenProperties
  <2>5. Positions'
    BY <2>1, <2>2 DEF FlightInv, Positions, Undone
  <2>6. ASSUME NEW i \in 1 .. Len(toReceiver') PROVE Sent(toReceiver[i])'
    <3>1. CASE i \in 1 .. Len(toReceiver)
      BY <1>2, <2>1, <2>4, <3>1
      DEF Quiet, FlightInv, ToReceiverInv, Sent, Frames, Verdict, Undone, Closing
    <3>2. CASE i = Len(toReceiver) + 1
      BY <2>1, <2>3, <2>4, <3>2 DEF Sent, Verdict
    <3>3. QED
      BY <2>4, <3>1, <3>2
  <2>7. ASSUME NEW i \in 1 .. Len(toReceiver'), NEW j \in 1 .. Len(toReceiver'), i < j
        PROVE  Ahead(toReceiver[i], toReceiver[j])'
    <3>1. i \in 1 .. Len(toReceiver)
      BY <2>4, <2>7
    <3>2. toReceiver'[i].kind \in {"BARRIER", "JUNK"}
      BY <1>2, <2>4, <3>1 DEF Quiet
    <3>3. QED
      BY <2>1, <3>2 DEF Ahead, Frames
  <2>8. ToSenderInv' /\ QuietInv'
    <3>1. ASSUME NEW i \in 1 .. Len(toSender') PROVE Said(toSender[i])'
      <4>1. toSender'[i].kind # "ACK"
        BY <1>2
      <4>2. PICK j \in 1 .. Len(toSender) : toSender'[i] = toSender[j]
        BY LineTypes DEF SenderReads, Consumed
      <4>3. Said(toSender[j]) /\ ~Resumes(toSender[i])'
        BY <2>1 DEF FlightInv, ToSenderInv, Resumes
      <4>4. QED
        BY <2>1, <4>1, <4>2, <4>3 DEF Said
    <3>2. QED
      BY <2>1, <3>1 DEF ToSenderInv, SaidAhead, QuietInv, Resumes
  <2>9. QED
    BY <2>5, <2>6, <2>7, <2>8 DEF FlightInv, ToReceiverInv
<1>5. QED
  BY <1>3, <1>4 DEF ResumeFromZero

(* A question that is put again, or the next one. *)
LEMMA AskKeeps ==
  ASSUME TypeOK, FlightInv, ~Repeats, SenderReads, phase # "ready",
         NEW kind \in {"AYT", "RST", "BARRIER"}, NEW tok \in {token, token + 1},
         UNCHANGED <<base, nextSeq, cwnd>>, token' = tok, Send(Ask(kind, tok)),
         \/ UNCHANGED phase /\ (Waiting => kind = "BARRIER" /\ tok = token)
         \/ phase \notin Undone \cup Closing /\ phase' \in {"probe", "reset"},
         kind = "RST" => phase' \in Undone
  PROVE  FlightInv'
<1>1. /\ token \in Nat /\ cwnd \in Nat /\ cwnd <= WindowSize
      /\ Ask(kind, tok) \in ToReceiverLine
      /\ Ask(kind, tok).kind = kind /\ Ask(kind, tok).tok = tok
  BY AskType DEF TypeOK, SenderTypeOK, FlightInv, Positions, Ask, Line
<1>2. token' \in Nat /\ token <= token' /\ tok <= token'
  BY <1>1
<1>3. phase' = "resume" => cwnd' = 1
  BY DEF FlightInv, Positions
<1>4. Waiting' => Waiting /\ kind = "BARRIER"
  BY DEF Waiting
<1>5. toReceiver' = Append(toReceiver, Ask(kind, tok))
  BY DEF Send
<1>6. QED
  BY <1>1, <1>2, <1>3, <1>4, <1>5, SenderSpeaks DEF SenderReads, Undone, Closing

(* The first window. *)
LEMMA RecvReadyKeeps ==
  ASSUME TypeOK, FlightInv, ~Repeats, SenderReads, RecvReady
  PROVE  FlightInv'
<1>1. phase = "ready" /\ TakeReply
  BY DEF RecvReady
<1>2. Positions /\ ToReceiverInv /\ ToSenderInv
  BY DEF FlightInv
<1>3. /\ expected \in Nat /\ drops \in Nat /\ base \in Nat /\ nextSeq \in Nat
      /\ WindowSize \in Nat \ {0} /\ Blocks \in Nat
  BY TransferAssumption DEF TypeOK, ReceiverTypeOK, SenderTypeOK
<1>4. nextSeq = 0 /\ expected = 0 /\ base = 0
  BY <1>1, <1>2, <1>3 DEF Positions, Undone
<1>5. CASE Fill(0, 0, 1) /\ UNCHANGED token
  <2>1. \A i \in 1 .. Len(toReceiver) :
          /\ toReceiver[i].kind \notin Verdict \cup {"RST"}
          /\ toReceiver[i].kind \in Frames => toReceiver[i].seq < 0
    BY <1>1, <1>2, <1>4 DEF ToReceiverInv, Sent, Verdict, Closing, Undone
  <2>2. \A i \in 1 .. Len(toSender') : toSender'[i].kind = "ACK" => toSender'[i].seq < expected
    <3>1. \A i \in 1 .. Len(toSender) : toSender[i].kind = "ACK" => toSender[i].seq < expected
      BY <1>1, <1>2 DEF ToSenderInv, Said, Undone
    <3>2. QED
      BY <3>1, LineTypes DEF SenderReads, Consumed
  <2>3. 0 \in 0 .. Blocks /\ 1 \in Nat \ {0} /\ 1 <= WindowSize /\ 0 <= 0 + WindowSize
    BY <1>3
  <2>4. QED
    BY <1>3, <1>4, <1>5, <2>1, <2>2, <2>3, FillKeeps DEF SenderReads
<1>6. CASE phase' = "end" /\ UNCHANGED <<askVars, windowVars, toReceiver>>
  <2>1. /\ token \in Nat /\ cwnd \in Nat /\ cwnd <= WindowSize /\ Word("ERR") \in ToReceiverLine
        /\ UNCHANGED <<base, nextSeq, token, cwnd>>
    BY <1>2, <1>6, SentLineType
    DEF TypeOK, SenderTypeOK, Positions, SenderKinds, askVars, windowVars
  <2>2. QED
    BY <1>1, <1>6, <2>1, SenderSpeaks DEF SenderReads, Undone, Closing, Waiting
<1>7. QED
  BY <1>5, <1>6 DEF RecvReady, askVars

(* Every action of the sender. *)
LEMMA SenderStepKeeps ==
  ASSUME TypeOK, FlightInv, ~Repeats, SenderStep
  PROVE  FlightInv'
<1>1. SenderReads
  BY SenderStepReads
<1>2. CASE RecvReady \/ ResumeFlight \/ ResumeFromZero
  BY <1>1, <1>2, RecvReadyKeeps, ResumeFlightKeeps, ResumeFromZeroKeeps
<1>3. CASE GiveUp
  <2>1. CASE phase = "ready"
    <3>1. /\ token \in Nat /\ cwnd \in Nat /\ cwnd <= WindowSize /\ Word("ERR") \in ToReceiverLine
          /\ UNCHANGED <<base, nextSeq, token, cwnd, toReceiver>> /\ phase' = "end"
      BY <1>3, SentLineType
      DEF GiveUp, TypeOK, SenderTypeOK, FlightInv, Positions, SenderKinds, askVars, windowVars
    <3>2. QED
      BY <1>1, <2>1, <3>1, SenderSpeaks DEF SenderReads, Undone, Closing, Waiting
  <2>2. CASE phase # "ready"
    BY <1>1, <1>3, <2>2, SilenceKeeps DEF GiveUp, askVars, windowVars
  <2>3. QED
    BY <2>1, <2>2
<1>4. CASE RecvWindowReply
  <2>1. phase = "ack" /\ TakeReply /\ phase \notin Undone \cup Closing \cup {"ready"} /\ ~Waiting
    BY <1>4 DEF RecvWindowReply, Undone, Closing, Waiting
  <2>2. CASE KeepWaiting
    BY <1>1, <2>1, <2>2, SilenceKeeps DEF KeepWaiting, askVars, windowVars
  <2>3. CASE EnterGuard("reguard") /\ UNCHANGED cwnd
    BY <1>1, <2>1, <2>3, SilenceKeeps DEF EnterGuard, askVars
  <2>4. CASE \E late \in Lateness : Interpret(Reply, late)
    BY <1>1, <2>1, <2>4, InterpretKeeps
  <2>5. QED
    BY <1>4, <2>2, <2>3, <2>4 DEF RecvWindowReply
<1>5. CASE AckTimeout
  BY <1>1, <1>5, SilenceKeeps DEF AckTimeout, EnterGuard, askVars, Undone, Closing
<1>6. CASE RecvInGuard
  <2>1. /\ phase \in {"guard", "reguard"} /\ TakeReply
        /\ phase \notin Undone \cup Closing \cup {"ready"} /\ ~Waiting
    BY <1>6 DEF RecvInGuard, Undone, Closing, Waiting
  <2>2. CASE EnterGuard("reguard") /\ UNCHANGED cwnd
    BY <1>1, <2>1, <2>2, SilenceKeeps DEF EnterGuard, askVars
  <2>3. CASE Interpret(Reply, TRUE)
    BY <1>1, <2>1, <2>3, InterpretKeeps
  <2>4. QED
    BY <1>6, <2>2, <2>3 DEF RecvInGuard
<1>7. CASE GuardTimeout
  BY <1>1, <1>7, AskKeeps DEF GuardTimeout, windowVars, Undone, Closing
<1>8. CASE RecvProbeReply
  <2>1. phase = "probe" /\ TakeReply /\ phase \notin Undone \cup Closing \cup {"ready"} /\ ~Waiting
    BY <1>8 DEF RecvProbeReply, Undone, Closing, Waiting
  <2>2. CASE KeepWaiting
    BY <1>1, <2>1, <2>2, SilenceKeeps DEF KeepWaiting, askVars, windowVars
  <2>3. CASE RecoverFlight \/ Interpret(Reply, TRUE)
    BY <1>1, <2>1, <2>3, RecoverFlightKeeps, InterpretKeeps
  <2>4. QED
    BY <1>8, <2>2, <2>3 DEF RecvProbeReply
<1>9. CASE ProbeTimeout
  <2>1. /\ phase = "probe" /\ token' = token + 1 /\ UNCHANGED <<base, nextSeq, cwnd>>
        /\ phase \notin Undone \cup Closing \cup {"ready"} /\ ~Waiting
    BY <1>9 DEF ProbeTimeout, windowVars, Undone, Closing, Waiting
  <2>2. CASE Send(Ask("AYT", token + 1)) /\ UNCHANGED phase
    BY <1>1, <2>1, <2>2, AskKeeps
  <2>3. CASE Send(Ask("RST", token + 1)) /\ phase' = "reset"
    BY <1>1, <2>1, <2>3, AskKeeps DEF Undone
  <2>4. QED
    BY <1>9, <2>2, <2>3 DEF ProbeTimeout
<1>10. CASE ConfirmReset
  BY <1>1, <1>10, RestartFileKeeps DEF ConfirmReset, Closing
<1>11. CASE RecvOtherResetReply
  BY <1>1, <1>11, SilenceKeeps, AbortKeeps
  DEF RecvOtherResetReply, KeepWaiting, Fail, askVars, windowVars
<1>12. CASE ResetTimeout
  BY <1>1, <1>12, AskKeeps, AbortKeeps DEF ResetTimeout, Fail, windowVars, Undone, Waiting
<1>13. CASE RecvOtherBarrierReply
  BY <1>1, <1>13, SilenceKeeps, AbortKeeps
  DEF RecvOtherBarrierReply, KeepWaiting, Fail, askVars, windowVars
<1>14. CASE BarrierTimeout
  BY <1>1, <1>14, AskKeeps, AbortKeeps DEF BarrierTimeout, Fail, windowVars
<1>15. CASE RecvFinal
  BY <1>1, <1>15, SilenceKeeps DEF RecvFinal, KeepWaiting, askVars, windowVars
<1>16. QED
  BY <1>2, <1>3, <1>4, <1>5, <1>6, <1>7, <1>8, <1>9, <1>10, <1>11, <1>12, <1>13, <1>14,
     <1>15 DEF SenderStep

-----------------------------------------------------------------------------
(* The receiver and the line.                                               *)

(* A line that was damaged, or none. *)
Weaker(m, old) ==
  \/ m = old
  \/ m.kind = "JUNK"
  \/ m.kind = "METABAD" /\ old.kind = "META"
  \/ m.kind \in Frames /\ old.kind \in Frames /\ m.seq = old.seq
  \/ m.kind \in Verdict /\ old.kind \in Verdict

(* At most one line was taken and the first one damaged. *)
ThinnedBy(d) ==
  /\ Len(toReceiver') = Len(toReceiver) - d
  /\ \A i \in 2 .. Len(toReceiver') : toReceiver'[i] = toReceiver[i + d]
  /\ Len(toReceiver') > 0 =>
       \/ Weaker(toReceiver'[1], toReceiver[1])
       \/ toReceiver'[1] = toReceiver[1 + d]
Thinned == ThinnedBy(0) \/ ThinnedBy(1)
SparedBy(d) ==
  /\ Len(toSender') = Len(toSender) - d
  /\ \A i \in 1 .. Len(toSender') :
       toSender'[i] = toSender[i + d] \/ toSender'[i].kind = "JUNK"
Spared == SparedBy(0) \/ SparedBy(1)

Resuming == \E i \in 1 .. Len(toSender) : Resumes(toSender[i])

(* A line put in front of others, element by element. *)
LEMMA Prepended ==
  ASSUME NEW S, NEW m \in S, NEW s \in Seq(S)
  PROVE  /\ Len(<<m>> \o s) = Len(s) + 1 /\ (<<m>> \o s)[1] = m
         /\ \A i \in 1 .. Len(s) : (<<m>> \o s)[i + 1] = s[i]
<1>1. <<m>> \in Seq(S) /\ Len(<<m>>) = 1 /\ <<m>>[1] = m
  OBVIOUS
<1>2. Len(s) \in Nat
  BY LenProperties
<1>3. Len(<<m>> \o s) = Len(s) + 1 /\ (<<m>> \o s)[1] = m
  BY <1>1, <1>2, ConcatProperties
<1>4. ASSUME NEW i \in 1 .. Len(s) PROVE (<<m>> \o s)[i + 1] = s[i]
  <2>1. i + 1 \in 1 .. Len(<<m>>) + Len(s) /\ ~(i + 1 <= Len(<<m>>)) /\ (i + 1) - Len(<<m>>) = i
    BY <1>1, <1>2
  <2>2. QED
    BY <1>1, <2>1, ConcatProperties
<1>5. QED
  BY <1>3, <1>4

(* One line in place of the first, and in place of the first two. *)
LEMMA HeadReplaced ==
  ASSUME NEW S, NEW m \in S, NEW s \in Seq(S), s # <<>>
  PROVE  /\ Len(<<m>> \o Tail(s)) = Len(s) /\ (<<m>> \o Tail(s))[1] = m
         /\ \A i \in 2 .. Len(s) : (<<m>> \o Tail(s))[i] = s[i]
<1>1. PICK t : t = Tail(s)
  OBVIOUS
<1>2. /\ Len(s) \in Nat \ {0} /\ Len(t) = Len(s) - 1 /\ t \in Seq(S)
      /\ \A i \in 1 .. Len(t) : t[i] = s[i + 1]
  BY <1>1, TailElements, HeadTailProperties
<1>3. PICK r : r = <<m>> \o t
  OBVIOUS
<1>4. /\ Len(r) = Len(t) + 1 /\ r[1] = m
      /\ \A i \in 1 .. Len(t) : r[i + 1] = t[i]
  BY <1>2, <1>3, Prepended
<1>5. ASSUME NEW i \in 2 .. Len(s) PROVE r[i] = s[i]
  <2>1. i - 1 \in 1 .. Len(t) /\ (i - 1) + 1 = i
    BY <1>2
  <2>2. QED
    BY <1>2, <1>4, <2>1
<1>6. Len(r) = Len(s)
  BY <1>2, <1>4
<1>7. QED
  BY <1>1, <1>3, <1>4, <1>5, <1>6

LEMMA TwoReplaced ==
  ASSUME NEW S, NEW m \in S, NEW s \in Seq(S), Len(s) > 1
  PROVE  /\ Len(<<m>> \o Tail(Tail(s))) = Len(s) - 1 /\ (<<m>> \o Tail(Tail(s)))[1] = m
         /\ \A i \in 2 .. Len(s) - 1 : (<<m>> \o Tail(Tail(s)))[i] = s[i + 1]
<1>1. PICK t : t = Tail(s)
  OBVIOUS
<1>2. /\ Len(s) \in Nat \ {0} /\ Len(t) = Len(s) - 1 /\ t \in Seq(S)
      /\ \A i \in 1 .. Len(t) : t[i] = s[i + 1]
  BY <1>1, NonEmpty, TailElements, HeadTailProperties
<1>3. t # <<>>
  BY <1>2, NonEmpty
<1>4. PICK r : r = <<m>> \o Tail(t)
  OBVIOUS
<1>5. Len(r) = Len(t) /\ r[1] = m /\ \A i \in 2 .. Len(t) : r[i] = t[i]
  BY <1>2, <1>3, <1>4, HeadReplaced
<1>6. \A i \in 2 .. Len(t) : t[i] = s[i + 1]
  BY <1>2
<1>7. Len(r) = Len(s) - 1 /\ r[1] = m /\ \A i \in 2 .. Len(s) - 1 : r[i] = s[i + 1]
  BY <1>2, <1>5, <1>6
<1>8. QED
  BY <1>1, <1>4, <1>7

(* A line of the same length stands where it stood. *)
LEMMA NoneGone ==
  ASSUME NEW s, NEW r, Len(s) \in Nat, Len(r) = Len(s), \A i \in 2 .. Len(s) : r[i] = s[i]
  PROVE  Len(r) = Len(s) - 0 /\ \A i \in 2 .. Len(r) : r[i] = s[i + 0]
  OBVIOUS

(* The ways a channel loses or gets damaged at its reader. *)
LEMMA LineThins ==
  ASSUME TypeOK, toReceiver # <<>>,
         \/ toReceiver' = Tail(toReceiver)
         \/ \E m \in ToReceiverLine : Weaker(m, Input) /\ toReceiver' = <<m>> \o Tail(toReceiver)
         \/ \E m \in ToReceiverLine : /\ Len(toReceiver) > 1 /\ Weaker(m, Input)
                                      /\ toReceiver' = <<m>> \o Tail(Tail(toReceiver))
         \/ Len(toReceiver) = 1 /\ toReceiver' = <<>>
  PROVE  Thinned
<1>1. toReceiver \in Seq(ToReceiverLine)
  BY DEF TypeOK, ToReceiverOK
<1>2. /\ Len(toReceiver) \in Nat \ {0} /\ Len(Tail(toReceiver)) = Len(toReceiver) - 1
      /\ \A i \in 1 .. Len(Tail(toReceiver)) : Tail(toReceiver)[i] = toReceiver[i + 1]
      /\ Input = toReceiver[1] /\ Tail(toReceiver) \in Seq(ToReceiverLine)
  BY <1>1, TailElements, HeadTailProperties DEF Input
<1>3. CASE toReceiver' = Tail(toReceiver)
  <2>1. ThinnedBy(1)
    BY <1>2, <1>3 DEF ThinnedBy
  <2>2. QED
    BY <2>1 DEF Thinned
<1>4. ASSUME NEW m \in ToReceiverLine, Weaker(m, Input), toReceiver' = <<m>> \o Tail(toReceiver)
      PROVE  Thinned
  <2>1. /\ Len(toReceiver') = Len(toReceiver) /\ toReceiver'[1] = m
        /\ \A i \in 2 .. Len(toReceiver) : toReceiver'[i] = toReceiver[i]
    BY <1>1, <1>4, HeadReplaced
  <2>2. Len(toReceiver') = Len(toReceiver) - 0
        /\ \A i \in 2 .. Len(toReceiver') : toReceiver'[i] = toReceiver[i + 0]
    BY <1>2, <2>1, NoneGone
  <2>3. ThinnedBy(0)
    BY <1>2, <1>4, <2>1, <2>2, Zenon DEF ThinnedBy
  <2>4. QED
    BY <2>3 DEF Thinned
<1>5. ASSUME NEW m \in ToReceiverLine, Weaker(m, Input), Len(toReceiver) > 1,
             toReceiver' = <<m>> \o Tail(Tail(toReceiver))
      PROVE  Thinned
  <2>1. /\ Len(toReceiver') = Len(toReceiver) - 1 /\ toReceiver'[1] = m
        /\ \A i \in 2 .. Len(toReceiver') : toReceiver'[i] = toReceiver[i + 1]
    <3>1. PICK r : r = <<m>> \o Tail(Tail(toReceiver))
      OBVIOUS
    <3>2. /\ Len(r) = Len(toReceiver) - 1 /\ r[1] = m
          /\ \A i \in 2 .. Len(toReceiver) - 1 : r[i] = toReceiver[i + 1]
      <4>1. toReceiver \in Seq(ToReceiverLine) /\ Len(toReceiver) > 1 /\ m \in ToReceiverLine
        BY <1>1, <1>5
      <4>2. QED
        BY <3>1, <4>1, TwoReplaced
    <3>3. toReceiver' = r
      BY <1>5, <3>1, Zenon
    <3>4. QED
      BY <3>2, <3>3
  <2>2. ThinnedBy(1)
    BY <1>2, <1>5, <2>1, Zenon DEF ThinnedBy
  <2>3. QED
    BY <2>2 DEF Thinned
<1>6. CASE Len(toReceiver) = 1 /\ toReceiver' = <<>>
  <2>1. Len(toReceiver') = 0
    BY <1>6
  <2>2. ThinnedBy(1)
    BY <1>6, <2>1 DEF ThinnedBy
  <2>3. QED
    BY <2>2 DEF Thinned
<1>7. QED
  BY <1>3, <1>4, <1>5, <1>6

LEMMA LineSpared ==
  ASSUME TypeOK,
         \/ UNCHANGED toSender
         \/ toSender # <<>> /\ toSender' = Tail(toSender)
         \/ toSender # <<>> /\ toSender' = <<Word("JUNK")>> \o Tail(toSender)
  PROVE  Spared
<1>1. toSender \in Seq(ToSenderLine) /\ Len(toSender) \in Nat
  BY LineTypes DEF TypeOK, ToSenderOK
<1>2. CASE UNCHANGED toSender
  <2>1. SparedBy(0)
    BY <1>1, <1>2 DEF SparedBy
  <2>2. QED
    BY <2>1 DEF Spared
<1>3. CASE toSender # <<>> /\ toSender' = Tail(toSender)
  <2>1. SparedBy(1)
    BY <1>1, <1>3, TailElements DEF SparedBy
  <2>2. QED
    BY <2>1 DEF Spared
<1>4. CASE toSender # <<>> /\ toSender' = <<Word("JUNK")>> \o Tail(toSender)
  <2>1. Word("JUNK") \in ToSenderLine /\ Word("JUNK").kind = "JUNK"
    BY AnswerLineType DEF ReceiverKinds, Word, Line
  <2>2. /\ Len(toSender') = Len(toSender) /\ toSender'[1] = Word("JUNK")
        /\ \A i \in 2 .. Len(toSender) : toSender'[i] = toSender[i]
    BY <1>1, <1>4, <2>1, HeadReplaced
  <2>3. Len(toSender') = Len(toSender) - 0
        /\ \A i \in 1 .. Len(toSender') :
             toSender'[i] = toSender[i + 0] \/ toSender'[i].kind = "JUNK"
    BY <1>1, <2>1, <2>2
  <2>4. SparedBy(0)
    BY <2>3 DEF SparedBy
  <2>5. QED
    BY <2>4 DEF Spared
<1>5. QED
  BY <1>2, <1>3, <1>4

(* Where a line stood that is still on its way. *)
LEMMA LinePlaced ==
  ASSUME TypeOK, NEW d \in {0, 1}, ThinnedBy(d), NEW i \in 1 .. Len(toReceiver')
  PROVE  \E k \in 1 .. Len(toReceiver) :
           Weaker(toReceiver'[i], toReceiver[k]) /\ (k = i + d \/ (i = 1 /\ k = 1))
<1>1. Len(toReceiver) \in Nat
  BY LineTypes
<1>2. CASE i = 1
  <2>1. 1 \in 1 .. Len(toReceiver) /\ Len(toReceiver') > 0
        /\ 1 + d \in 1 .. Len(toReceiver)
    BY <1>1, <1>2 DEF ThinnedBy
  <2>2. CASE Weaker(toReceiver'[1], toReceiver[1])
    BY <1>2, <2>1, <2>2
  <2>3. CASE toReceiver'[1] = toReceiver[1 + d]
    <3>1. Weaker(toReceiver'[1], toReceiver[1 + d])
      BY <2>3 DEF Weaker
    <3>2. QED
      BY <1>2, <2>1, <3>1
  <2>4. QED
    BY <2>1, <2>2, <2>3 DEF ThinnedBy
<1>3. CASE i # 1
  <2>1. i \in 2 .. Len(toReceiver') /\ i + d \in 1 .. Len(toReceiver)
    BY <1>1, <1>3 DEF ThinnedBy
  <2>2. Weaker(toReceiver'[i], toReceiver[i + d])
    BY <2>1 DEF ThinnedBy, Weaker
  <2>3. QED
    BY <2>1, <2>2
<1>4. QED
  BY <1>2, <1>3

(* What is left of the line keeps its order and its quiet. *)
LEMMA ThinKeepsOrder ==
  ASSUME TypeOK, ToReceiverInv, UNCHANGED senderVars, Thinned
  PROVE  /\ \A i, j \in 1 .. Len(toReceiver') : i < j => Ahead(toReceiver[i], toReceiver[j])'
         /\ Quiet => Quiet'
         /\ \A i \in 1 .. Len(toReceiver') :
              \E k \in 1 .. Len(toReceiver) : Weaker(toReceiver'[i], toReceiver[k])
<1>1. Len(toReceiver) \in Nat
  BY LineTypes
<1>2. PICK d \in {0, 1} : ThinnedBy(d)
  BY DEF Thinned
<1>3. ASSUME NEW i \in 1 .. Len(toReceiver')
      PROVE  \E k \in 1 .. Len(toReceiver) :
               Weaker(toReceiver'[i], toReceiver[k]) /\ (k = i + d \/ (i = 1 /\ k = 1))
  BY <1>2, LinePlaced
<1>4. ASSUME NEW i \in 1 .. Len(toReceiver'), NEW j \in 1 .. Len(toReceiver'), i < j
      PROVE  Ahead(toReceiver[i], toReceiver[j])'
  <2>1. PICK k \in 1 .. Len(toReceiver) :
               Weaker(toReceiver'[i], toReceiver[k]) /\ (k = i + d \/ (i = 1 /\ k = 1))
    BY <1>3
  <2>2. /\ j + d \in 1 .. Len(toReceiver) /\ toReceiver'[j] = toReceiver[j + d] /\ k < j + d
    BY <1>1, <1>2, <1>4, <2>1 DEF ThinnedBy
  <2>3. Ahead(toReceiver[k], toReceiver[j + d])
    BY <2>2 DEF ToReceiverInv
  <2>4. UNCHANGED <<phase, token>>
    BY DEF senderVars, askVars
  <2>5. QED
    BY <2>1, <2>2, <2>3, <2>4 DEF Ahead, Weaker, Frames, Verdict, Waiting
<1>5. Quiet => Quiet'
  BY <1>3 DEF Quiet, Weaker, Frames, Verdict
<1>6. QED
  BY <1>3, <1>4, <1>5

(* A step of the receiver or of the line that leaves every line in place.  *)
LEMMA ReceiverKeeps ==
  ASSUME TypeOK, FlightInv, ~Repeats, UNCHANGED <<senderVars, setting>>,
         Positions', \A i \in 1 .. Len(toReceiver') : Sent(toReceiver[i])',
         UNCHANGED toReceiver \/ Thinned,
         expected \in Nat, expected' \in Nat,
         UNCHANGED expected \/ (~Resuming /\ (expected <= expected' \/ phase \in Undone)),
         NEW x,
         \/ Spared
         \/ /\ toSender' = Append(toSender, x) /\ x \in ToSenderLine
            /\ Said(x)'
            /\ Resuming => x.kind # "ACK"
            /\ Resumes(x) => Quiet'
  PROVE  FlightInv'
<1>1. ToReceiverInv /\ ToSenderInv /\ QuietInv
  BY DEF FlightInv
<1>2. UNCHANGED <<phase, token>>
  BY DEF senderVars, askVars
<1>3. \A m : m.kind = "JUNK" => Said(m)' /\ ~Resumes(m)'
  BY DEF Said, Resumes
<1>4. ToReceiverInv' /\ (Quiet => Quiet')
  <2>1. CASE UNCHANGED toReceiver
    BY <1>1, <1>2, <2>1 DEF ToReceiverInv, Ahead, Quiet, Waiting
  <2>2. CASE Thinned
    BY <1>1, <2>2, ThinKeepsOrder DEF ToReceiverInv
  <2>3. QED
    BY <2>1, <2>2
<1>5. /\ toSender \in Seq(ToSenderLine) /\ Len(toSender) \in Nat
      /\ \A i \in 1 .. Len(toSender) : toSender[i].seq \in Nat
  BY LineTypes DEF TypeOK, ToSenderOK, ToSenderLine
<1>6. \A m : m \in {toSender[i] : i \in 1 .. Len(toSender)} =>
        Said(m)' /\ (Resumes(m)' <=> Resumes(m))
  <2>1. SUFFICES ASSUME NEW m, m \in {toSender[i] : i \in 1 .. Len(toSender)}
                 PROVE  Said(m)' /\ (Resumes(m)' <=> Resumes(m))
    OBVIOUS
  <2>2. Said(m) /\ m.seq \in Nat
    BY <1>1, <1>5, <2>1 DEF ToSenderInv
  <2>3. Resumes(m)' <=> Resumes(m)
    BY <1>2 DEF Resumes, Waiting
  <2>4. CASE UNCHANGED expected
    BY <1>2, <2>2, <2>3, <2>4 DEF Said
  <2>5. CASE ~Resuming /\ (expected <= expected' \/ phase \in Undone)
    <3>1. ~Resumes(m)
      BY <2>1, <2>5 DEF Resuming
    <3>2. m.kind = "ACK" /\ phase' \notin Undone => m.seq < expected'
      BY <1>2, <2>2, <2>5 DEF Said, Undone
    <3>3. QED
      BY <1>2, <2>2, <2>3, <3>1, <3>2 DEF Said
  <2>6. QED
    BY <2>3, <2>4, <2>5
<1>7. CASE Spared
  <2>1. PICK d \in {0, 1} : SparedBy(d)
    BY <1>7 DEF Spared
  <2>2. ASSUME NEW i \in 1 .. Len(toSender')
        PROVE  i + d \in 1 .. Len(toSender)
               /\ (toSender'[i] = toSender[i + d] \/ toSender'[i].kind = "JUNK")
    BY <1>5, <2>1 DEF SparedBy
  <2>3. \A i \in 1 .. Len(toSender') : Said(toSender[i])'
    BY <1>3, <1>6, <2>2
  <2>4. ASSUME NEW i \in 1 .. Len(toSender'), NEW j \in 1 .. Len(toSender'), i < j
        PROVE  SaidAhead(toSender[i], toSender[j])'
    <3>1. i + d < j + d
      BY <2>1, <2>4
    <3>2. SaidAhead(toSender[i + d], toSender[j + d])
      BY <1>1, <2>2, <3>1 DEF ToSenderInv
    <3>3. CASE toSender'[i].kind = "JUNK" \/ toSender'[j].kind = "JUNK"
      BY <1>3, <3>3 DEF SaidAhead
    <3>4. CASE toSender'[i] = toSender[i + d] /\ toSender'[j] = toSender[j + d]
      <4>1. Resumes(toSender[i])' <=> Resumes(toSender[i + d])
        BY <1>2, <3>4 DEF Resumes, Waiting
      <4>2. QED
        BY <3>2, <3>4, <4>1 DEF SaidAhead
    <3>5. QED
      BY <2>2, <3>3, <3>4
  <2>5. QuietInv'
    BY <1>1, <1>3, <1>4, <1>6, <2>2 DEF QuietInv
  <2>6. QED
    BY <1>4, <2>3, <2>4, <2>5 DEF FlightInv, ToSenderInv
<1>8. CASE /\ toSender' = Append(toSender, x) /\ x \in ToSenderLine
           /\ Said(x)'
           /\ Resuming => x.kind # "ACK"
           /\ Resumes(x) => Quiet'
  <2>1. /\ Len(toSender') = Len(toSender) + 1
        /\ \A i \in 1 .. Len(toSender) : toSender'[i] = toSender[i]
        /\ toSender'[Len(toSender) + 1] = x
    BY <1>5, <1>8, AppendProperties
  <2>2. ASSUME NEW i \in 1 .. Len(toSender')
        PROVE  i \in 1 .. Len(toSender) \/ i = Len(toSender) + 1
    BY <1>5, <2>1
  <2>3. \A i \in 1 .. Len(toSender') : Said(toSender[i])'
    BY <1>6, <1>8, <2>1, <2>2
  <2>4. ASSUME NEW i \in 1 .. Len(toSender'), NEW j \in 1 .. Len(toSender'), i < j
        PROVE  SaidAhead(toSender[i], toSender[j])'
    <3>1. i \in 1 .. Len(toSender)
      BY <1>5, <2>1, <2>4
    <3>2. CASE j \in 1 .. Len(toSender)
      BY <1>1, <1>6, <2>1, <2>4, <3>1, <3>2 DEF ToSenderInv, SaidAhead
    <3>3. CASE j = Len(toSender) + 1
      BY <1>6, <1>8, <2>1, <3>1, <3>3 DEF SaidAhead, Resuming
    <3>4. QED
      BY <2>2, <3>2, <3>3
  <2>5. Resumes(x)' <=> Resumes(x)
    BY <1>2 DEF Resumes, Waiting
  <2>6. QuietInv'
    BY <1>1, <1>4, <1>6, <1>8, <2>1, <2>2, <2>5 DEF QuietInv
  <2>7. QED
    BY <1>4, <2>3, <2>4, <2>6 DEF FlightInv, ToSenderInv
<1>9. QED
  BY <1>7, <1>8

LEMMA InputType ==
  ASSUME TypeOK, toReceiver # <<>>
  PROVE  Input \in ToReceiverLine
<1>1. Len(toReceiver) \in Nat \ {0} /\ Input = toReceiver[1]
  BY TailElements DEF TypeOK, ToReceiverOK, Input
<1>2. 1 \in 1 .. Len(toReceiver)
  BY <1>1
<1>3. QED
  BY <1>1, <1>2, LineTypes

(* The line that reaches the receiver, and what is behind it. *)
LEMMA InputIsSent ==
  ASSUME TypeOK, FlightInv, ~Repeats, toReceiver # <<>>
  PROVE  /\ Input \in ToReceiverLine /\ Sent(Input)
         /\ Resuming => Input.kind \in {"BARRIER", "JUNK"}
         /\ \A i \in 1 .. Len(Tail(toReceiver)) :
              /\ Tail(toReceiver)[i] \in ToReceiverLine
              /\ Sent(Tail(toReceiver)[i]) /\ Ahead(Input, Tail(toReceiver)[i])
<1>1. /\ Len(toReceiver) \in Nat \ {0} /\ Len(Tail(toReceiver)) = Len(toReceiver) - 1
      /\ \A i \in 1 .. Len(Tail(toReceiver)) : Tail(toReceiver)[i] = toReceiver[i + 1]
      /\ Input = toReceiver[1]
  BY TailElements DEF TypeOK, ToReceiverOK, Input
<1>2. /\ 1 \in 1 .. Len(toReceiver)
      /\ \A i \in 1 .. Len(Tail(toReceiver)) : i + 1 \in 1 .. Len(toReceiver) /\ 1 < i + 1
  BY <1>1
<1>3. QED
  BY <1>1, <1>2, LineTypes DEF FlightInv, ToReceiverInv, QuietInv, Quiet, Resuming

(* The receiver and the line leave the sender's variables alone; what they *)
(* do to the line while the positions stand still.                         *)
LEMMA ThinKeepsSent ==
  ASSUME TypeOK, ToReceiverInv, UNCHANGED <<senderVars, expected, drops>>, Thinned
  PROVE  \A i \in 1 .. Len(toReceiver') : Sent(toReceiver[i])'
<1>1. ASSUME NEW i \in 1 .. Len(toReceiver') PROVE Sent(toReceiver[i])'
  <2>1. PICK k \in 1 .. Len(toReceiver) : Weaker(toReceiver'[i], toReceiver[k])
    BY ThinKeepsOrder
  <2>2. Sent(toReceiver[k]) /\ UNCHANGED <<phase, token, base, nextSeq, expected, drops>>
    BY DEF ToReceiverInv, senderVars, askVars, windowVars
  <2>3. QED
    BY <2>1, <2>2 DEF Sent, Weaker, Frames, Verdict
<1>2. QED
  BY <1>1

LEMMA StandingKeeps ==
  ASSUME TypeOK, FlightInv, ~Repeats, UNCHANGED <<senderVars, setting, expected, drops>>,
         UNCHANGED toReceiver \/ Thinned,
         \/ Spared
         \/ \E x \in ToSenderLine : /\ toSender' = Append(toSender, x)
                                    /\ x.kind \notin {"ACK", "RST", "RESUME"}
  PROVE  FlightInv'
<1>1. Positions /\ ToReceiverInv
  BY DEF FlightInv
<1>2. UNCHANGED <<phase, token, base, nextSeq, cwnd, expected, drops>>
  BY DEF senderVars, askVars, windowVars
<1>3. Positions'
  BY <1>1, <1>2 DEF Positions
<1>4. \A i \in 1 .. Len(toReceiver') : Sent(toReceiver[i])'
  <2>1. CASE UNCHANGED toReceiver
    BY <1>1, <1>2, <2>1 DEF ToReceiverInv, Sent
  <2>2. QED
    BY <1>1, <2>1, ThinKeepsSent
<1>5. expected \in Nat /\ expected' \in Nat
  BY <1>2, TransferAssumption DEF TypeOK, ReceiverTypeOK
<1>6. CASE Spared
  BY <1>2, <1>3, <1>4, <1>5, <1>6, ReceiverKeeps
<1>7. ASSUME NEW x \in ToSenderLine, toSender' = Append(toSender, x),
             x.kind \notin {"ACK", "RST", "RESUME"}
      PROVE  FlightInv'
  <2>1. Said(x)' /\ ~Resumes(x)
    BY <1>7 DEF Said, Resumes
  <2>2. QED
    BY <1>2, <1>3, <1>4, <1>5, <1>7, <2>1, ReceiverKeeps
<1>8. QED
  BY <1>6, <1>7

(* The answers that name the receiver's position. *)
LEMMA RecvAnsweredKeeps ==
  ASSUME TypeOK, FlightInv, ~Repeats, RecvAnswered
  PROVE  FlightInv'
<1>1. /\ toReceiver # <<>> /\ toReceiver' = Tail(toReceiver)
      /\ Input.kind \in {"DATA", "BAD", "AYT", "BARRIER"}
      /\ UNCHANGED <<senderVars, setting, expected, drops>>
  BY DEF RecvAnswered, Read, TakeInput, OfReceiver, receiverVars
<1>2. Thinned
  BY <1>1, LineThins
<1>3. /\ Input \in ToReceiverLine /\ Sent(Input)
      /\ Resuming => Input.kind \in {"BARRIER", "JUNK"}
      /\ \A i \in 1 .. Len(Tail(toReceiver)) : Ahead(Input, Tail(toReceiver)[i])
  BY <1>1, InputIsSent
<1>4. /\ expected \in Nat /\ expected' = expected /\ Input.tok \in Nat /\ Input.seq \in Nat
      /\ UNCHANGED <<phase, token, base, nextSeq, cwnd, expected, drops>>
  BY <1>1, <1>3, TransferAssumption
  DEF TypeOK, ReceiverTypeOK, ToReceiverLine, Seqs, senderVars, askVars, windowVars
<1>5. CASE \E x \in ToSenderLine : /\ toSender' = Append(toSender, x)
                                   /\ x.kind \notin {"ACK", "RST", "RESUME"}
  BY <1>1, <1>2, <1>5, StandingKeeps
<1>6. Positions' /\ \A i \in 1 .. Len(toReceiver') : Sent(toReceiver[i])'
  BY <1>1, <1>2, <1>4, ThinKeepsSent DEF FlightInv, Positions
<1>7. CASE Input.kind = "DATA" /\ Input.seq < expected /\ Answer(About("ACK", expected - 1))
  <2>1. PICK x : x = About("ACK", expected - 1)
    OBVIOUS
  <2>2. expected - 1 \in Nat /\ expected - 1 < expected
    BY <1>4, <1>7
  <2>3. x \in ToSenderLine /\ x.kind = "ACK" /\ x.seq = expected - 1
    BY <2>1, <2>2, AnswerLineType DEF ReceiverKinds, About, Line
  <2>4. Said(x)' /\ ~Resumes(x) /\ ~Resuming
    BY <1>3, <1>4, <1>7, <2>2, <2>3 DEF Said, Resumes
  <2>5. QED
    BY <1>1, <1>2, <1>4, <1>6, <1>7, <2>1, <2>3, <2>4, ReceiverKeeps DEF Answer
<1>8. CASE Input.kind = "BARRIER" /\ Answer(Line("RESUME", Input.tok, expected))
  <2>1. PICK x : x = Line("RESUME", Input.tok, expected)
    OBVIOUS
  <2>2. x \in ToSenderLine /\ x.kind = "RESUME" /\ x.tok = Input.tok /\ x.seq = expected
    BY <1>4, <2>1, AnswerLineType DEF ReceiverKinds, Line
  <2>3. Said(x)'
    BY <1>3, <1>4, <1>8, <2>2 DEF Said, Sent, Resumes
  <2>4. Resumes(x) => Quiet'
    <3>1. SUFFICES ASSUME Resumes(x), NEW i \in 1 .. Len(toReceiver')
                   PROVE  toReceiver'[i].kind = "BARRIER"
      BY DEF Quiet
    <3>2. Ahead(Input, toReceiver'[i])
      BY <1>1, <1>3
    <3>3. QED
      BY <1>8, <2>2, <3>1, <3>2 DEF Ahead, Resumes
  <2>5. QED
    BY <1>1, <1>2, <1>4, <1>6, <1>8, <2>1, <2>2, <2>3, <2>4, ReceiverKeeps DEF Answer
<1>9. CASE Input.kind = "BAD" /\ Answer(About("NAK", expected))
  <2>1. About("NAK", expected) \in ToSenderLine /\ About("NAK", expected).kind = "NAK"
    BY <1>4, AnswerLineType DEF ReceiverKinds, About, Line
  <2>2. QED
    BY <1>5, <1>9, <2>1 DEF Answer
<1>10. CASE Input.kind = "AYT" /\ Answer(Line("HERE", Input.tok, expected))
  <2>1. /\ Line("HERE", Input.tok, expected) \in ToSenderLine
        /\ Line("HERE", Input.tok, expected).kind = "HERE"
    BY <1>4, AnswerLineType DEF ReceiverKinds, Line
  <2>2. QED
    BY <1>5, <1>10, <2>1 DEF Answer
<1>11. QED
  BY <1>7, <1>8, <1>9, <1>10 DEF RecvAnswered

(* A block that fits: every frame behind it is of the same flight. *)
LEMMA RecvBlockKeeps ==
  ASSUME TypeOK, FlightInv, ~Repeats, RecvBlock
  PROVE  FlightInv'
<1>1. /\ toReceiver # <<>> /\ toReceiver' = Tail(toReceiver)
      /\ Input.kind = "DATA" /\ Input.seq = expected
      /\ UNCHANGED <<senderVars, setting>> /\ expected' = expected + 1 /\ drops' = 0
      /\ toSender' = Append(toSender, About("ACK", expected))
  BY DEF RecvBlock, Read, TakeInput, OfReceiver, Answer
<1>2. Thinned
  BY <1>1, LineThins
<1>3. /\ Input \in ToReceiverLine /\ Sent(Input) /\ ~Resuming
      /\ \A i \in 1 .. Len(Tail(toReceiver)) :
           /\ Tail(toReceiver)[i] \in ToReceiverLine
           /\ Sent(Tail(toReceiver)[i]) /\ Ahead(Input, Tail(toReceiver)[i])
  BY <1>1, InputIsSent
<1>4. /\ expected \in Nat /\ expected' \in Nat /\ expected < Blocks /\ Blocks \in Nat
      /\ base \in Nat /\ nextSeq \in Nat
      /\ UNCHANGED <<phase, token, base, nextSeq, cwnd>>
  <2>1. Blocks \in Nat \ {0}
    BY TransferAssumption
  <2>2. expected \in 0 .. Blocks /\ base \in 0 .. Blocks /\ nextSeq \in 0 .. Blocks
    BY DEF TypeOK, ReceiverTypeOK, SenderTypeOK
  <2>3. expected \in 0 .. Blocks - 1
    BY <1>1, <1>3 DEF ToReceiverLine, Seqs
  <2>4. UNCHANGED <<phase, token, base, nextSeq, cwnd>>
    BY <1>1 DEF senderVars, askVars, windowVars
  <2>5. QED
    BY <1>1, <2>1, <2>2, <2>3, <2>4
<1>5. base <= expected /\ expected < nextSeq
  BY <1>1, <1>3 DEF Sent, Frames
<1>6. Positions'
  BY <1>1, <1>4, <1>5, TransferAssumption DEF FlightInv, Positions
<1>7. ASSUME NEW i \in 1 .. Len(toReceiver') PROVE Sent(toReceiver[i])'
  <2>1. PICK m : m = toReceiver'[i]
    OBVIOUS
  <2>2. m \in ToReceiverLine /\ Sent(m) /\ Ahead(Input, m)
    BY <1>1, <1>3, <2>1
  <2>3. m.seq \in Nat
    BY <2>2 DEF ToReceiverLine, Seqs
  <2>4. m.kind \in Frames => m.seq = expected' \/ m.seq > expected' + drops'
    BY <1>1, <1>4, <2>2, <2>3 DEF Ahead, Frames
  <2>5. base' <= expected' /\ m.kind \notin Verdict
    BY <1>1, <1>4, <1>5, <2>2 DEF Sent
  <2>6. Sent(m)'
    BY <1>4, <2>2, <2>4, <2>5 DEF Sent
  <2>7. QED
    BY <2>1, <2>6
<1>8. PICK x : x = About("ACK", expected)
  OBVIOUS
<1>9. x \in ToSenderLine /\ x.kind = "ACK" /\ x.seq = expected
  BY <1>4, <1>8, AnswerLineType DEF ReceiverKinds, About, Line
<1>10. Said(x)' /\ ~Resumes(x) /\ expected <= expected'
  BY <1>1, <1>4, <1>9 DEF Said, Resumes
<1>11. QED
  BY <1>1, <1>2, <1>3, <1>4, <1>6, <1>7, <1>8, <1>9, <1>10, ReceiverKeeps

(* A gap: at most one for each block of the window but the first.          *)
LEMMA GapIsCounted ==
  ASSUME TypeOK, FlightInv, ~Repeats, RecvGap
  PROVE  /\ drops + 1 < WindowSize /\ drops + 1 < MaxDrops
         /\ drops' = drops + 1 /\ Answer(About("DROP", expected)) /\ UNCHANGED expected
         /\ toReceiver # <<>> /\ toReceiver' = Tail(toReceiver)
         /\ Input.kind = "DATA" /\ Input \in ToReceiverLine /\ Sent(Input)
         /\ Input.seq > expected + drops
         /\ UNCHANGED <<senderVars, setting>>
<1>1. /\ toReceiver # <<>> /\ toReceiver' = Tail(toReceiver)
      /\ Input.kind = "DATA" /\ Input.seq > expected
      /\ UNCHANGED <<senderVars, setting>>
  BY DEF RecvGap, Read, TakeInput, OfReceiver
<1>2. Input \in ToReceiverLine /\ Sent(Input)
  BY <1>1, InputIsSent
<1>3. /\ expected \in Nat /\ drops \in Nat /\ base \in Nat /\ nextSeq \in Nat /\ Input.seq \in Nat
      /\ WindowSize \in Nat /\ MaxDrops \in Nat /\ WindowSize <= MaxDrops
  BY <1>2, TransferAssumption DEF TypeOK, ReceiverTypeOK, SenderTypeOK, ToReceiverLine, Seqs
<1>4. /\ base <= expected /\ Input.seq < nextSeq /\ Input.seq > expected + drops
      /\ nextSeq <= base + WindowSize
  BY <1>1, <1>2, <1>3 DEF Sent, Frames, FlightInv, Positions
<1>5. drops + 1 < WindowSize
  BY <1>3, <1>4
<1>6. drops + 1 < MaxDrops
  BY <1>3, <1>5
<1>7. ~(drops + 1 >= MaxDrops)
  BY <1>3, <1>6
<1>8. QED
  BY <1>1, <1>2, <1>4, <1>5, <1>6, <1>7 DEF RecvGap

LEMMA RecvGapKeeps ==
  ASSUME TypeOK, FlightInv, ~Repeats, RecvGap
  PROVE  FlightInv'
<1>1. /\ drops + 1 < WindowSize
      /\ drops' = drops + 1 /\ toSender' = Append(toSender, About("DROP", expected))
      /\ UNCHANGED expected
      /\ toReceiver # <<>> /\ toReceiver' = Tail(toReceiver)
      /\ Input.kind = "DATA" /\ Input \in ToReceiverLine /\ Sent(Input)
      /\ Input.seq > expected + drops
      /\ UNCHANGED <<senderVars, setting>>
  BY GapIsCounted DEF Answer
<1>2. Thinned
  BY <1>1, LineThins
<1>3. \A i \in 1 .. Len(Tail(toReceiver)) :
        /\ Tail(toReceiver)[i] \in ToReceiverLine
        /\ Sent(Tail(toReceiver)[i]) /\ Ahead(Input, Tail(toReceiver)[i])
  BY <1>1, InputIsSent
<1>4. /\ expected \in Nat /\ drops \in Nat /\ base \in Nat /\ nextSeq \in Nat
      /\ Input.seq \in Nat /\ expected < Blocks /\ expected' = expected
      /\ UNCHANGED <<phase, token, base, nextSeq, cwnd>>
  <2>1. expected \in Nat /\ drops \in Nat /\ base \in Nat /\ nextSeq \in Nat
    BY TransferAssumption DEF TypeOK, ReceiverTypeOK, SenderTypeOK
  <2>2. Input.seq \in 0 .. Blocks - 1 /\ Blocks \in Nat
    BY <1>1, TransferAssumption DEF ToReceiverLine, Seqs
  <2>3. QED
    BY <1>1, <2>1, <2>2 DEF senderVars, askVars, windowVars
<1>5. Input.seq < nextSeq
  BY <1>1 DEF Sent, Frames
<1>6. nextSeq > expected + (drops + 1)
  BY <1>1, <1>4, <1>5
<1>7. Positions'
  BY <1>1, <1>4, <1>6 DEF FlightInv, Positions
<1>8. ASSUME NEW i \in 1 .. Len(toReceiver') PROVE Sent(toReceiver[i])'
  <2>1. PICK m : m = toReceiver'[i]
    OBVIOUS
  <2>2. m \in ToReceiverLine /\ Sent(m) /\ Ahead(Input, m)
    BY <1>1, <1>3, <2>1
  <2>3. m.seq \in Nat
    BY <2>2 DEF ToReceiverLine, Seqs
  <2>4. m.kind \in Frames => m.seq > Input.seq
    BY <1>1, <1>4, <2>2, <2>3 DEF Ahead, Frames
  <2>5. m.kind \in Frames => m.seq > expected' + drops'
    BY <1>1, <1>4, <2>3, <2>4
  <2>6. Sent(m)'
    BY <1>4, <2>2, <2>5 DEF Sent
  <2>7. QED
    BY <2>1, <2>6
<1>9. PICK x : x = About("DROP", expected)
  OBVIOUS
<1>10. x \in ToSenderLine /\ x.kind = "DROP"
  BY <1>4, <1>9, AnswerLineType DEF ReceiverKinds, About, Line
<1>11. Said(x)' /\ ~Resumes(x)
  BY <1>10 DEF Said, Resumes
<1>12. QED
  BY <1>1, <1>2, <1>4, <1>7, <1>8, <1>9, <1>10, <1>11, ReceiverKeeps

(* The sender's reset: no frame of the old flight is behind it.            *)
LEMMA RecvResetKeeps ==
  ASSUME TypeOK, FlightInv, ~Repeats, RecvReset
  PROVE  FlightInv'
<1>1. /\ toReceiver # <<>> /\ toReceiver' = Tail(toReceiver) /\ Input.kind = "RST"
      /\ UNCHANGED <<senderVars, setting>> /\ expected' = 0 /\ drops' = 0
      /\ toSender' = Append(toSender, Ask("RSTACK", Input.tok))
  BY DEF RecvReset, Read, TakeInput, OfReceiver, Answer, StartOver
<1>2. Thinned
  BY <1>1, LineThins
<1>3. /\ Input \in ToReceiverLine /\ Sent(Input) /\ ~Resuming
      /\ \A i \in 1 .. Len(Tail(toReceiver)) :
           Sent(Tail(toReceiver)[i]) /\ Ahead(Input, Tail(toReceiver)[i])
  BY <1>1, InputIsSent
<1>4. phase \in Undone /\ Input.tok \in Nat
  BY <1>1, <1>3 DEF Sent, ToReceiverLine
<1>5. /\ expected \in Nat /\ expected' \in Nat /\ base \in Nat /\ nextSeq \in Nat
      /\ WindowSize \in Nat \ {0}
      /\ UNCHANGED <<phase, token, base, nextSeq, cwnd>>
  BY <1>1, TransferAssumption
  DEF TypeOK, ReceiverTypeOK, SenderTypeOK, senderVars, askVars, windowVars
<1>6. Positions'
  BY <1>1, <1>4, <1>5 DEF FlightInv, Positions
<1>7. ASSUME NEW i \in 1 .. Len(toReceiver') PROVE Sent(toReceiver[i])'
  <2>1. PICK m : m = toReceiver'[i]
    OBVIOUS
  <2>2. Sent(m) /\ Ahead(Input, m)
    BY <1>1, <1>3, <2>1
  <2>3. m.kind \notin Frames \cup Verdict
    BY <1>1, <2>2 DEF Ahead
  <2>4. Sent(m)'
    BY <1>5, <2>2, <2>3 DEF Sent
  <2>5. QED
    BY <2>1, <2>4
<1>8. PICK x : x = Ask("RSTACK", Input.tok)
  OBVIOUS
<1>9. x \in ToSenderLine /\ x.kind = "RSTACK"
  BY <1>4, <1>8, AnswerLineType DEF ReceiverKinds, Ask, Line
<1>10. Said(x)' /\ ~Resumes(x)
  BY <1>9 DEF Said, Resumes
<1>11. QED
  BY <1>1, <1>2, <1>3, <1>4, <1>5, <1>6, <1>7, <1>8, <1>9, <1>10, ReceiverKeeps

(* What the receiver sends besides answers about its position. *)
LEMMA PlainWords ==
  \A kind \in {"READY", "NAK", "DROP", "OK", "FAIL", "ERR"} :
    /\ Word(kind) \in ToSenderLine /\ Word(kind).kind \notin {"ACK", "RST", "RESUME"}
    /\ \A q \in Nat : /\ About(kind, q) \in ToSenderLine
                      /\ About(kind, q).kind \notin {"ACK", "RST", "RESUME"}
<1>1. SUFFICES ASSUME NEW kind \in {"READY", "NAK", "DROP", "OK", "FAIL", "ERR"}
               PROVE  /\ Word(kind) \in ToSenderLine
                      /\ Word(kind).kind \notin {"ACK", "RST", "RESUME"}
                      /\ \A q \in Nat : /\ About(kind, q) \in ToSenderLine
                                        /\ About(kind, q).kind \notin {"ACK", "RST", "RESUME"}
  OBVIOUS
<1>2. kind \in ReceiverKinds
  BY DEF ReceiverKinds
<1>3. Word(kind).kind = kind /\ \A q : About(kind, q).kind = kind
  BY DEF Word, About, Line
<1>4. QED
  BY <1>2, <1>3, AnswerLineType

(* The other steps of the receiver. *)
LEMMA ReceiverStands ==
  ASSUME TypeOK,
         RecvMeta \/ RecvShortFrame \/ RecvDone \/ Install \/ RecvUnexpected \/ RecvTimeout
  PROVE  /\ UNCHANGED <<senderVars, setting, expected, drops>>
         /\ UNCHANGED toReceiver \/ Thinned
         /\ \/ Spared
            \/ \E x \in ToSenderLine : /\ toSender' = Append(toSender, x)
                                       /\ x.kind \notin {"ACK", "RST", "RESUME"}
<1>1. UNCHANGED <<senderVars, setting, expected, drops>>
  BY DEF RecvMeta, RecvShortFrame, RecvDone, Install, RecvUnexpected, RecvTimeout, Read, Raise,
         OfReceiver, receiverVars
<1>2. UNCHANGED toReceiver \/ Thinned
  <2>1. CASE TakeInput
    BY <2>1, LineThins DEF TakeInput
  <2>2. CASE Install \/ RecvTimeout
    BY <2>2 DEF Install, RecvTimeout
  <2>3. CASE RecvShortFrame
    <3>1. toReceiver # <<>> /\ Input \in ToReceiverLine
      BY <2>3, InputType DEF RecvShortFrame
    <3>2. Word("JUNK") \in ToReceiverLine /\ Word("JUNK").kind = "JUNK"
      BY SentLineType DEF SenderKinds, Word, Line
    <3>3. Weaker(Input, Input) /\ Weaker(Word("JUNK"), Input)
      BY <3>2 DEF Weaker
    <3>4. QED
      BY <2>3, <3>1, <3>2, <3>3, LineThins DEF RecvShortFrame
  <2>4. QED
    BY <2>1, <2>2, <2>3 DEF RecvMeta, RecvDone, RecvUnexpected, Read
<1>3. UNCHANGED toSender => Spared
  BY LineSpared
<1>4. expected \in Nat
  BY TransferAssumption DEF TypeOK, ReceiverTypeOK
<1>5. CASE \/ \E kind \in {"READY", "OK", "FAIL", "ERR"} : Answer(Word(kind))
           \/ \E kind \in {"NAK", "DROP"} : Answer(About(kind, expected))
  BY <1>1, <1>2, <1>4, <1>5, PlainWords DEF Answer
<1>6. CASE UNCHANGED toSender
  BY <1>1, <1>2, <1>3, <1>6
<1>7. QED
  BY <1>5, <1>6
  DEF RecvMeta, RecvShortFrame, RecvDone, Install, RecvUnexpected, RecvTimeout

LEMMA ReceiverStandsKeeps ==
  ASSUME TypeOK, FlightInv, ~Repeats,
         RecvMeta \/ RecvShortFrame \/ RecvDone \/ Install \/ RecvUnexpected \/ RecvTimeout
  PROVE  FlightInv'
  BY ReceiverStands, StandingKeeps

(* The faults, repetition excepted. *)
LEMMA FaultThins ==
  ASSUME TypeOK, FaultStep, ~DuplicateLine
  PROVE  /\ UNCHANGED <<senderVars, setting, expected, drops>>
         /\ UNCHANGED toReceiver \/ Thinned
         /\ \/ Spared
            \/ \E x \in ToSenderLine : /\ toSender' = Append(toSender, x)
                                       /\ x.kind \notin {"ACK", "RST", "RESUME"}
<1>1. ~DuplicateLine
  OBVIOUS
<1>2. UNCHANGED <<senderVars, setting, expected, drops>>
  BY <1>1 DEF FaultStep, LoseLine, DamageFrame, GarbleLine, StorageFails, ReceiverCrash,
              LineOnly, Fault, Raise, receiverVars
<1>3. /\ Word("JUNK") \in ToReceiverLine /\ Word("METABAD") \in ToReceiverLine
      /\ Word("DONEBAD") \in ToReceiverLine
  BY SentLineType DEF SenderKinds
<1>4. UNCHANGED toReceiver \/ Thinned
  <2>1. CASE toReceiver # <<>> /\ toReceiver' = Tail(toReceiver)
    BY <2>1, LineThins
  <2>2. CASE DamageFrame
    <3>1. toReceiver # <<>> /\ Input.kind = "DATA" /\ Input \in ToReceiverLine
      BY <2>2, InputType DEF DamageFrame
    <3>2. ASSUME NEW kind \in {"BAD", "SHORT"}
          PROVE  About(kind, Input.seq) \in ToReceiverLine /\ Weaker(About(kind, Input.seq), Input)
      <4>1. Input.seq \in Seqs /\ kind \in SenderKinds
        BY <3>1 DEF ToReceiverLine, SenderKinds, Frames
      <4>2. About(kind, Input.seq).kind = kind /\ About(kind, Input.seq).seq = Input.seq
        BY DEF About, Line
      <4>3. Weaker(About(kind, Input.seq), Input)
        BY <3>1, <4>2 DEF Weaker, Frames
      <4>4. QED
        BY <4>1, <4>3, SentLineType
    <3>3. \E m \in ToReceiverLine : Weaker(m, Input) /\ toReceiver' = <<m>> \o Tail(toReceiver)
      BY <2>2, <3>2 DEF DamageFrame
    <3>4. QED
      BY <3>1, <3>3, LineThins
  <2>3. CASE GarbleLine /\ ~UNCHANGED toReceiver
    <3>1. PICK line \in {Word("JUNK")}
                        \cup (IF Input.kind = "META" THEN {Word("METABAD")} ELSE {})
                        \cup (IF Input.kind = "DONE" THEN {Word("DONEBAD")} ELSE {}) :
             toReceiver # <<>> /\ toReceiver' = <<line>> \o Tail(toReceiver)
      BY <2>3 DEF GarbleLine
    <3>2. line \in ToReceiverLine
      BY <1>3, <3>1
    <3>3. Weaker(line, Input)
      BY <3>1 DEF Weaker, Verdict, Word, Line
    <3>4. QED
      BY <3>1, <3>2, <3>3, LineThins
  <2>4. QED
    BY <1>1, <2>1, <2>2, <2>3 DEF FaultStep, LoseLine, StorageFails, ReceiverCrash, TakeInput
<1>5. CASE \/ UNCHANGED toSender
           \/ toSender # <<>> /\ toSender' = Tail(toSender)
           \/ toSender # <<>> /\ toSender' = <<Word("JUNK")>> \o Tail(toSender)
  <2>1. Spared
    BY <1>5, LineSpared
  <2>2. QED
    BY <1>2, <1>4, <2>1
<1>6. CASE Answer(Word("ERR"))
  <2>1. \E x \in ToSenderLine : /\ toSender' = Append(toSender, x)
                                /\ x.kind \notin {"ACK", "RST", "RESUME"}
    BY <1>6, PlainWords DEF Answer
  <2>2. QED
    BY <1>2, <1>4, <2>1
<1>7. QED
  BY <1>1, <1>5, <1>6
  DEF FaultStep, LoseLine, DamageFrame, GarbleLine, StorageFails, ReceiverCrash

LEMMA FaultKeeps ==
  ASSUME TypeOK, FlightInv, ~Repeats, FaultStep
  PROVE  FlightInv'
<1>1. ~DuplicateLine
  BY DEF DuplicateLine, Fault, Repeats
<1>2. QED
  BY <1>1, FaultThins, StandingKeeps

-----------------------------------------------------------------------------
(* The invariant, and what follows from it.                                 *)

(* What a transfer may meet is chosen once. *)
LEMMA SettingStays == ASSUME [Next]_vars PROVE UNCHANGED setting
  BY DEF Next, SenderStep, ReceiverStep, FaultStep, vars, OfSender, OfReceiver, Fault,
     TakeReply, NoReply, Read,
     RecvReady, GiveUp, RecvWindowReply, AckTimeout, RecvInGuard, GuardTimeout, RecvProbeReply,
     ProbeTimeout, ConfirmReset, RecvOtherResetReply, ResetTimeout, ResumeFlight,
     ResumeFromZero, RecvOtherBarrierReply, BarrierTimeout, RecvFinal,
     RecvMeta, RecvAnswered, RecvGap, RecvBlock, RecvShortFrame, RecvReset, RecvDone, Install,
     RecvUnexpected, RecvTimeout, LoseLine, DuplicateLine, DamageFrame, GarbleLine,
     StorageFails, ReceiverCrash

LEMMA FlightStep ==
  ASSUME TypeOK, FlightInv, [Next]_vars
  PROVE  FlightInv'
<1>1. UNCHANGED setting
  BY SettingStays
<1>2. CASE Repeats
  BY <1>1, <1>2 DEF FlightInv, Repeats
<1>3. CASE ~Repeats
  <2>1. CASE SenderStep
    BY <1>3, <2>1, SenderStepKeeps
  <2>2. CASE ReceiverStep
    BY <1>3, <2>2, RecvAnsweredKeeps, RecvBlockKeeps, RecvGapKeeps, RecvResetKeeps,
       ReceiverStandsKeeps DEF ReceiverStep
  <2>3. CASE FaultStep
    BY <1>3, <2>3, FaultKeeps
  <2>4. CASE UNCHANGED vars
    BY <2>4 DEF vars, senderVars, askVars, windowVars, receiverVars, FlightInv, Repeats,
       Positions, ToReceiverInv, ToSenderInv, QuietInv, Quiet, Sent, Ahead, Said, SaidAhead,
       Resumes, Waiting
  <2>5. QED
    BY <2>1, <2>2, <2>3, <2>4 DEF Next
<1>4. QED
  BY <1>2, <1>3

LEMMA FlightHolds == Spec => []FlightInv
<1>1. Init => FlightInv
  <2>1. SUFFICES ASSUME Init PROVE Positions /\ ToReceiverInv /\ ToSenderInv /\ QuietInv
    BY DEF FlightInv
  <2>2. Positions
    BY <2>1, TransferAssumption DEF Init, Positions, Undone
  <2>3. ToReceiverInv
    <3>1. Len(toReceiver) = 1 /\ toReceiver[1].kind = "META"
      BY <2>1 DEF Init, Word, Line
    <3>2. Sent(toReceiver[1]) /\ Ahead(toReceiver[1], toReceiver[1])
      BY <3>1 DEF Sent, Ahead, Frames, Verdict
    <3>3. QED
      BY <3>1, <3>2 DEF ToReceiverInv
  <2>4. ToSenderInv /\ QuietInv
    BY <2>1 DEF Init, ToSenderInv, QuietInv
  <2>5. QED
    BY <2>2, <2>3, <2>4
<1>2. TypeOK /\ FlightInv /\ [Next]_vars => FlightInv'
  BY FlightStep
<1>3. QED
  BY <1>1, <1>2, TypeCorrect, PTL DEF Spec

(* No recovery of _recover_window, no probe and no reset starts a flight    *)
(* over the remains of an old one: the frames that _receive has not read    *)
(* are one window of consecutive blocks at most.                            *)
THEOREM FlightsDoNotOverlap == Spec => []OneFlight
<1>1. TypeOK /\ FlightInv => OneFlight
  <2>1. SUFFICES ASSUME TypeOK, FlightInv, ~Repeats
                 PROVE  /\ \A i \in UnreadFrames : toReceiver[i].seq \in base .. nextSeq - 1
                        /\ \A i, j \in UnreadFrames : i < j => toReceiver[i].seq < toReceiver[j].seq
                        /\ nextSeq <= base + WindowSize
    BY DEF OneFlight
  <2>2. Positions /\ ToReceiverInv
    BY <2>1 DEF FlightInv
  <2>3. ASSUME NEW i \in UnreadFrames PROVE toReceiver[i].seq \in base .. nextSeq - 1
    <3>1. i \in 1 .. Len(toReceiver) /\ toReceiver[i].kind \in Frames
      BY DEF UnreadFrames
    <3>2. /\ base <= expected /\ toReceiver[i].seq < nextSeq
          /\ toReceiver[i].seq = expected \/ toReceiver[i].seq > expected + drops
      BY <2>2, <3>1 DEF ToReceiverInv, Sent
    <3>3. toReceiver[i].seq \in Nat
      BY <2>1, <3>1, LineTypes DEF ToReceiverLine, Seqs
    <3>4. expected \in Nat /\ drops \in Nat /\ base \in Nat /\ nextSeq \in Nat
      BY <2>1, TransferAssumption DEF TypeOK, ReceiverTypeOK, SenderTypeOK
    <3>5. QED
      BY <3>2, <3>3, <3>4
  <2>4. \A i, j \in UnreadFrames : i < j => toReceiver[i].seq < toReceiver[j].seq
    BY <2>2 DEF ToReceiverInv, Ahead, UnreadFrames
  <2>5. QED
    BY <2>2, <2>3, <2>4 DEF Positions
<1>2. QED
  BY <1>1, TypeCorrect, FlightHolds, PTL

(* Between resets, what _send_window counts as acknowledged the receiver    *)
(* has written.                                                             *)
THEOREM AcknowledgedIsCommitted == Spec => []AckedIsCommitted
<1>1. FlightInv => AckedIsCommitted
  BY DEF FlightInv, Positions, AckedIsCommitted, ResetInProgress, SenderEnded, Undone
<1>2. QED
  BY <1>1, FlightHolds, PTL

(* However many lines are lost or damaged, _receive counts fewer gaps than  *)
(* make it ask for a reset, and reads no block twice.                       *)
THEOREM ReceiverNeverResets == Spec => []NoResetWithoutRepetition
<1>1. FlightInv /\ TypeOK => NoResetWithoutRepetition
  <2>1. SUFFICES ASSUME FlightInv, TypeOK, ~Repeats
                 PROVE  drops < WindowSize /\ \A i \in UnreadFrames : toReceiver[i].seq >= expected
    BY DEF NoResetWithoutRepetition
  <2>2. drops < WindowSize
    BY <2>1 DEF FlightInv, Positions
  <2>3. ASSUME NEW i \in UnreadFrames PROVE toReceiver[i].seq >= expected
    <3>1. i \in 1 .. Len(toReceiver) /\ toReceiver[i].kind \in Frames
      BY DEF UnreadFrames
    <3>2. toReceiver[i].seq = expected \/ toReceiver[i].seq > expected + drops
      BY <2>1, <3>1 DEF FlightInv, ToReceiverInv, Sent
    <3>3. toReceiver[i].seq \in Nat
      BY <2>1, <3>1, LineTypes DEF ToReceiverLine, Seqs
    <3>4. expected \in Nat /\ drops \in Nat
      BY <2>1, TransferAssumption DEF TypeOK, ReceiverTypeOK
    <3>5. QED
      BY <3>2, <3>3, <3>4
  <2>4. QED
    BY <2>2, <2>3
<1>2. QED
  BY <1>1, TypeCorrect, FlightHolds, PTL

-----------------------------------------------------------------------------
(* The verdict.  A line that repeats frames breaks the positions above: a   *)
(* repeated block makes gaps, and gaps make the receiver start over.  What  *)
(* holds all the same is enough for DONE: once the last acknowledgement is  *)
(* under way, or DONE is, nothing that is still to be read starts over a    *)
(* file that is complete.                                                   *)

(* A line to the receiver, and one ahead of another, possibly its repeat.   *)
Told(m) ==
  /\ m.kind = "RST" => phase \in Undone
  /\ m.kind = "BARRIER" => m.tok <= token
  /\ m.kind \in Verdict => phase \in Closing /\ expected = Blocks
ToldAhead(a, b) ==
  /\ a.kind = "RST" => b.kind \notin Verdict
  /\ Waiting /\ a.kind = "BARRIER" /\ a.tok = token => b.kind = "BARRIER"

(* A line to the sender. *)
Heard(m) ==
  /\ m.kind = "ACK" /\ phase \notin Undone => (m.seq + 1 >= Blocks => expected = Blocks)
  /\ m.kind = "RESUME" => m.tok <= token
  /\ Resumes(m) => m.seq = expected

ToldInv ==
  /\ \A i \in 1 .. Len(toReceiver) : Told(toReceiver[i])
  /\ \A i, j \in 1 .. Len(toReceiver) : i < j => ToldAhead(toReceiver[i], toReceiver[j])
HeardInv ==
  /\ \A i \in 1 .. Len(toSender) : Heard(toSender[i])
  /\ \A i, j \in 1 .. Len(toSender) : i < j => SaidAhead(toSender[i], toSender[j])
WholeInv == ToldInv /\ HeardInv /\ QuietInv

(* What a sender step may put on the line. *)
Says(m) ==
  /\ m.kind = "RST" => phase' \in Undone
  /\ m.kind = "BARRIER" => m.tok <= token'
  /\ m.kind \in Verdict => phase' = "done" /\ expected = Blocks
  /\ Waiting' => m.kind = "BARRIER"

(* A step of the sender: it takes back a reset only on a quiet line. *)
LEMMA SenderKeepsWhole ==
  ASSUME TypeOK, WholeInv, SenderReads,
         token' \in Nat, token <= token',
         phase \in Closing => phase' \in Closing,
         Waiting' /\ token' = token => Waiting,
         phase \in Undone /\ phase' \notin Undone =>
           Quiet /\ \A i \in 1 .. Len(toSender') : toSender'[i].kind # "ACK",
         Len(toReceiver') \in Nat, Len(toReceiver) <= Len(toReceiver'),
         \A i \in 1 .. Len(toReceiver) : toReceiver'[i] = toReceiver[i],
         \A i \in Len(toReceiver) + 1 .. Len(toReceiver') : Says(toReceiver'[i])
  PROVE  WholeInv'
<1>1. ToldInv /\ HeardInv /\ QuietInv
  BY DEF WholeInv
<1>2. PICK l \in Nat, n \in Nat, k \in Nat :
        l = Len(toReceiver) /\ n = Len(toReceiver') /\ k = Len(toSender) /\ l <= n
  BY LineFields
<1>3. /\ \A i \in 1 .. l : toReceiver'[i] = toReceiver[i] /\ Told(toReceiver[i])
      /\ \A i \in l + 1 .. n : Says(toReceiver'[i])
      /\ \A i \in 1 .. n : i \in 1 .. l \/ i \in l + 1 .. n
  <2>1. \A i \in 1 .. n : i \in 1 .. l \/ i \in l + 1 .. n
    BY <1>2
  <2>2. QED
    BY <1>1, <1>2, <2>1, Zenon DEF ToldInv
<1>4. /\ token \in Nat /\ UNCHANGED expected
      /\ \A i \in 1 .. l : toReceiver[i].tok \in Nat
      /\ \A i \in 1 .. k : toSender[i].tok \in Nat
  BY <1>2, LineFields DEF SenderReads, receiverVars
<1>5. \A i \in 1 .. l : toReceiver[i].kind = "RST" => phase' \in Undone
  <2>1. ASSUME NEW i \in 1 .. l, toReceiver[i].kind = "RST", phase' \notin Undone PROVE FALSE
    <3>1. phase \in Undone
      BY <1>3, <2>1 DEF Told
    <3>2. toReceiver[i].kind \in {"BARRIER", "JUNK"}
      BY <1>2, <2>1, <3>1, Zenon DEF Quiet
    <3>3. QED
      BY <2>1, <3>2
  <2>2. QED
    BY <2>1
<1>6. \A i \in 1 .. n : Told(toReceiver[i])'
  <2>1. ASSUME NEW i \in 1 .. l PROVE Told(toReceiver[i])'
    <3>1. toReceiver'[i] = toReceiver[i] /\ Told(toReceiver[i]) /\ toReceiver[i].tok \in Nat
      BY <1>3, <1>4
    <3>2. toReceiver[i].kind = "BARRIER" => toReceiver[i].tok <= token'
      BY <1>4, <3>1 DEF Told
    <3>3. QED
      BY <1>4, <1>5, <3>1, <3>2, Zenon DEF Told
  <2>2. ASSUME NEW i \in l + 1 .. n PROVE Told(toReceiver[i])'
    BY <1>3, <1>4 DEF Says, Told, Closing
  <2>3. QED
    BY <1>3, <2>1, <2>2, Zenon
<1>7. ASSUME NEW i \in 1 .. n, NEW j \in 1 .. n, i < j
      PROVE  ToldAhead(toReceiver[i], toReceiver[j])'
  <2>1. CASE j \in l + 1 .. n
    <3>1. Says(toReceiver'[j]) /\ Told(toReceiver[i])'
      BY <1>3, <1>6, <2>1
    <3>2. QED
      BY <3>1 DEF Says, Told, ToldAhead, Undone
  <2>2. CASE j \in 1 .. l
    <3>1. i \in 1 .. l
      BY <1>2, <1>7, <2>2
    <3>2. toReceiver'[i] = toReceiver[i] /\ toReceiver'[j] = toReceiver[j]
      BY <1>3, <2>2, <3>1
    <3>3. Told(toReceiver[i]) /\ ToldAhead(toReceiver[i], toReceiver[j])
          /\ toReceiver[i].tok \in Nat
      BY <1>1, <1>2, <1>3, <1>4, <1>7, <2>2, <3>1, Zenon DEF ToldInv
    <3>4. ASSUME Waiting', toReceiver[i].kind = "BARRIER", toReceiver[i].tok = token'
          PROVE  toReceiver[j].kind = "BARRIER"
      <4>1. token' = token
        BY <1>4, <3>3, <3>4 DEF Told
      <4>2. QED
        BY <3>3, <3>4, <4>1 DEF ToldAhead
    <3>5. QED
      BY <3>2, <3>3, <3>4 DEF ToldAhead
  <2>3. QED
    BY <1>3, <2>1, <2>2, Zenon
<1>8. PICK d \in {0, 1} : /\ Len(toSender') = Len(toSender) - d
                          /\ \A i \in 1 .. Len(toSender') : toSender'[i] = toSender[i + d]
  BY DEF SenderReads, Consumed
<1>9. ASSUME NEW i \in 1 .. Len(toSender')
      PROVE  /\ i + d \in 1 .. k /\ toSender'[i] = toSender[i + d] /\ Heard(toSender[i + d])
             /\ Resumes(toSender[i])' => Resumes(toSender[i + d])
  <2>1. i + d \in 1 .. k /\ toSender'[i] = toSender[i + d]
    BY <1>2, <1>8
  <2>2. Heard(toSender[i + d]) /\ toSender[i + d].tok \in Nat
    BY <1>1, <1>2, <1>4, <2>1 DEF HeardInv
  <2>3. Resumes(toSender[i])' => Resumes(toSender[i + d])
    BY <1>4, <2>1, <2>2 DEF Heard, Resumes
  <2>4. QED
    BY <2>1, <2>2, <2>3
<1>10. ASSUME NEW i \in 1 .. Len(toSender') PROVE Heard(toSender[i])'
  <2>1. PICK m : m = toSender[i + d]
    OBVIOUS
  <2>2. toSender'[i] = m /\ Heard(m) /\ m.tok \in Nat /\ (Resumes(toSender[i])' => Resumes(m))
    BY <1>4, <1>9, <2>1
  <2>3. m.kind = "ACK" /\ phase' \notin Undone => phase \notin Undone
    BY <2>2
  <2>4. m.kind = "RESUME" => m.tok <= token'
    BY <1>4, <2>2 DEF Heard
  <2>5. QED
    BY <1>4, <2>2, <2>3, <2>4, Zenon DEF Heard
<1>11. ASSUME NEW i \in 1 .. Len(toSender'), NEW j \in 1 .. Len(toSender'), i < j
       PROVE  SaidAhead(toSender[i], toSender[j])'
  <2>1. i + d < j + d
    BY <1>2, <1>8, <1>11
  <2>2. SaidAhead(toSender[i + d], toSender[j + d])
    BY <1>1, <1>2, <1>9, <2>1, Zenon DEF HeardInv
  <2>3. QED
    BY <1>9, <2>2, Zenon DEF SaidAhead
<1>12. QuietInv'
  <2>1. SUFFICES ASSUME NEW i \in 1 .. Len(toSender'), Resumes(toSender[i])' PROVE Quiet'
    BY DEF QuietInv
  <2>2. Quiet /\ Waiting'
    BY <1>1, <1>2, <1>9, <2>1 DEF QuietInv, Resumes
  <2>3. ASSUME NEW q \in 1 .. n PROVE toReceiver'[q].kind \in {"BARRIER", "JUNK"}
    <3>1. CASE q \in 1 .. l
      BY <1>2, <1>3, <2>2, <3>1, Zenon DEF Quiet
    <3>2. CASE q \in l + 1 .. n
      BY <1>3, <2>2, <3>2 DEF Says
    <3>3. QED
      BY <1>3, <3>1, <3>2, Zenon
  <2>4. QED
    BY <1>2, <2>3, Zenon DEF Quiet
<1>13. QED
  BY <1>2, <1>6, <1>7, <1>10, <1>11, <1>12, Zenon DEF WholeInv, ToldInv, HeardInv

(* The reply that is read, on any line. *)
LEMMA ReplyIsHeard ==
  ASSUME TypeOK, WholeInv, TakeReply
  PROVE  /\ Reply \in ToSenderLine /\ Heard(Reply)
         /\ Resumes(Reply) => /\ Quiet
                              /\ \A i \in 1 .. Len(toSender') : toSender'[i].kind # "ACK"
<1>1. toSender # <<>> /\ toSender' = Tail(toSender) /\ toSender \in Seq(ToSenderLine)
  BY DEF TakeReply, TypeOK, ToSenderOK
<1>2. /\ Len(toSender) \in Nat \ {0} /\ Len(toSender') = Len(toSender) - 1
      /\ \A i \in 1 .. Len(toSender') : toSender'[i] = toSender[i + 1]
      /\ Reply = toSender[1]
  BY <1>1, TailElements DEF Reply
<1>3. /\ 1 \in 1 .. Len(toSender)
      /\ \A i \in 1 .. Len(toSender') : i + 1 \in 1 .. Len(toSender) /\ 1 < i + 1
  BY <1>2
<1>4. HeardInv /\ QuietInv
  BY DEF WholeInv
<1>5. Reply \in ToSenderLine /\ Heard(Reply) /\ (Resumes(Reply) => Quiet)
  BY <1>2, <1>3, <1>4, LineTypes, Zenon DEF HeardInv, QuietInv
<1>6. \A i \in 1 .. Len(toSender') : SaidAhead(Reply, toSender'[i])
  BY <1>2, <1>3, <1>4, Zenon DEF HeardInv
<1>7. QED
  BY <1>5, <1>6, Zenon DEF SaidAhead

(* The outcomes of a sender action: it says nothing, or one line. *)
LEMMA SilenceKeepsWhole ==
  ASSUME TypeOK, WholeInv, SenderReads, UNCHANGED <<token, toReceiver>>,
         phase' = phase \/ phase' = "end" \/ (phase \notin Undone \cup Closing /\ ~Waiting')
  PROVE  WholeInv'
<1>1. token \in Nat /\ Len(toReceiver) \in Nat
  BY LineFields
<1>2. phase \in Closing => phase' \in Closing
  BY DEF Closing
<1>3. Waiting' => Waiting
  BY DEF Waiting
<1>4. phase \in Undone => phase' \in Undone
  BY DEF Undone
<1>5. PICK l \in Nat : l = Len(toReceiver)
  BY <1>1
<1>6. \A i \in l + 1 .. l : FALSE
  OBVIOUS
<1>7. \A i \in Len(toReceiver) + 1 .. Len(toReceiver') : Says(toReceiver'[i])
  BY <1>5, <1>6
<1>8. QED
  BY <1>1, <1>2, <1>3, <1>4, <1>7, SenderKeepsWhole

LEMMA LineKeepsWhole ==
  ASSUME TypeOK, WholeInv, SenderReads, token' \in {token, token + 1},
         phase \in Closing => phase' \in Closing,
         phase \in Undone => phase' \in Undone,
         Waiting' /\ token' = token => Waiting,
         NEW x \in ToReceiverLine, Send(x), Says(x)
  PROVE  WholeInv'
<1>1. token \in Nat /\ toReceiver \in Seq(ToReceiverLine) /\ Len(toReceiver) \in Nat
  BY LineFields DEF TypeOK, ToReceiverOK
<1>2. token' \in Nat /\ token <= token'
  BY <1>1
<1>3. /\ Len(toReceiver') = Len(toReceiver) + 1
      /\ \A i \in 1 .. Len(toReceiver) : toReceiver'[i] = toReceiver[i]
      /\ toReceiver'[Len(toReceiver) + 1] = x
  BY <1>1, AppendProperties DEF Send
<1>4. PICK l \in Nat : l = Len(toReceiver)
  BY <1>1
<1>5. l + 1 \in Nat /\ l <= l + 1 /\ \A i \in l + 1 .. l + 1 : i = l + 1
  OBVIOUS
<1>6. \A i \in Len(toReceiver) + 1 .. Len(toReceiver') : Says(toReceiver'[i])
  BY <1>3, <1>4, <1>5, Zenon
<1>7. Len(toReceiver') \in Nat /\ Len(toReceiver) <= Len(toReceiver')
  BY <1>3, <1>4, <1>5
<1>8. QED
  BY <1>2, <1>3, <1>6, <1>7, SenderKeepsWhole

LEMMA AbortKeepsWhole ==
  ASSUME TypeOK, WholeInv, SenderReads, NEW why, NEW confirmed, Abort(why, confirmed)
  PROVE  WholeInv'
<1>1. Word("ERR") \in ToReceiverLine /\ Word("ERR").kind = "ERR"
  BY SentLineType DEF SenderKinds, Word, Line
<1>2. phase' = "end" /\ token' = token /\ Send(Word("ERR"))
  BY DEF Abort
<1>3. ~Waiting' /\ phase' \in Closing /\ phase' \in Undone
  BY <1>2 DEF Waiting, Closing, Undone
<1>4. Says(Word("ERR"))
  BY <1>1, <1>3 DEF Says, Verdict
<1>5. QED
  BY <1>1, <1>2, <1>3, <1>4, LineKeepsWhole

(* A question, put for the first time or again. *)
LEMMA AskKeepsWhole ==
  ASSUME TypeOK, WholeInv, SenderReads,
         NEW kind \in {"AYT", "RST", "BARRIER"}, NEW tok \in {token, token + 1},
         token' = tok, Send(Ask(kind, tok)), phase \notin Closing,
         phase \in Undone => phase' \in Undone,
         Waiting' => kind = "BARRIER" /\ (Waiting \/ tok = token + 1),
         kind = "RST" => phase' \in Undone
  PROVE  WholeInv'
<1>1. /\ token \in Nat /\ Ask(kind, tok) \in ToReceiverLine
      /\ Ask(kind, tok).kind = kind /\ Ask(kind, tok).tok = tok
  BY LineFields, AskType DEF Ask, Line
<1>2. tok \in Nat /\ tok <= tok /\ token + 1 # token
  BY <1>1
<1>3. Says(Ask(kind, tok))
  BY <1>1, <1>2 DEF Says, Verdict
<1>4. Waiting' /\ token' = token => Waiting
  BY <1>2
<1>5. QED
  BY <1>1, <1>3, <1>4, LineKeepsWhole

LEMMA BarrierKeepsWhole ==
  ASSUME TypeOK, WholeInv, SenderReads, phase \notin Closing,
         NEW after \in {"resume", "restart"}, NEW confirmed, StartBarrier(after, confirmed),
         phase \in Undone => after = "restart"
  PROVE  WholeInv'
<1>1. phase' = after /\ token' = token + 1 /\ Send(Ask("BARRIER", token + 1))
  BY DEF StartBarrier
<1>2. phase \in Undone => phase' \in Undone
  BY <1>1 DEF Undone
<1>3. QED
  BY <1>1, <1>2, AskKeepsWhole

LEMMA RestartKeepsWhole ==
  ASSUME TypeOK, WholeInv, SenderReads, phase \notin Closing, NEW confirmed, RestartFile(confirmed)
  PROVE  WholeInv'
  BY AbortKeepsWhole, BarrierKeepsWhole DEF RestartFile, FromTheStart

LEMMA RecoverKeepsWhole ==
  ASSUME TypeOK, WholeInv, SenderReads, phase \notin Undone \cup Closing, RecoverFlight
  PROVE  WholeInv'
  BY BarrierKeepsWhole DEF RecoverFlight

(* A window is filled, or the file is complete and DONE is sent. *)
LEMMA FillKeepsWhole ==
  ASSUME TypeOK, WholeInv, SenderReads, UNCHANGED token, phase \notin Undone \cup Closing,
         NEW b \in 0 .. Blocks, NEW n \in 0 .. Blocks, NEW w \in Nat \ {0}, Fill(b, n, w),
         AllAcked(b) => expected = Blocks
  PROVE  WholeInv'
<1>1. /\ phase' \in {"done", "end", "ack"}
      /\ Len(toReceiver) <= Len(toReceiver') /\ Len(toReceiver') \in Nat
      /\ \A i \in 1 .. Len(toReceiver) : toReceiver'[i] = toReceiver[i]
      /\ \A i \in Len(toReceiver) + 1 .. Len(toReceiver') :
           \/ toReceiver'[i].kind \in {"DATA", "ERR"}
           \/ toReceiver'[i].kind = "DONE" /\ AllAcked(b) /\ phase' = "done"
  BY FillLines, Zenon
<1>2. ~Waiting' /\ token \in Nat /\ token <= token
  BY <1>1, LineFields DEF Waiting
<1>3. ASSUME NEW i \in Len(toReceiver) + 1 .. Len(toReceiver') PROVE Says(toReceiver'[i])
  BY <1>1, <1>2 DEF Says, Verdict
<1>4. QED
  BY <1>1, <1>2, <1>3, SenderKeepsWhole, Zenon

(* The last acknowledgement is of a complete file. *)
LEMMA AcknowledgeKeepsWhole ==
  ASSUME TypeOK, WholeInv, SenderReads, TakeReply, phase \notin Undone \cup Closing,
         Reply.kind = "ACK", Reply.seq \in base .. nextSeq - 1, Acknowledge(Reply.seq)
  PROVE  WholeInv'
<1> DEFINE w == IF cleanAcks + 1 >= FlowGrowAcks THEN WindowSize ELSE cwnd
<1>1. /\ base \in 0 .. Blocks /\ nextSeq \in 0 .. Blocks /\ Blocks \in Nat
      /\ cwnd \in Nat \ {0} /\ WindowSize \in Nat \ {0}
  BY TransferAssumption DEF TypeOK, SenderTypeOK
<1>2. PICK b : b = Reply.seq + 1
  OBVIOUS
<1>3. b \in 0 .. Blocks
  BY <1>1, <1>2
<1>4. AllAcked(b) => expected = Blocks
  BY <1>2, ReplyIsHeard DEF Heard, AllAcked
<1>5. w \in Nat \ {0}
  BY <1>1
<1>6. Fill(b, nextSeq, w) /\ UNCHANGED token
  BY <1>2 DEF Acknowledge, askVars
<1> HIDE DEF w
<1>7. QED
  BY <1>1, <1>3, <1>4, <1>5, <1>6, FillKeepsWhole

LEMMA InterpretKeepsWhole ==
  ASSUME TypeOK, WholeInv, SenderReads, TakeReply, phase \notin Undone \cup Closing,
         NEW late, Interpret(Reply, late)
  PROVE  WholeInv'
<1>1. CASE \E why : Fail(why)
  BY <1>1, AbortKeepsWhole DEF Fail
<1>2. CASE KeepWaiting
  BY <1>2, SilenceKeepsWhole DEF KeepWaiting, askVars
<1>3. CASE Reply.kind = "ACK" /\ Reply.seq \in base .. nextSeq - 1 /\ Acknowledge(Reply.seq)
  BY <1>3, AcknowledgeKeepsWhole
<1>4. CASE RestartFile(resetToken)
  BY <1>4, RestartKeepsWhole
<1>5. CASE RecoverFlight
  BY <1>5, RecoverKeepsWhole
<1>6. QED
  BY <1>1, <1>2, <1>3, <1>4, <1>5 DEF Interpret

(* The barrier's answer names the receiver's position. *)
LEMMA ResumeFlightKeepsWhole ==
  ASSUME TypeOK, WholeInv, SenderReads, ResumeFlight
  PROVE  WholeInv'
<1>1. TakeReply /\ phase = "resume" /\ Resumes(Reply)
  BY DEF ResumeFlight, Waiting, Resumes
<1>2. Reply.seq = expected
  BY <1>1, ReplyIsHeard DEF Heard
<1>3. CASE \E why : Fail(why)
  BY <1>3, AbortKeepsWhole DEF Fail
<1>4. CASE Fill(expected, expected, cwnd) /\ UNCHANGED askVars
  <2>1. /\ expected \in 0 .. Blocks /\ cwnd \in Nat \ {0} /\ Blocks \in Nat
        /\ phase \notin Undone \cup Closing
    BY <1>1, TransferAssumption DEF TypeOK, ReceiverTypeOK, SenderTypeOK, Undone, Closing
  <2>2. AllAcked(expected) => expected = Blocks
    BY <2>1 DEF AllAcked
  <2>3. QED
    BY <1>4, <2>1, <2>2, FillKeepsWhole DEF askVars
<1>5. QED
  BY <1>2, <1>3, <1>4 DEF ResumeFlight

(* A reset is over: no acknowledgement of the old file is still to be read. *)
LEMMA ResumeFromZeroKeepsWhole ==
  ASSUME TypeOK, WholeInv, SenderReads, ResumeFromZero
  PROVE  WholeInv'
<1>1. TakeReply /\ phase = "restart" /\ Resumes(Reply)
  BY DEF ResumeFromZero, Waiting, Resumes
<1>2. Quiet /\ \A i \in 1 .. Len(toSender') : toSender'[i].kind # "ACK"
  BY <1>1, ReplyIsHeard
<1>3. CASE \E why : Fail(why)
  BY <1>3, AbortKeepsWhole DEF Fail
<1>4. CASE phase' = "ack" /\ Send(About("DATA", 0)) /\ UNCHANGED askVars
  <2>1. /\ token \in Nat /\ token' = token /\ token <= token
        /\ toReceiver \in Seq(ToReceiverLine) /\ Len(toReceiver) \in Nat
    BY <1>4, LineFields DEF askVars, TypeOK, ToReceiverOK
  <2>2. About("DATA", 0) \in ToReceiverLine /\ About("DATA", 0).kind = "DATA"
    BY SentLineType, TransferAssumption DEF SenderKinds, Frames, Seqs, About, Line
  <2>3. /\ Len(toReceiver') = Len(toReceiver) + 1
        /\ \A i \in 1 .. Len(toReceiver) : toReceiver'[i] = toReceiver[i]
        /\ toReceiver'[Len(toReceiver) + 1] = About("DATA", 0)
    BY <1>4, <2>1, <2>2, AppendProperties DEF Send
  <2>4. ~Waiting' /\ phase \notin Closing
    BY <1>1, <1>4 DEF Waiting, Closing
  <2>5. Says(About("DATA", 0))
    BY <2>2, <2>4 DEF Says, Verdict
  <2>6. PICK l \in Nat : l = Len(toReceiver)
    BY <2>1
  <2>7. l + 1 \in Nat /\ l <= l + 1 /\ \A i \in l + 1 .. l + 1 : i = l + 1
    OBVIOUS
  <2>8. Len(toReceiver') \in Nat /\ Len(toReceiver) <= Len(toReceiver')
    BY <2>3, <2>6, <2>7
  <2>9. \A i \in Len(toReceiver) + 1 .. Len(toReceiver') : Says(toReceiver'[i])
    BY <2>3, <2>5, <2>6, <2>7, Zenon
  <2>10. QED
    BY <1>2, <2>1, <2>3, <2>4, <2>8, <2>9, SenderKeepsWhole
<1>5. QED
  BY <1>3, <1>4 DEF ResumeFromZero, askVars

(* Every action of the sender. *)
LEMMA SenderStepKeepsWhole ==
  ASSUME TypeOK, WholeInv, SenderStep
  PROVE  WholeInv'
<1>1. SenderReads
  BY SenderStepReads
<1>2. CASE RecvReady
  <2>1. phase \notin Undone \cup Closing /\ ~Waiting
    BY <1>2 DEF RecvReady, Undone, Closing, Waiting
  <2>2. CASE Fill(0, 0, 1) /\ UNCHANGED askVars
    <3>1. 0 \in 0 .. Blocks /\ 1 \in Nat \ {0} /\ ~AllAcked(0)
      BY TransferAssumption DEF AllAcked
    <3>2. QED
      BY <1>1, <2>1, <2>2, <3>1, FillKeepsWhole DEF askVars
  <2>3. CASE phase' = "end" /\ UNCHANGED <<askVars, toReceiver>>
    BY <1>1, <2>3, SilenceKeepsWhole DEF askVars
  <2>4. QED
    BY <1>2, <2>2, <2>3 DEF RecvReady
<1>3. CASE GiveUp
  BY <1>1, <1>3, SilenceKeepsWhole DEF GiveUp, askVars
<1>4. CASE RecvWindowReply
  <2>1. TakeReply /\ phase \notin Undone \cup Closing
    BY <1>4 DEF RecvWindowReply, Undone, Closing
  <2>2. CASE KeepWaiting
    BY <1>1, <2>2, SilenceKeepsWhole DEF KeepWaiting, askVars
  <2>3. CASE EnterGuard("reguard")
    BY <1>1, <2>1, <2>3, SilenceKeepsWhole DEF EnterGuard, askVars, Waiting
  <2>4. CASE \E late \in Lateness : Interpret(Reply, late)
    BY <1>1, <2>1, <2>4, InterpretKeepsWhole
  <2>5. QED
    BY <1>4, <2>2, <2>3, <2>4 DEF RecvWindowReply
<1>5. CASE AckTimeout
  BY <1>1, <1>5, SilenceKeepsWhole DEF AckTimeout, EnterGuard, askVars, Undone, Closing, Waiting
<1>6. CASE RecvInGuard
  <2>1. TakeReply /\ phase \notin Undone \cup Closing
    BY <1>6 DEF RecvInGuard, Undone, Closing
  <2>2. CASE EnterGuard("reguard")
    BY <1>1, <2>1, <2>2, SilenceKeepsWhole DEF EnterGuard, askVars, Waiting
  <2>3. CASE Interpret(Reply, TRUE)
    BY <1>1, <2>1, <2>3, InterpretKeepsWhole
  <2>4. QED
    BY <1>6, <2>2, <2>3 DEF RecvInGuard
<1>7. CASE GuardTimeout
  BY <1>1, <1>7, AskKeepsWhole DEF GuardTimeout, Undone, Closing, Waiting
<1>8. CASE RecvProbeReply
  <2>1. TakeReply /\ phase \notin Undone \cup Closing
    BY <1>8 DEF RecvProbeReply, Undone, Closing
  <2>2. CASE KeepWaiting
    BY <1>1, <2>2, SilenceKeepsWhole DEF KeepWaiting, askVars
  <2>3. CASE RecoverFlight \/ Interpret(Reply, TRUE)
    BY <1>1, <2>1, <2>3, RecoverKeepsWhole, InterpretKeepsWhole
  <2>4. QED
    BY <1>8, <2>2, <2>3 DEF RecvProbeReply
<1>9. CASE ProbeTimeout
  <2>1. phase = "probe" /\ token' = token + 1 /\ phase \notin Undone \cup Closing
    BY <1>9 DEF ProbeTimeout, Undone, Closing
  <2>2. CASE Send(Ask("AYT", token + 1)) /\ UNCHANGED phase
    BY <1>1, <2>1, <2>2, AskKeepsWhole DEF Waiting
  <2>3. CASE Send(Ask("RST", token + 1)) /\ phase' = "reset"
    BY <1>1, <2>1, <2>3, AskKeepsWhole DEF Undone, Waiting
  <2>4. QED
    BY <1>9, <2>2, <2>3 DEF ProbeTimeout
<1>10. CASE ConfirmReset
  BY <1>1, <1>10, RestartKeepsWhole DEF ConfirmReset, Closing
<1>11. CASE RecvOtherResetReply
  BY <1>1, <1>11, SilenceKeepsWhole, AbortKeepsWhole
  DEF RecvOtherResetReply, KeepWaiting, Fail, askVars
<1>12. CASE ResetTimeout
  BY <1>1, <1>12, AskKeepsWhole, AbortKeepsWhole DEF ResetTimeout, Fail, Undone, Closing, Waiting
<1>13. CASE ResumeFlight \/ ResumeFromZero
  BY <1>1, <1>13, ResumeFlightKeepsWhole, ResumeFromZeroKeepsWhole
<1>14. CASE RecvOtherBarrierReply
  BY <1>1, <1>14, SilenceKeepsWhole, AbortKeepsWhole
  DEF RecvOtherBarrierReply, KeepWaiting, Fail, askVars
<1>15. CASE BarrierTimeout
  BY <1>1, <1>15, AskKeepsWhole, AbortKeepsWhole DEF BarrierTimeout, Fail, Closing, Waiting
<1>16. CASE RecvFinal
  BY <1>1, <1>16, SilenceKeepsWhole DEF RecvFinal, KeepWaiting, askVars
<1>17. QED
  BY <1>2, <1>3, <1>4, <1>5, <1>6, <1>7, <1>8, <1>9, <1>10, <1>11, <1>12, <1>13, <1>14,
     <1>15, <1>16 DEF SenderStep

(* What is left of the line, or one line of it repeated: every line was one *)
(* of the old ones, and stands in their order or next to its repeat.        *)
Doubled ==
  /\ toReceiver # <<>> /\ Len(toReceiver') = Len(toReceiver) + 1
  /\ toReceiver'[1] = toReceiver[1]
  /\ \A i \in 2 .. Len(toReceiver') : toReceiver'[i] = toReceiver[i - 1]
InPlace(i, j) ==
  \E k, l \in 1 .. Len(toReceiver) :
    /\ Weaker(toReceiver'[i], toReceiver[k]) /\ toReceiver'[j] = toReceiver[l]
    /\ k < l \/ (k = l /\ toReceiver'[i] = toReceiver[k])

LEMMA LinesInPlace ==
  ASSUME TypeOK, UNCHANGED toReceiver \/ Thinned \/ Doubled
  PROVE  /\ \A i \in 1 .. Len(toReceiver') :
              \E k \in 1 .. Len(toReceiver) : Weaker(toReceiver'[i], toReceiver[k])
         /\ \A i, j \in 1 .. Len(toReceiver') : i < j => InPlace(i, j)
<1>1. Len(toReceiver) \in Nat
  BY LineTypes
<1>2. \A m : Weaker(m, m)
  BY DEF Weaker
<1>3. CASE UNCHANGED toReceiver
  BY <1>2, <1>3, Zenon DEF InPlace
<1>4. CASE Thinned
  <2>1. PICK d \in {0, 1} : ThinnedBy(d)
    BY <1>4 DEF Thinned
  <2>2. ASSUME NEW i \in 1 .. Len(toReceiver')
        PROVE  \E k \in 1 .. Len(toReceiver) :
                 Weaker(toReceiver'[i], toReceiver[k]) /\ (k = i + d \/ (i = 1 /\ k = 1))
    BY <2>1, LinePlaced
  <2>3. ASSUME NEW i \in 1 .. Len(toReceiver'), NEW j \in 1 .. Len(toReceiver'), i < j
        PROVE  InPlace(i, j)
    <3>1. PICK k \in 1 .. Len(toReceiver) :
                 Weaker(toReceiver'[i], toReceiver[k]) /\ (k = i + d \/ (i = 1 /\ k = 1))
      BY <2>2
    <3>2. /\ j + d \in 1 .. Len(toReceiver) /\ toReceiver'[j] = toReceiver[j + d] /\ k < j + d
      BY <1>1, <2>1, <2>3, <3>1 DEF ThinnedBy
    <3>3. QED
      BY <3>1, <3>2, Zenon DEF InPlace
  <2>4. QED
    BY <2>2, <2>3
<1>5. CASE Doubled
  <2>1. PICK n \in Nat : n = Len(toReceiver) /\ Len(toReceiver') = n + 1
    BY <1>1, <1>5 DEF Doubled
  <2>2. n > 0 /\ toReceiver'[1] = toReceiver[1]
    BY <1>5, <2>1, EmptySeq DEF TypeOK, ToReceiverOK, Doubled
  <2>3. ASSUME NEW i \in 2 .. n + 1 PROVE i - 1 \in 1 .. n /\ toReceiver'[i] = toReceiver[i - 1]
    BY <1>5, <2>1 DEF Doubled
  <2>4. ASSUME NEW i \in 1 .. n + 1
        PROVE  \E k \in 1 .. n : toReceiver'[i] = toReceiver[k] /\ (k = i - 1 \/ (i = 1 /\ k = 1))
    <3>1. 1 \in 1 .. n /\ (i = 1 \/ i \in 2 .. n + 1)
      BY <2>2
    <3>2. QED
      BY <2>2, <2>3, <3>1, Zenon
  <2>5. ASSUME NEW i \in 1 .. n + 1, NEW j \in 1 .. n + 1, i < j PROVE InPlace(i, j)
    <3>1. PICK k \in 1 .. n : toReceiver'[i] = toReceiver[k] /\ (k = i - 1 \/ (i = 1 /\ k = 1))
      BY <2>4
    <3>2. j \in 2 .. n + 1 /\ k <= j - 1
      BY <2>5, <3>1
    <3>3. j - 1 \in 1 .. n /\ toReceiver'[j] = toReceiver[j - 1] /\ (k < j - 1 \/ k = j - 1)
      BY <2>3, <3>2
    <3>4. QED
      BY <1>2, <2>1, <3>1, <3>3, Zenon DEF InPlace
  <2>6. QED
    BY <1>2, <2>1, <2>4, <2>5, Zenon
<1>6. QED
  BY <1>3, <1>4, <1>5

(* The same of the line to the sender, where one answer may be new. *)
AnswersInPlace(x) ==
  /\ \A i \in 1 .. Len(toSender') :
       \/ toSender'[i].kind = "JUNK" \/ toSender'[i] = x
       \/ \E k \in 1 .. Len(toSender) : toSender'[i] = toSender[k]
  /\ \A i, j \in 1 .. Len(toSender') : i < j =>
       \/ toSender'[i].kind = "JUNK" \/ toSender'[j].kind = "JUNK"
       \/ toSender'[i] = toSender'[j]
       \/ \E k \in 1 .. Len(toSender) :
            /\ toSender'[i] = toSender[k]
            /\ \/ toSender'[j] = x
               \/ \E l \in 1 .. Len(toSender) : k < l /\ toSender'[j] = toSender[l]

Answered(x) == toSender' = Append(toSender, x) /\ x \in ToSenderLine
AnswerDoubled ==
  /\ toSender # <<>> /\ Len(toSender') = Len(toSender) + 1
  /\ toSender'[1] = toSender[1]
  /\ \A i \in 2 .. Len(toSender') : toSender'[i] = toSender[i - 1]

LEMMA AnswersArePlaced ==
  ASSUME TypeOK, NEW x, Spared \/ AnswerDoubled \/ Answered(x)
  PROVE  AnswersInPlace(x)
<1>1. Len(toSender) \in Nat /\ toSender \in Seq(ToSenderLine)
  BY LineTypes DEF TypeOK, ToSenderOK
<1>2. PICK n \in Nat : n = Len(toSender)
  BY <1>1
<1>3. CASE Spared
  <2>1. PICK d \in {0, 1} : SparedBy(d)
    BY <1>3 DEF Spared
  <2>2. PICK r : r = Len(toSender')
    OBVIOUS
  <2>3. r \in Int /\ r = n - d
    BY <1>2, <2>1, <2>2 DEF SparedBy
  <2>4. ASSUME NEW i \in 1 .. r
        PROVE  i + d \in 1 .. n
               /\ (toSender'[i] = toSender[i + d] \/ toSender'[i].kind = "JUNK")
    BY <2>1, <2>2, <2>3 DEF SparedBy
  <2>5. \A i, j \in 1 .. r : i < j => i + d < j + d
    BY <2>3
  <2>6. QED
    BY <1>2, <2>2, <2>4, <2>5, Zenon DEF AnswersInPlace
<1>4. CASE AnswerDoubled
  <2>1. Len(toSender') = n + 1 /\ n > 0 /\ toSender'[1] = toSender[1]
    BY <1>1, <1>2, <1>4, EmptySeq DEF AnswerDoubled
  <2>2. ASSUME NEW i \in 2 .. n + 1 PROVE i - 1 \in 1 .. n /\ toSender'[i] = toSender[i - 1]
    BY <1>4, <2>1 DEF AnswerDoubled
  <2>3. ASSUME NEW i \in 1 .. n + 1
        PROVE  \E k \in 1 .. n : toSender'[i] = toSender[k] /\ (k = i - 1 \/ (i = 1 /\ k = 1))
    <3>1. 1 \in 1 .. n /\ (i = 1 \/ i \in 2 .. n + 1)
      BY <2>1
    <3>2. QED
      BY <2>1, <2>2, <3>1, Zenon
  <2>4. ASSUME NEW i \in 1 .. n + 1, NEW j \in 1 .. n + 1, i < j
        PROVE  \/ toSender'[i] = toSender'[j]
               \/ \E k, l \in 1 .. n : /\ k < l
                                       /\ toSender'[i] = toSender[k] /\ toSender'[j] = toSender[l]
    <3>1. PICK k \in 1 .. n : toSender'[i] = toSender[k] /\ (k = i - 1 \/ (i = 1 /\ k = 1))
      BY <2>3
    <3>2. j \in 2 .. n + 1 /\ k <= j - 1
      BY <2>4, <3>1
    <3>3. j - 1 \in 1 .. n /\ toSender'[j] = toSender[j - 1] /\ (k < j - 1 \/ k = j - 1)
      BY <2>2, <3>2
    <3>4. QED
      BY <3>1, <3>3, Zenon
  <2>5. \A i \in 1 .. n + 1 : \E k \in 1 .. n : toSender'[i] = toSender[k]
    BY <2>3, Zenon
  <2>6. ASSUME NEW i \in 1 .. n + 1, NEW j \in 1 .. n + 1, i < j
        PROVE  \/ toSender'[i] = toSender'[j]
               \/ \E k \in 1 .. n :
                    /\ toSender'[i] = toSender[k]
                    /\ \/ toSender'[j] = x
                       \/ \E l \in 1 .. n : k < l /\ toSender'[j] = toSender[l]
    BY <2>4, <2>6, Zenon
  <2>7. 1 .. Len(toSender') = 1 .. n + 1 /\ 1 .. Len(toSender) = 1 .. n
    BY <1>2, <2>1
  <2>8. \A i \in 1 .. Len(toSender') : \E k \in 1 .. Len(toSender) : toSender'[i] = toSender[k]
    BY <2>5, <2>7, Zenon
  <2>9. \A i, j \in 1 .. Len(toSender') : i < j =>
          \/ toSender'[i] = toSender'[j]
          \/ \E k \in 1 .. Len(toSender) :
               /\ toSender'[i] = toSender[k]
               /\ \/ toSender'[j] = x
                  \/ \E l \in 1 .. Len(toSender) : k < l /\ toSender'[j] = toSender[l]
    BY <2>6, <2>7
  <2>10. QED
    BY <2>8, <2>9, Zenon DEF AnswersInPlace
<1>5. CASE Answered(x)
  <2>1. /\ Len(toSender') = n + 1 /\ toSender'[n + 1] = x
        /\ \A i \in 1 .. n : toSender'[i] = toSender[i]
    BY <1>1, <1>2, <1>5, AppendProperties DEF Answered
  <2>2. \A i \in 1 .. n + 1 : i \in 1 .. n \/ i = n + 1
    OBVIOUS
  <2>3. \A i, j \in 1 .. n + 1 : i < j => i \in 1 .. n
    OBVIOUS
  <2>4. QED
    BY <1>2, <2>1, <2>2, <2>3, Zenon DEF AnswersInPlace
<1>6. QED
  BY <1>3, <1>4, <1>5

(* A step of the receiver or of the line.  The position moves only when no  *)
(* barrier is answered, and of a complete file only back to 0 in a reset.   *)
LEMMA ReaderKeepsWhole ==
  ASSUME TypeOK, WholeInv, UNCHANGED <<senderVars, setting>>,
         UNCHANGED toReceiver \/ Thinned \/ Doubled,
         \/ UNCHANGED expected
         \/ /\ ~Resuming
            /\ \/ expected # Blocks
               \/ /\ phase \in Undone
                  /\ \A i \in 1 .. Len(toReceiver') : toReceiver'[i].kind \notin Verdict,
         NEW x,
         \/ Spared
         \/ AnswerDoubled
         \/ /\ Answered(x) /\ Heard(x)'
            /\ Resuming => x.kind # "ACK"
            /\ Resumes(x) => Quiet'
  PROVE  WholeInv'
<1>1. ToldInv /\ HeardInv /\ QuietInv
  BY DEF WholeInv
<1>2. UNCHANGED <<phase, token>>
  BY DEF senderVars, askVars
<1>3. /\ \A i \in 1 .. Len(toReceiver') :
           \E k \in 1 .. Len(toReceiver) : Weaker(toReceiver'[i], toReceiver[k])
      /\ \A i, j \in 1 .. Len(toReceiver') : i < j => InPlace(i, j)
  BY LinesInPlace
<1>4. PICK y : /\ AnswersInPlace(y) /\ Heard(y)'
               /\ Resuming => y.kind # "ACK"
               /\ Resumes(y) => Quiet'
  <2>1. Word("JUNK").kind = "JUNK"
    BY DEF Word, Line
  <2>2. Heard(Word("JUNK"))' /\ ~Resumes(Word("JUNK"))
    BY <2>1 DEF Heard, Resumes
  <2>3. CASE Spared \/ AnswerDoubled
    BY <2>1, <2>2, <2>3, AnswersArePlaced
  <2>4. QED
    BY <2>3, AnswersArePlaced
<1>5. \A m : Resumes(m)' <=> Resumes(m)
  BY <1>2 DEF Resumes, Waiting
<1>6. ASSUME NEW i \in 1 .. Len(toReceiver') PROVE Told(toReceiver[i])'
  <2>1. PICK k \in 1 .. Len(toReceiver) : Weaker(toReceiver'[i], toReceiver[k])
    BY <1>3
  <2>2. PICK m, old : m = toReceiver'[i] /\ old = toReceiver[k]
    OBVIOUS
  <2>3. Weaker(m, old) /\ Told(old)
    BY <1>1, <2>1, <2>2 DEF ToldInv
  <2>4. m.kind \in Verdict => old.kind \in Verdict
    BY <2>3 DEF Weaker, Verdict, Frames
  <2>5. m.kind \in {"RST", "BARRIER"} => m = old
    BY <2>3 DEF Weaker, Verdict, Frames
  <2>6. m.kind \in Verdict => phase' \in Closing /\ expected' = Blocks
    BY <1>2, <2>2, <2>3, <2>4 DEF Told
  <2>7. QED
    BY <1>2, <2>2, <2>3, <2>5, <2>6 DEF Told
<1>7. ASSUME NEW i \in 1 .. Len(toReceiver'), NEW j \in 1 .. Len(toReceiver'), i < j
      PROVE  ToldAhead(toReceiver[i], toReceiver[j])'
  <2>1. PICK k \in 1 .. Len(toReceiver), l \in 1 .. Len(toReceiver) :
          /\ Weaker(toReceiver'[i], toReceiver[k]) /\ toReceiver'[j] = toReceiver[l]
          /\ k < l \/ (k = l /\ toReceiver'[i] = toReceiver[k])
    BY <1>3, <1>7 DEF InPlace
  <2>2. PICK m, old, b : m = toReceiver'[i] /\ old = toReceiver[k] /\ b = toReceiver[l]
    OBVIOUS
  <2>3. m.kind \in {"RST", "BARRIER"} => m = old
    BY <2>1, <2>2 DEF Weaker, Verdict, Frames
  <2>4. k < l => ToldAhead(old, b)
    BY <1>1, <2>2 DEF ToldInv
  <2>5. k = l => m = b
    BY <2>1, <2>2
  <2>6. ToldAhead(m, b)
    BY <2>1, <2>3, <2>4, <2>5 DEF ToldAhead, Verdict
  <2>7. toReceiver'[i] = m /\ toReceiver'[j] = b
    BY <2>1, <2>2
  <2>8. QED
    BY <1>2, <2>6, <2>7, Zenon DEF ToldAhead, Waiting
<1>8. Quiet => Quiet'
  BY <1>3 DEF Quiet, Weaker, Frames, Verdict
<1>9. ASSUME NEW m, NEW k \in 1 .. Len(toSender), m = toSender[k]
      PROVE  Heard(m)' /\ (Resumes(m) => Resuming)
  <2>1. Heard(m) /\ (Resumes(m) => Resuming)
    BY <1>1, <1>9, Zenon DEF HeardInv, Resuming
  <2>2. CASE UNCHANGED expected
    BY <1>2, <1>5, <2>1, <2>2, Zenon DEF Heard
  <2>3. CASE ~Resuming /\ (expected # Blocks \/ phase \in Undone)
    BY <1>2, <1>5, <2>1, <2>3, Zenon DEF Heard
  <2>4. QED
    BY <2>1, <2>2, <2>3
<1>10. \A m : m.kind = "JUNK" => Heard(m)' /\ ~Resumes(m)
  BY DEF Heard, Resumes
<1>11. ASSUME NEW i \in 1 .. Len(toSender')
       PROVE  Heard(toSender[i])' /\ (Resumes(toSender[i])' => Quiet')
  <2>1. PICK m : m = toSender'[i]
    OBVIOUS
  <2>2. m.kind = "JUNK" \/ m = y \/ \E k \in 1 .. Len(toSender) : m = toSender[k]
    BY <1>4, <2>1, Zenon DEF AnswersInPlace
  <2>3. Heard(m)' /\ (Resumes(m) => Quiet')
    <3>1. CASE m.kind = "JUNK" \/ m = y
      BY <1>4, <1>10, <3>1, Zenon
    <3>2. ASSUME NEW k \in 1 .. Len(toSender), m = toSender[k]
          PROVE  Heard(m)' /\ (Resumes(m) => Quiet')
      BY <1>1, <1>8, <1>9, <3>2, Zenon DEF QuietInv
    <3>3. QED
      BY <2>2, <3>1, <3>2, Zenon
  <2>4. QED
    BY <1>5, <2>1, <2>3, Zenon
<1>12. ASSUME NEW i \in 1 .. Len(toSender'), NEW j \in 1 .. Len(toSender'), i < j
       PROVE  SaidAhead(toSender[i], toSender[j])'
  <2>1. PICK m, b : m = toSender'[i] /\ b = toSender'[j]
    OBVIOUS
  <2>2. \/ m.kind = "JUNK" \/ b.kind = "JUNK" \/ m = b
        \/ \E k \in 1 .. Len(toSender) :
             /\ m = toSender[k]
             /\ \/ b = y
                \/ \E l \in 1 .. Len(toSender) : k < l /\ b = toSender[l]
    BY <1>4, <1>12, <2>1, Zenon DEF AnswersInPlace
  <2>3. ASSUME Resumes(m) PROVE b.kind # "ACK"
    <3>1. m.kind = "RESUME"
      BY <2>3 DEF Resumes
    <3>2. ASSUME NEW k \in 1 .. Len(toSender), m = toSender[k], b = y PROVE b.kind # "ACK"
      BY <1>4, <1>9, <2>3, <3>2, Zenon
    <3>3. ASSUME NEW k \in 1 .. Len(toSender), NEW l \in 1 .. Len(toSender),
                 m = toSender[k], k < l, b = toSender[l]
          PROVE  b.kind # "ACK"
      BY <1>1, <2>3, <3>3, Zenon DEF HeardInv, SaidAhead
    <3>4. CASE m.kind = "JUNK" \/ b.kind = "JUNK" \/ m = b
      BY <3>1, <3>4
    <3>5. QED
      BY <2>2, <3>2, <3>3, <3>4, Zenon
  <2>4. QED
    BY <1>5, <2>1, <2>3, Zenon DEF SaidAhead
<1>13. QED
  BY <1>6, <1>7, <1>11, <1>12, Zenon DEF WholeInv, ToldInv, HeardInv, QuietInv

(* The line that reaches the receiver, on any line. *)
LEMMA InputIsTold ==
  ASSUME TypeOK, WholeInv, toReceiver # <<>>
  PROVE  /\ Input \in ToReceiverLine /\ Told(Input)
         /\ Resuming => Input.kind \in {"BARRIER", "JUNK"}
         /\ \A i \in 1 .. Len(Tail(toReceiver)) : ToldAhead(Input, Tail(toReceiver)[i])
<1>1. /\ Len(toReceiver) \in Nat \ {0} /\ Len(Tail(toReceiver)) = Len(toReceiver) - 1
      /\ \A i \in 1 .. Len(Tail(toReceiver)) : Tail(toReceiver)[i] = toReceiver[i + 1]
      /\ Input = toReceiver[1]
  BY TailElements DEF TypeOK, ToReceiverOK, Input
<1>2. /\ 1 \in 1 .. Len(toReceiver)
      /\ \A i \in 1 .. Len(Tail(toReceiver)) : i + 1 \in 1 .. Len(toReceiver) /\ 1 < i + 1
  BY <1>1
<1>3. ToldInv /\ QuietInv
  BY DEF WholeInv
<1>4. Input \in ToReceiverLine /\ Told(Input)
  BY <1>1, <1>2, <1>3, LineTypes, Zenon DEF ToldInv
<1>5. Resuming => Input.kind \in {"BARRIER", "JUNK"}
  BY <1>1, <1>2, <1>3, Zenon DEF QuietInv, Quiet, Resuming
<1>6. \A i \in 1 .. Len(Tail(toReceiver)) : ToldAhead(Input, Tail(toReceiver)[i])
  BY <1>1, <1>2, <1>3, Zenon DEF ToldInv
<1>7. QED
  BY <1>4, <1>5, <1>6

(* The position stands still and the answer, if any, does not name it. *)
LEMMA StandingKeepsWhole ==
  ASSUME TypeOK, WholeInv, UNCHANGED <<senderVars, setting, expected>>,
         UNCHANGED toReceiver \/ Thinned \/ Doubled,
         \/ Spared
         \/ AnswerDoubled
         \/ \E x \in ToSenderLine : /\ toSender' = Append(toSender, x)
                                    /\ x.kind \notin {"ACK", "RST", "RESUME"}
  PROVE  WholeInv'
<1>1. CASE Spared \/ AnswerDoubled
  BY <1>1, ReaderKeepsWhole
<1>2. ASSUME NEW x \in ToSenderLine, toSender' = Append(toSender, x),
             x.kind \notin {"ACK", "RST", "RESUME"}
      PROVE  WholeInv'
  <2>1. Answered(x) /\ Heard(x)' /\ ~Resumes(x) /\ x.kind # "ACK"
    BY <1>2 DEF Answered, Heard, Resumes
  <2>2. QED
    BY <2>1, ReaderKeepsWhole
<1>3. QED
  BY <1>1, <1>2

(* The answers that name the receiver's position. *)
LEMMA RecvAnsweredKeepsWhole ==
  ASSUME TypeOK, WholeInv, RecvAnswered
  PROVE  WholeInv'
<1>1. /\ toReceiver # <<>> /\ toReceiver' = Tail(toReceiver)
      /\ UNCHANGED <<senderVars, setting, expected>> /\ Thinned
  BY LineThins DEF RecvAnswered, Read, TakeInput, OfReceiver, receiverVars
<1>2. /\ Input \in ToReceiverLine /\ Told(Input)
      /\ Resuming => Input.kind \in {"BARRIER", "JUNK"}
      /\ \A i \in 1 .. Len(Tail(toReceiver)) : ToldAhead(Input, Tail(toReceiver)[i])
  BY <1>1, InputIsTold
<1>3. /\ Input.tok \in Nat /\ Input.seq \in Nat /\ expected \in Nat /\ expected <= Blocks
      /\ Blocks \in Nat /\ UNCHANGED <<phase, token>>
  BY <1>1, <1>2, TransferAssumption
  DEF TypeOK, ReceiverTypeOK, ToReceiverLine, Seqs, senderVars, askVars
<1>4. CASE Input.kind = "DATA" /\ Input.seq < expected /\ Answer(About("ACK", expected - 1))
  <2>1. PICK x : x = About("ACK", expected - 1)
    OBVIOUS
  <2>2. expected - 1 \in Nat /\ (expected - 1) + 1 = expected
    BY <1>3, <1>4
  <2>3. x \in ToSenderLine /\ x.kind = "ACK" /\ x.seq = expected - 1
    BY <2>1, <2>2, AnswerLineType DEF ReceiverKinds, About, Line
  <2>4. x.seq + 1 >= Blocks => expected = Blocks
    BY <1>3, <2>2, <2>3
  <2>5. Heard(x)' /\ ~Resumes(x) /\ ~Resuming
    BY <1>1, <1>2, <1>4, <2>3, <2>4 DEF Heard, Resumes
  <2>6. Answered(x)
    BY <1>4, <2>1, <2>3 DEF Answer, Answered
  <2>7. QED
    BY <1>1, <2>5, <2>6, ReaderKeepsWhole
<1>5. CASE Input.kind = "BARRIER" /\ Answer(Line("RESUME", Input.tok, expected))
  <2>1. PICK x : x = Line("RESUME", Input.tok, expected)
    OBVIOUS
  <2>2. x \in ToSenderLine /\ x.kind = "RESUME" /\ x.tok = Input.tok /\ x.seq = expected
    BY <1>3, <2>1, AnswerLineType DEF ReceiverKinds, Line
  <2>3. Heard(x)'
    BY <1>1, <1>2, <1>3, <1>5, <2>2 DEF Heard, Told, Resumes
  <2>4. Resumes(x) => Quiet'
    <3>1. SUFFICES ASSUME Resumes(x), NEW i \in 1 .. Len(toReceiver')
                   PROVE  toReceiver'[i].kind = "BARRIER"
      BY DEF Quiet
    <3>2. ToldAhead(Input, toReceiver'[i])
      BY <1>1, <1>2
    <3>3. QED
      BY <1>5, <2>2, <3>1, <3>2 DEF ToldAhead, Resumes
  <2>5. Answered(x) /\ x.kind # "ACK"
    BY <1>5, <2>1, <2>2 DEF Answer, Answered
  <2>6. QED
    BY <1>1, <2>3, <2>4, <2>5, ReaderKeepsWhole
<1>6. CASE \/ Answer(About("NAK", expected))
           \/ Answer(Line("HERE", Input.tok, expected))
  <2>1. /\ About("NAK", expected) \in ToSenderLine /\ About("NAK", expected).kind = "NAK"
        /\ Line("HERE", Input.tok, expected) \in ToSenderLine
        /\ Line("HERE", Input.tok, expected).kind = "HERE"
    BY <1>3, AnswerLineType DEF ReceiverKinds, About, Line
  <2>2. \E x \in ToSenderLine : /\ toSender' = Append(toSender, x)
                                /\ x.kind \notin {"ACK", "RST", "RESUME"}
    BY <1>6, <2>1 DEF Answer
  <2>3. QED
    BY <1>1, <2>2, StandingKeepsWhole
<1>7. QED
  BY <1>4, <1>5, <1>6 DEF RecvAnswered

(* A block or a gap: the file was not complete. *)
LEMMA FrameKeepsWhole ==
  ASSUME TypeOK, WholeInv, RecvBlock \/ RecvGap
  PROVE  WholeInv'
<1>1. /\ toReceiver # <<>> /\ toReceiver' = Tail(toReceiver) /\ Input.kind = "DATA"
      /\ Input.seq >= expected /\ UNCHANGED <<senderVars, setting>> /\ Thinned
  <2>1. /\ toReceiver # <<>> /\ toReceiver' = Tail(toReceiver) /\ Input.kind = "DATA"
        /\ Input.seq = expected \/ Input.seq > expected
        /\ UNCHANGED <<senderVars, setting>>
    BY DEF RecvBlock, RecvGap, Read, TakeInput, OfReceiver
  <2>2. Input.seq \in Nat /\ expected \in Nat
    BY <2>1, InputIsTold, TransferAssumption DEF ToReceiverLine, Seqs, TypeOK, ReceiverTypeOK
  <2>3. QED
    BY <2>1, <2>2, LineThins
<1>2. /\ ~Resuming /\ expected \in Nat /\ expected < Blocks /\ Blocks \in Nat
      /\ UNCHANGED <<phase, token>>
  <2>1. ~Resuming /\ Input.seq \in 0 .. Blocks - 1
    BY <1>1, InputIsTold DEF ToReceiverLine, Seqs
  <2>2. expected \in Nat /\ Blocks \in Nat
    BY TransferAssumption DEF TypeOK, ReceiverTypeOK
  <2>3. QED
    BY <1>1, <2>1, <2>2 DEF senderVars, askVars
<1>3. CASE RecvBlock
  <2>1. PICK x : x = About("ACK", expected)
    OBVIOUS
  <2>2. x \in ToSenderLine /\ x.kind = "ACK" /\ x.seq = expected
    BY <1>2, <2>1, AnswerLineType DEF ReceiverKinds, About, Line
  <2>3. toSender' = Append(toSender, x) /\ expected' = expected + 1
    BY <1>3, <2>1 DEF RecvBlock, Answer
  <2>4. x.seq + 1 >= Blocks => expected' = Blocks
    BY <1>2, <2>2, <2>3
  <2>5. Heard(x)' /\ ~Resumes(x) /\ Answered(x)
    BY <2>2, <2>3, <2>4 DEF Heard, Resumes, Answered
  <2>6. QED
    BY <1>1, <1>2, <2>5, ReaderKeepsWhole
<1>4. CASE RecvGap
  <2>1. PICK x \in ToSenderLine :
          toSender' = Append(toSender, x) /\ x.kind \in {"DROP", "RST", "ERR"}
    <3>1. /\ About("DROP", expected) \in ToSenderLine /\ About("DROP", expected).kind = "DROP"
          /\ Word("RST") \in ToSenderLine /\ Word("RST").kind = "RST"
          /\ Word("ERR") \in ToSenderLine /\ Word("ERR").kind = "ERR"
      BY <1>2, AnswerLineType DEF ReceiverKinds, About, Word, Line
    <3>2. QED
      BY <1>4, <3>1 DEF RecvGap, Answer
  <2>2. Heard(x)' /\ ~Resumes(x) /\ Answered(x)
    BY <2>1 DEF Heard, Resumes, Answered
  <2>3. expected # Blocks
    BY <1>2
  <2>4. QED
    BY <1>1, <1>2, <2>2, <2>3, ReaderKeepsWhole
<1>5. QED
  BY <1>3, <1>4

(* The sender's reset: no DONE is behind it. *)
LEMMA RecvResetKeepsWhole ==
  ASSUME TypeOK, WholeInv, RecvReset
  PROVE  WholeInv'
<1>1. /\ toReceiver # <<>> /\ toReceiver' = Tail(toReceiver) /\ Input.kind = "RST"
      /\ UNCHANGED <<senderVars, setting>> /\ Thinned
      /\ toSender' = Append(toSender, Ask("RSTACK", Input.tok))
  BY LineThins DEF RecvReset, Read, TakeInput, OfReceiver, Answer
<1>2. /\ Input \in ToReceiverLine /\ Told(Input) /\ ~Resuming
      /\ \A i \in 1 .. Len(Tail(toReceiver)) : ToldAhead(Input, Tail(toReceiver)[i])
  BY <1>1, InputIsTold
<1>3. phase \in Undone /\ \A i \in 1 .. Len(toReceiver') : toReceiver'[i].kind \notin Verdict
  BY <1>1, <1>2 DEF Told, ToldAhead
<1>4. PICK x : x = Ask("RSTACK", Input.tok)
  OBVIOUS
<1>5. Input.tok \in Nat
  BY <1>2 DEF ToReceiverLine
<1>6. x \in ToSenderLine /\ x.kind = "RSTACK"
  BY <1>4, <1>5, AnswerLineType DEF ReceiverKinds, Ask, Line
<1>7. Heard(x)' /\ ~Resumes(x) /\ Answered(x)
  BY <1>1, <1>4, <1>6 DEF Heard, Resumes, Answered
<1>8. QED
  BY <1>1, <1>2, <1>3, <1>6, <1>7, ReaderKeepsWhole

(* The other steps of the receiver. *)
LEMMA ReceiverStandsKeepsWhole ==
  ASSUME TypeOK, WholeInv,
         RecvMeta \/ RecvShortFrame \/ RecvDone \/ Install \/ RecvUnexpected \/ RecvTimeout
  PROVE  WholeInv'
<1>1. UNCHANGED <<senderVars, setting, expected>>
  BY ReceiverStands
<1>2. UNCHANGED toReceiver \/ Thinned
  BY ReceiverStands
<1>3. \/ Spared
      \/ \E x \in ToSenderLine : /\ toSender' = Append(toSender, x)
                                 /\ x.kind \notin {"ACK", "RST", "RESUME"}
  BY ReceiverStands
<1>4. QED
  BY <1>1, <1>2, <1>3, StandingKeepsWhole

(* The faults, repetition among them. *)
LEMMA FaultKeepsWhole ==
  ASSUME TypeOK, WholeInv, FaultStep
  PROVE  WholeInv'
<1>1. CASE ~DuplicateLine
  BY <1>1, FaultThins, StandingKeepsWhole
<1>2. CASE DuplicateLine
  <2>1. UNCHANGED <<senderVars, setting, expected>>
    BY <1>2 DEF DuplicateLine, LineOnly, Fault, receiverVars
  <2>2. CASE toReceiver # <<>> /\ toReceiver' = <<Input>> \o toReceiver /\ UNCHANGED toSender
    <3>1. /\ toReceiver \in Seq(ToReceiverLine) /\ Len(toReceiver) \in Nat
          /\ Input = toReceiver[1] /\ Input \in ToReceiverLine
      BY <2>2, LineTypes, InputIsTold, TailElements DEF TypeOK, ToReceiverOK, Input
    <3>2. PICK n \in Nat : n = Len(toReceiver)
      BY <3>1
    <3>3. /\ Len(toReceiver') = n + 1 /\ toReceiver'[1] = toReceiver[1]
          /\ \A i \in 1 .. n : toReceiver'[i + 1] = toReceiver[i]
      BY <2>2, <3>1, <3>2, Prepended
    <3>4. \A i \in 2 .. n + 1 : i - 1 \in 1 .. n /\ (i - 1) + 1 = i
      OBVIOUS
    <3>5. Doubled
      BY <2>2, <3>2, <3>3, <3>4 DEF Doubled
    <3>6. Spared
      BY <2>2, LineSpared
    <3>7. QED
      BY <2>1, <3>5, <3>6, StandingKeepsWhole
  <2>3. CASE toSender # <<>> /\ toSender' = <<Reply>> \o toSender /\ UNCHANGED toReceiver
    <3>1. /\ toSender \in Seq(ToSenderLine) /\ Len(toSender) \in Nat \ {0}
          /\ Reply = toSender[1] /\ Reply \in ToSenderLine
      <4>1. toSender \in Seq(ToSenderLine) /\ toSender # <<>>
        BY <2>3 DEF TypeOK, ToSenderOK
      <4>2. Len(toSender) \in Nat \ {0} /\ Reply = toSender[1]
        BY <4>1, TailElements DEF Reply
      <4>3. 1 \in 1 .. Len(toSender)
        BY <4>2
      <4>4. QED
        BY <4>1, <4>2, <4>3, LineTypes
    <3>2. PICK n \in Nat : n = Len(toSender)
      BY <3>1
    <3>3. /\ Len(toSender') = n + 1 /\ toSender'[1] = toSender[1]
          /\ \A i \in 1 .. n : toSender'[i + 1] = toSender[i]
      BY <2>3, <3>1, <3>2, Prepended
    <3>4. \A i \in 2 .. n + 1 : i - 1 \in 1 .. n /\ (i - 1) + 1 = i
      OBVIOUS
    <3>5. AnswerDoubled
      BY <2>3, <3>2, <3>3, <3>4 DEF AnswerDoubled
    <3>6. QED
      BY <2>1, <2>3, <3>5, StandingKeepsWhole
  <2>4. QED
    BY <1>2, <2>2, <2>3 DEF DuplicateLine
<1>3. QED
  BY <1>1, <1>2

LEMMA WholeHolds == Spec => []WholeInv
<1>1. Init => WholeInv
  <2>1. SUFFICES ASSUME Init PROVE ToldInv /\ HeardInv /\ QuietInv
    BY DEF WholeInv
  <2>2. ToldInv
    <3>1. Len(toReceiver) = 1 /\ toReceiver[1].kind = "META"
      BY <2>1 DEF Init, Word, Line
    <3>2. Told(toReceiver[1]) /\ ToldAhead(toReceiver[1], toReceiver[1])
      BY <3>1 DEF Told, ToldAhead, Verdict
    <3>3. QED
      BY <3>1, <3>2 DEF ToldInv
  <2>3. HeardInv /\ QuietInv
    BY <2>1 DEF Init, HeardInv, QuietInv
  <2>4. QED
    BY <2>2, <2>3
<1>2. ASSUME TypeOK, WholeInv, [Next]_vars PROVE WholeInv'
  <2>1. CASE SenderStep
    BY <1>2, <2>1, SenderStepKeepsWhole
  <2>2. CASE ReceiverStep
    BY <1>2, <2>2, RecvAnsweredKeepsWhole, FrameKeepsWhole, RecvResetKeepsWhole,
       ReceiverStandsKeepsWhole DEF ReceiverStep
  <2>3. CASE FaultStep
    BY <1>2, <2>3, FaultKeepsWhole
  <2>4. CASE UNCHANGED vars
    BY <1>2, <2>4 DEF vars, senderVars, askVars, receiverVars, WholeInv, ToldInv, HeardInv,
       QuietInv, Quiet, Told, ToldAhead, Heard, SaidAhead, Resumes, Waiting
  <2>5. QED
    BY <1>2, <2>1, <2>2, <2>3, <2>4 DEF Next
<1>3. QED
  BY <1>1, <1>2, TypeCorrect, PTL DEF Spec

(* On every line, DONE finds a receiver that has written every block: no    *)
(* recovery, reset, repeat or fault lets _send_window take a file for       *)
(* complete that _receive has since started over.                           *)
THEOREM VerdictOfWholeFile == Spec => []DoneMeansComplete
<1>1. WholeInv => DoneMeansComplete
  BY DEF WholeInv, ToldInv, Told, Verdict, DoneMeansComplete
<1>2. QED
  BY <1>1, WholeHolds, PTL

-----------------------------------------------------------------------------
(* Losses are recovered.  LossIsRecovered needs an account of what every    *)
(* retry has cost: no counter of send_file is ahead of the faults that      *)
(* moved it, so with fewer faults than retries no counter reaches its       *)
(* limit.  Paid(n): n faults are left over, which the next recovery will    *)
(* use; a probe and a reset are paid for by the lines that they lost.       *)

Silent == toReceiver = <<>> /\ toSender = <<>>

(* One question and its answer: one of the two is under way. *)
UnderWay(question, answer) ==
  \/ toReceiver = <<question>> /\ toSender = <<>>
  \/ toReceiver = <<>> /\ toSender = <<answer>>

Spent(n) == (ProbeRetries + 1) * resets + n <= faults
Paid(n) ==
  /\ Spent(n) /\ recoveries + n <= faults
  /\ \A k \in Seqs : attempts[k] + n <= faults + (IF k < nextSeq THEN 1 ELSE 0)

(* A flight and the answers to it. *)
FrameKinds  == {"DATA", "BAD"}
AnswerKinds == {"ACK", "NAK", "DROP"}
FramesTo(n)  == \A i \in 1 .. n : toReceiver[i].kind \in FrameKinds
AnswersTo(n) == \A i \in 1 .. n : toSender[i].kind \in AnswerKinds
EndsWith(s, line) == s # <<>> /\ s[Len(s)] = line

(* Nothing of the flight was lost or damaged yet. *)
OnTrack ==
  /\ Len(toReceiver) = nextSeq - expected /\ Len(toSender) = expected - base
  /\ \A i \in 1 .. Len(toReceiver) :
       toReceiver[i].kind = "DATA" /\ toReceiver[i].seq = expected + i - 1
  /\ \A i \in 1 .. Len(toSender) : toSender[i].kind = "ACK" /\ toSender[i].seq = base + i - 1

(* A refusal names a block that no frame under way brings. *)
Refused == \E i \in 1 .. Len(toSender) : toSender[i].kind \in {"NAK", "DROP"}
Stopped == expected < nextSeq /\ \A i \in 1 .. Len(toReceiver) : toReceiver[i].seq # expected

(* Where the transfer stands in each wait of send_file. *)
AtReady ==
  /\ attempts = NoTries /\ resets = 0 /\ recoveries = 0
  /\ \/ rPhase = "meta" /\ toSender = <<>> /\ toReceiver \in {<<>>, <<Word("META")>>}
     \/ rPhase = "data" /\ metaOk /\ toReceiver = <<>> /\ toSender \in {<<>>, <<Word("READY")>>}
AtAck ==
  /\ base < nextSeq /\ FramesTo(Len(toReceiver)) /\ AnswersTo(Len(toSender))
  /\ Paid(1) \/ (Paid(0) /\ OnTrack)
  /\ Refused => Stopped
AtGuard == Silent /\ Paid(1)
AtProbe ==
  /\ Paid(1) /\ tries >= 1
  /\ \/ Spent(tries) /\ UnderWay(Ask("AYT", token), Line("HERE", token, expected))
     \/ Spent(tries + 1) /\ Silent
AtReset ==
  /\ tries >= 1 /\ (toSender # <<>> => expected = 0)
  /\ \/ Spent(ProbeRetries + tries) /\ UnderWay(Ask("RST", token), Ask("RSTACK", token))
     \/ Spent(ProbeRetries + tries + 1) /\ Silent
Barred ==
  /\ tries <= faults /\ EndsWith(toReceiver, Ask("BARRIER", token))
  /\ FramesTo(Len(toReceiver) - 1) /\ AnswersTo(Len(toSender))
Resumed ==
  /\ tries <= faults /\ toReceiver = <<>>
  /\ EndsWith(toSender, Line("RESUME", token, expected)) /\ AnswersTo(Len(toSender) - 1)
Unheard == tries < faults /\ toReceiver = <<>> /\ AnswersTo(Len(toSender))
AtResume == Paid(1) /\ (Barred \/ Resumed \/ Unheard)
AtRestart ==
  /\ expected = 0 /\ Spent(0)
  /\ \/ tries <= faults /\ UnderWay(Ask("BARRIER", token), Line("RESUME", token, 0))
     \/ tries < faults /\ Silent
AtDone ==
  /\ expected = Blocks
  /\ \/ /\ rPhase = "data" /\ metaOk /\ toReceiver \in {<<>>, <<Word("DONE")>>}
        /\ \A i \in 1 .. Len(toSender) : toSender[i].kind = "ACK"
     \/ /\ rPhase \in {"install", "installed"} /\ toReceiver = <<>>
        /\ \A i \in 1 .. Len(toSender) : toSender[i].kind \in {"ACK", "OK"}

OnCourse ==
  /\ faults <= setting.budget
  /\ phase # "reguard"
  /\ phase \notin {"ready", "done", "end"} => rPhase = "data" /\ metaOk
  /\ phase = "ready"   => AtReady
  /\ phase = "ack"     => AtAck
  /\ phase = "guard"   => AtGuard
  /\ phase = "probe"   => AtProbe
  /\ phase = "reset"   => AtReset
  /\ phase = "resume"  => AtResume
  /\ phase = "restart" => AtRestart
  /\ phase = "done"    => AtDone
  /\ phase = "end"     => result \in {"verified", "timeout"}

Written == Len(part) = expected /\ \A i \in 1 .. expected : part[i] = i - 1

(* What the steps below start from. *)
Course == TypeOK /\ FlightInv /\ Written /\ NotYetReported /\ Recoverable /\ OnCourse

-----------------------------------------------------------------------------
(* The numbers, and the limits that the faults stay below. *)
LEMMA CourseTypes ==
  ASSUME Course
  PROVE  /\ faults \in Nat /\ tries \in Nat /\ token \in Nat /\ recoveries \in Nat
         /\ resets \in 0 .. MaxResets /\ MaxRetries \in Nat /\ MaxResets \in Nat
         /\ ProbeRetries \in Nat \ {0} /\ RstRetries \in Nat \ {0}
         /\ Blocks \in Nat \ {0} /\ WindowSize \in Nat \ {0} /\ cwnd \in Nat \ {0}
         /\ base \in 0 .. Blocks /\ nextSeq \in 0 .. Blocks /\ expected \in 0 .. Blocks
<1>1. /\ MaxRetries \in Nat /\ ProbeRetries \in Nat \ {0} /\ RstRetries \in Nat \ {0}
      /\ MaxResets \in Nat /\ Blocks \in Nat \ {0} /\ WindowSize \in Nat \ {0}
  BY TransferAssumption
<1>2. QED
  BY <1>1 DEF Course, TypeOK, SenderTypeOK, ReceiverTypeOK

LEMMA AttemptsTypes ==
  ASSUME Course
  PROVE  /\ attempts \in [Seqs -> Nat] /\ Seqs = 0 .. Blocks - 1
         /\ \A k \in Seqs : k \in Nat /\ attempts[k] \in Nat
<1>1. attempts \in [Seqs -> Nat]
  BY DEF Course, TypeOK, SenderTypeOK
<1>2. Seqs = 0 .. Blocks - 1 /\ \A k \in Seqs : k \in Nat
  BY DEF Seqs
<1>3. QED
  BY <1>1, <1>2

LEMMA CourseLimits ==
  ASSUME Course
  PROVE  /\ faults <= MaxRetries /\ faults <= ProbeRetries + RstRetries
         /\ faults < (MaxResets + 1) * (ProbeRetries + 1)
<1>1. /\ setting.budget <= MaxRetries /\ setting.budget <= ProbeRetries + RstRetries
      /\ setting.budget < (MaxResets + 1) * (ProbeRetries + 1)
      /\ setting.budget \in Nat /\ faults <= setting.budget
  BY TransferAssumption DEF Course, TypeOK, Setting, Recoverable, OnCourse
<1>2. (MaxResets + 1) * (ProbeRetries + 1) \in Nat
  <2>1. MaxResets + 1 \in Nat /\ ProbeRetries + 1 \in Nat
    BY CourseTypes
  <2>2. \A m, p \in Nat : m * p \in Nat
    OBVIOUS
  <2>3. QED
    BY <2>1, <2>2, Zenon
<1>3. faults < (MaxResets + 1) * (ProbeRetries + 1)
  <2>1. \A f, m, q \in Nat : f <= m /\ m < q => f < q
    OBVIOUS
  <2>2. faults \in Nat
    BY CourseTypes
  <2>3. QED
    BY <1>1, <1>2, <2>1, <2>2, Zenon
<1>4. QED
  BY <1>1, <1>3, CourseTypes

(* What the setting rules out, and where both sides stand. *)
LEMMA CourseSetting ==
  ASSUME Course
  PROVE  /\ setting.prompt /\ setting.kinds \subseteq {"lose", "corrupt"} /\ ~Repeats
         /\ Positions /\ expected <= nextSeq /\ (phase \notin Undone => base <= expected)
<1>1. setting.prompt /\ setting.kinds \subseteq {"lose", "corrupt"}
  BY DEF Course, Recoverable
<1>2. ~Repeats
  BY <1>1 DEF Repeats
<1>3. QED
  BY <1>1, <1>2 DEF Course, FlightInv, Positions

(* A line alone on its channel. *)
LEMMA OneLine ==
  ASSUME NEW q
  PROVE  /\ <<q>> # <<>> /\ Len(<<q>>) = 1 /\ <<q>>[1] = q
         /\ Head(<<q>>) = q /\ Tail(<<q>>) = <<>> /\ Append(<<>>, q) = <<q>>
  OBVIOUS

(* One more reset, once its questions were lost. *)
LEMMA ResetIsPaid ==
  ASSUME Course, Spent(ProbeRetries + 1)
  PROVE  /\ resets + 1 <= MaxResets
         /\ (ProbeRetries + 1) * (resets + 1) <= faults
<1> DEFINE P == ProbeRetries + 1
<1>0. faults < (MaxResets + 1) * P /\ P * resets + P <= faults
  BY CourseLimits, Zenon DEF Spent
<1>1. /\ P \in Nat \ {0} /\ resets \in Nat /\ MaxResets \in Nat /\ faults \in Nat
      /\ faults < (MaxResets + 1) * P /\ P * resets + P <= faults
  <2>1. P \in Nat \ {0} /\ resets \in Nat /\ MaxResets \in Nat /\ faults \in Nat
    BY CourseTypes
  <2>2. QED
    BY <1>0, <2>1
<1> HIDE DEF P
<1>2. P * (resets + 1) = P * resets + P
  BY <1>1
<1>3. ASSUME resets >= MaxResets PROVE FALSE
  <2>1. P * (resets + 1) >= (MaxResets + 1) * P
    BY <1>1, <1>3
  <2>2. QED
    BY <1>1, <1>2, <2>1
<1>4. resets + 1 <= MaxResets
  BY <1>1, <1>3
<1>5. QED
  BY <1>1, <1>2, <1>4 DEF P

(* The filling loop when no block of the flight was sent too often. *)
LEMMA FillSucceeds ==
  ASSUME Course, NEW b \in 0 .. Blocks, NEW n \in 0 .. Blocks, NEW w \in Nat \ {0},
         Fill(b, n, w), \A k \in Seqs : k >= n => attempts[k] <= MaxRetries
  PROVE  /\ base' = b /\ UNCHANGED result
         /\ attempts' \in [Seqs -> Nat]
         /\ \A k \in Seqs : attempts'[k] <= attempts[k] + (IF k >= n /\ k < nextSeq' THEN 1 ELSE 0)
         /\ \/ /\ b = Blocks /\ phase' = "done"
               /\ toReceiver' = Append(toReceiver, Word("DONE"))
            \/ /\ b < Blocks /\ phase' = "ack" /\ nextSeq' \in n .. Blocks /\ b < nextSeq'
               /\ Len(toReceiver') = Len(toReceiver) + (nextSeq' - n)
               /\ \A i \in 1 .. Len(toReceiver) : toReceiver'[i] = toReceiver[i]
               /\ \A i \in Len(toReceiver) + 1 .. Len(toReceiver') :
                    /\ toReceiver'[i].kind = "DATA"
                    /\ toReceiver'[i].seq = n + (i - Len(toReceiver)) - 1
<1> DEFINE edge == Minimum(Blocks, b + w)
           end  == IF n < edge THEN FillEnd(n, edge) ELSE n
           L    == Len(toReceiver)
<1>1. edge \in b .. Blocks /\ (b < Blocks => b < edge)
  <2>1. Blocks \in Nat /\ b \in Nat /\ b <= Blocks
    BY CourseTypes
  <2>2. QED
    BY <2>1 DEF Minimum
<1>2. end = (IF n < edge THEN edge ELSE n)
  <2>0. SUFFICES ASSUME n < edge PROVE FirstExhausted(n, edge) = {}
    BY DEF FillEnd
  <2> HIDE DEF edge
  <2>1. /\ MaxRetries \in Nat /\ Blocks \in Nat \ {0} /\ Seqs = 0 .. Blocks - 1
        /\ attempts \in [Seqs -> Nat]
    <3>1. MaxRetries \in Nat /\ Blocks \in Nat \ {0}
      BY CourseTypes
    <3>2. QED
      BY <3>1, AttemptsTypes
  <2>2. \A k \in n .. edge - 1 : k \in Seqs /\ k >= n
    BY <1>1, <2>1
  <2>3. \A k \in n .. edge - 1 : ~(attempts[k] > MaxRetries)
    BY <2>1, <2>2
  <2>4. QED
    BY <2>3 DEF FirstExhausted
<1>3. /\ base' = b /\ nextSeq' = end /\ attempts' = Counted(b, n, end)
      /\ \/ /\ AllAcked(b) /\ phase' = "done" /\ UNCHANGED result
            /\ toReceiver' = Append(toReceiver, Word("DONE"))
         \/ ~AllAcked(b) /\ end < edge
         \/ /\ ~AllAcked(b) /\ phase' = "ack" /\ UNCHANGED result
            /\ toReceiver' = toReceiver \o Flight(n, end)
  BY DEF Fill, Send
<1>4. end \in n .. Blocks /\ ~(end < edge) /\ (b < Blocks => b < end)
  <2> HIDE DEF edge, end
  <2>1. n \in Nat /\ b \in Nat /\ Blocks \in Nat /\ n <= Blocks
    BY CourseTypes
  <2>2. QED
    BY <1>1, <1>2, <2>1
<1>5. /\ attempts' \in [Seqs -> Nat]
      /\ \A k \in Seqs : attempts'[k] <= attempts[k] + (IF k >= n /\ k < nextSeq' THEN 1 ELSE 0)
  <2> HIDE DEF edge, end
  <2>1. attempts' = [k \in Seqs |-> IF k < b THEN 0
                     ELSE IF k \in n .. end - 1 THEN attempts[k] + 1 ELSE attempts[k]]
    BY <1>3 DEF Counted
  <2>2. attempts \in [Seqs -> Nat] /\ end \in Nat /\ nextSeq' = end
        /\ \A k \in Seqs : k \in Nat
    BY <1>3, <1>4, AttemptsTypes
  <2>3. ASSUME NEW k \in Seqs
        PROVE  /\ attempts'[k] \in Nat
               /\ attempts'[k] <= attempts[k] + (IF k >= n /\ k < nextSeq' THEN 1 ELSE 0)
    <3>1. /\ attempts'[k] = IF k < b THEN 0
                            ELSE IF k \in n .. end - 1 THEN attempts[k] + 1 ELSE attempts[k]
          /\ attempts[k] \in Nat /\ k \in Nat
      BY <2>1, <2>2
    <3>2. k \in n .. end - 1 <=> k >= n /\ k < end
      BY <2>2
    <3>3. QED
      BY <2>2, <3>1, <3>2
  <2>4. DOMAIN attempts' = Seqs
    BY <2>1
  <2>5. QED
    BY <2>1, <2>3, <2>4
<1> HIDE DEF edge, end
<1>6. CASE AllAcked(b)
  <2>1. Blocks \in Nat
    BY CourseTypes
  <2>2. b = Blocks
    BY <1>6, <2>1 DEF AllAcked
  <2>3. base' = b /\ phase' = "done" /\ UNCHANGED result /\ toReceiver' = Append(toReceiver, Word("DONE"))
    BY <1>3, <1>6
  <2>4. QED
    BY <1>5, <2>2, <2>3
<1>7. CASE ~AllAcked(b)
  <2>1. b < Blocks /\ phase' = "ack" /\ UNCHANGED result /\ toReceiver' = toReceiver \o Flight(n, end)
    <3>1. b < Blocks
      BY <1>7, CourseTypes DEF AllAcked
    <3>2. QED
      BY <1>3, <1>4, <1>7, <3>1
  <2>2. /\ toReceiver \in Seq(ToReceiverLine) /\ L \in Nat
    BY LineTypes DEF Course, TypeOK, ToReceiverOK
  <2>3. end - n \in Nat /\ Flight(n, end) \in Seq(ToReceiverLine)
    BY <1>4, FlightType, CourseTypes
  <2>4. Flight(n, end) = [i \in 1 .. end - n |-> About("DATA", n + i - 1)]
    BY DEF Flight
  <2>5. DOMAIN Flight(n, end) = 1 .. end - n /\ DOMAIN Flight(n, end) = 1 .. Len(Flight(n, end))
    BY <2>3, <2>4, LenProperties
  <2>6. Len(Flight(n, end)) = end - n
    BY <2>3, <2>5, LenProperties
  <2> DEFINE f == Flight(n, end)
  <2>10. f \in Seq(ToReceiverLine) /\ Len(f) = end - n /\ toReceiver' = toReceiver \o f
    BY <2>1, <2>3, <2>6
  <2> HIDE DEF f
  <2>7. /\ Len(toReceiver') = L + (end - n)
        /\ \A i \in 1 .. L : toReceiver'[i] = toReceiver[i]
        /\ \A i \in L + 1 .. L + (end - n) : toReceiver'[i] = f[i - L]
    <3>1. /\ Len(toReceiver') = Len(toReceiver) + Len(f)
          /\ \A i \in 1 .. Len(toReceiver) : toReceiver'[i] = toReceiver[i]
          /\ \A i \in Len(toReceiver) + 1 .. Len(toReceiver) + Len(f) :
               toReceiver'[i] = f[i - Len(toReceiver)]
      <4>1. toReceiver \in Seq(ToReceiverLine) /\ f \in Seq(ToReceiverLine) /\ toReceiver' = toReceiver \o f
        BY <2>2, <2>10
      <4>2. QED
        BY <4>1, ConcatProperties
    <3>2. QED
      BY <2>10, <3>1 DEF L
  <2>8. ASSUME NEW i \in L + 1 .. Len(toReceiver')
        PROVE  toReceiver'[i].kind = "DATA" /\ toReceiver'[i].seq = n + (i - L) - 1
    <3>1. i - L \in 1 .. end - n /\ i \in L + 1 .. L + (end - n)
      BY <2>2, <2>3, <2>7
    <3>2. toReceiver'[i] = About("DATA", n + (i - L) - 1)
      BY <2>4, <2>7, <3>1 DEF f
    <3>3. QED
      BY <3>2 DEF About, Line
  <2>9. QED
    BY <1>3, <1>4, <1>5, <2>1, <2>7, <2>8
<1>8. QED
  BY <1>6, <1>7

-----------------------------------------------------------------------------
(* The sender, wait by wait.                                                *)

(* What every step of send_file leaves alone, and the channel it reads.     *)
LEMMA SenderCourse ==
  ASSUME Course, TakeReply \/ NoReply
  PROVE  /\ UNCHANGED <<faults, setting, rPhase, metaOk, expected>>
         /\ faults' <= setting'.budget
         /\ \/ /\ TakeReply /\ toSender # <<>> /\ Reply = toSender[1] /\ toSender' = Tail(toSender)
               /\ Len(toSender) \in Nat \ {0} /\ Len(toSender') = Len(toSender) - 1
               /\ \A i \in 1 .. Len(toSender') : toSender'[i] = toSender[i + 1]
            \/ NoReply /\ toSender = <<>> /\ toSender' = <<>>
<1>1. UNCHANGED <<faults, setting, rPhase, metaOk, expected>> /\ faults' <= setting'.budget
  BY DEF TakeReply, NoReply, OfSender, receiverVars, Course, OnCourse
<1>2. CASE NoReply
  BY <1>1, <1>2 DEF NoReply, DeadlinePassed
<1>3. CASE TakeReply
  <2>1. toSender # <<>> /\ toSender' = Tail(toSender) /\ toSender \in Seq(ToSenderLine)
    BY <1>3 DEF TakeReply, Course, TypeOK, ToSenderOK
  <2>2. QED
    BY <1>1, <1>3, <2>1, TailElements DEF Reply
<1>4. QED
  BY <1>2, <1>3

(* READY: the first block goes out. *)
LEMMA ReadyCourse ==
  ASSUME Course, RecvReady
  PROVE  OnCourse'
<1>1. phase = "ready" /\ TakeReply /\ toSender # <<>>
  BY DEF RecvReady, TakeReply
<1>2. /\ rPhase = "data" /\ metaOk /\ toReceiver = <<>> /\ toSender = <<Word("READY")>>
      /\ attempts = NoTries /\ resets = 0 /\ recoveries = 0
  BY <1>1 DEF Course, OnCourse, AtReady
<1>3. Reply.kind = "READY" /\ toSender' = <<>>
  BY <1>1, <1>2, OneLine DEF TakeReply, Reply, Word, Line
<1>4. Fill(0, 0, 1) /\ UNCHANGED <<recoveries, resets>>
  BY <1>3 DEF RecvReady
<1>5. \A k \in Seqs : attempts[k] = 0
  BY <1>2 DEF NoTries
<1>6. /\ phase' = "ack" /\ nextSeq' \in 0 .. Blocks /\ 0 < nextSeq' /\ base' = 0
      /\ Len(toReceiver') = nextSeq'
      /\ \A i \in 1 .. Len(toReceiver') : toReceiver'[i].kind = "DATA" /\ toReceiver'[i].seq = i - 1
      /\ attempts' \in [Seqs -> Nat]
      /\ \A k \in Seqs : attempts'[k] <= (IF k < nextSeq' THEN 1 ELSE 0)
  <2>1. \A k \in Seqs : k >= 0 => attempts[k] <= MaxRetries
    BY <1>5, CourseTypes
  <2>2. Len(toReceiver) = 0 /\ 0 \in 0 .. Blocks /\ 1 \in Nat \ {0} /\ 0 # Blocks
    BY <1>2, CourseTypes
  <2>3. /\ base' = 0 /\ attempts' \in [Seqs -> Nat]
        /\ \A k \in Seqs : attempts'[k] <= attempts[k] + (IF k >= 0 /\ k < nextSeq' THEN 1 ELSE 0)
        /\ phase' = "ack" /\ nextSeq' \in 0 .. Blocks /\ 0 < nextSeq'
        /\ Len(toReceiver') = 0 + (nextSeq' - 0)
        /\ \A i \in 0 + 1 .. Len(toReceiver') :
             toReceiver'[i].kind = "DATA" /\ toReceiver'[i].seq = 0 + (i - 0) - 1
    BY <1>4, <2>1, <2>2, FillSucceeds
  <2>4. \A k \in Seqs : attempts'[k] <= (IF k < nextSeq' THEN 1 ELSE 0)
    <3>1. SUFFICES ASSUME NEW k \in Seqs PROVE attempts'[k] <= (IF k < nextSeq' THEN 1 ELSE 0)
      OBVIOUS
    <3>2. /\ attempts'[k] <= attempts[k] + (IF k >= 0 /\ k < nextSeq' THEN 1 ELSE 0)
          /\ attempts[k] = 0 /\ attempts'[k] \in Nat
      BY <1>5, <2>3
    <3>3. k >= 0 /\ k \in Nat /\ nextSeq' \in Nat
      <4>1. k \in Nat
        BY AttemptsTypes
      <4>2. QED
        BY <2>3, <4>1
    <3>4. QED
      BY <3>2, <3>3
  <2>5. Len(toReceiver') = nextSeq' /\ nextSeq' \in Nat
    <3>1. nextSeq' \in 0 .. Blocks /\ Len(toReceiver') = 0 + (nextSeq' - 0) /\ Blocks \in Nat
      BY <2>3, CourseTypes
    <3>2. nextSeq' \in Nat
      BY <3>1
    <3>3. \A n \in Nat : 0 + (n - 0) = n
      OBVIOUS
    <3>4. QED
      BY <3>1, <3>2, <3>3, Zenon
  <2>6. ASSUME NEW i \in 1 .. Len(toReceiver')
        PROVE  toReceiver'[i].kind = "DATA" /\ toReceiver'[i].seq = i - 1
    <3>1. i \in 0 + 1 .. Len(toReceiver') /\ i \in Nat
      BY <2>5
    <3>2. toReceiver'[i].kind = "DATA" /\ toReceiver'[i].seq = 0 + (i - 0) - 1
      BY <2>3, <3>1
    <3>3. QED
      BY <3>1, <3>2
  <2>7. QED
    BY <2>3, <2>4, <2>5, <2>6
<1>7. expected = 0
  <2>1. expected \in Nat /\ nextSeq \in Nat
    BY CourseTypes
  <2>2. QED
    BY <1>1, <2>1, CourseSetting DEF Positions
<1>8. UNCHANGED <<faults, setting, rPhase, metaOk, expected>> /\ faults' <= setting'.budget
  BY <1>1, SenderCourse
<1>9. Paid(0)'
  <2>1. Spent(0)' /\ recoveries' + 0 <= faults'
    BY <1>2, <1>4, <1>8, CourseTypes DEF Spent
  <2>2. \A k \in Seqs : attempts'[k] + 0 <= faults' + (IF k < nextSeq' THEN 1 ELSE 0)
    <3>1. faults' \in Nat
      BY <1>8, CourseTypes
    <3>2. \A k \in Seqs : attempts'[k] \in Nat
      BY <1>6
    <3>3. QED
      BY <1>6, <3>1, <3>2
  <2>3. QED
    BY <2>1, <2>2 DEF Paid
<1>10. OnTrack'
  <2>1. nextSeq' \in Nat /\ expected' = 0 /\ Len(toSender') = 0
    BY <1>3, <1>6, <1>7, <1>8, CourseTypes
  <2>2. \A i \in 1 .. Len(toReceiver') : toReceiver'[i].seq = expected' + i - 1
    BY <1>6, <2>1
  <2>3. Len(toReceiver') = nextSeq' - expected' /\ Len(toSender') = expected' - base'
    <3>1. \A n \in Nat : n - 0 = n
      OBVIOUS
    <3>2. Len(toReceiver') = nextSeq' /\ base' = 0 /\ 0 - 0 = 0
      BY <1>6
    <3>3. QED
      BY <2>1, <3>1, <3>2, Zenon
  <2>4. \A i \in 1 .. Len(toSender') : i \in {}
    BY <2>1
  <2>5. \A i \in 1 .. Len(toReceiver') : toReceiver'[i].kind = "DATA"
    BY <1>6
  <2>6. QED
    BY <2>2, <2>3, <2>4, <2>5 DEF OnTrack
<1>11. AtAck'
  BY <1>3, <1>6, <1>9, <1>10 DEF AtAck, FramesTo, AnswersTo, FrameKinds, Refused
<1>12. QED
  BY <1>2, <1>6, <1>8, <1>11 DEF OnCourse

(* The waits that simply end. *)
LEMMA GiveUpCourse ==
  ASSUME Course, GiveUp
  PROVE  OnCourse'
<1>1. phase' = "end" /\ result' = "timeout" /\ NoReply
  BY DEF GiveUp
<1>2. faults' <= setting'.budget
  BY <1>1, SenderCourse
<1>3. QED
  BY <1>1, <1>2 DEF OnCourse

(* Paid recoveries start with one barrier. *)
LEMMA RecoverFlightCourse ==
  ASSUME Course, TakeReply \/ NoReply, RecoverFlight, Paid(1),
         rPhase = "data", metaOk,
         FramesTo(Len(toReceiver)),
         \A i \in 1 .. Len(toSender') : toSender'[i].kind \in AnswerKinds
  PROVE  OnCourse'
<1>1. /\ phase' = "resume" /\ token' = token + 1 /\ tries' = 1
      /\ toReceiver' = Append(toReceiver, Ask("BARRIER", token'))
      /\ UNCHANGED <<base, nextSeq, attempts, recoveries, resets>>
  BY DEF RecoverFlight, StartBarrier, Send
<1>2. UNCHANGED <<faults, setting, rPhase, metaOk, expected>> /\ faults' <= setting'.budget
  BY SenderCourse
<1>3. tries' <= faults'
  <2>1. recoveries \in Nat /\ faults \in Nat
    BY CourseTypes
  <2>2. recoveries + 1 <= faults
    BY DEF Paid
  <2>3. 1 <= faults
    BY <2>1, <2>2
  <2>4. QED
    BY <1>1, <1>2, <2>3
<1>4. Paid(1)'
  BY <1>1, <1>2 DEF Paid, Spent
<1>5. /\ Len(toReceiver') = Len(toReceiver) + 1
      /\ \A i \in 1 .. Len(toReceiver) : toReceiver'[i] = toReceiver[i]
      /\ toReceiver'[Len(toReceiver) + 1] = Ask("BARRIER", token')
      /\ Len(toReceiver) \in Nat
  BY <1>1, AppendProperties, LineTypes DEF Course, TypeOK, ToReceiverOK
<1>6. EndsWith(toReceiver, Ask("BARRIER", token))'
  BY <1>5 DEF EndsWith
<1>7. Barred'
  BY <1>3, <1>5, <1>6 DEF Barred, FramesTo, AnswersTo
<1>8. QED
  BY <1>1, <1>2, <1>4, <1>7 DEF OnCourse, AtResume

(* An account with a fault to spare is an account. *)
LEMMA PaidLess ==
  ASSUME Course, Paid(1)
  PROVE  Paid(0)
<1>1. /\ faults \in Nat /\ recoveries \in Nat /\ resets \in Nat /\ ProbeRetries \in Nat
      /\ \A k \in Seqs : attempts[k] \in Nat
  <2>1. faults \in Nat /\ recoveries \in Nat /\ resets \in Nat /\ ProbeRetries \in Nat
    BY CourseTypes
  <2>2. QED
    BY <2>1, AttemptsTypes
<1>2. \A k \in Seqs : attempts[k] + 0 <= faults + (IF k < nextSeq THEN 1 ELSE 0)
  BY <1>1 DEF Paid
<1>3. (ProbeRetries + 1) * resets + 1 <= faults /\ recoveries + 1 <= faults
  BY DEF Paid, Spent
<1>4. (ProbeRetries + 1) * resets \in Nat
  <2>1. \A m, p \in Nat : (m + 1) * p \in Nat
    OBVIOUS
  <2>2. QED
    BY <1>1, <2>1, Zenon
<1>5. \A m \in Nat : m + 1 <= faults => m + 0 <= faults
  BY <1>1
<1>6. (ProbeRetries + 1) * resets + 0 <= faults /\ recoveries + 0 <= faults
  BY <1>1, <1>3, <1>4, <1>5, Zenon
<1>7. QED
  BY <1>2, <1>6 DEF Paid, Spent

(* New blocks go on the account of the flight they join. *)
LEMMA FillIsPaid ==
  ASSUME Course, NEW n \in 0 .. Blocks, NEW c \in Nat,
         \A k \in Seqs : attempts[k] + c <= faults + (IF k < n THEN 1 ELSE 0),
         attempts' \in [Seqs -> Nat], nextSeq' \in n .. Blocks, UNCHANGED faults,
         \A k \in Seqs : attempts'[k] <= attempts[k] + (IF k >= n /\ k < nextSeq' THEN 1 ELSE 0)
  PROVE  \A k \in Seqs : attempts'[k] + c <= faults' + (IF k < nextSeq' THEN 1 ELSE 0)
<1>1. SUFFICES ASSUME NEW k \in Seqs
               PROVE  attempts'[k] + c <= faults' + (IF k < nextSeq' THEN 1 ELSE 0)
  OBVIOUS
<1>2. /\ attempts[k] \in Nat /\ attempts'[k] \in Nat /\ faults \in Nat /\ faults' = faults
      /\ k \in Nat /\ n \in Nat /\ nextSeq' \in Nat /\ n <= nextSeq'
  <2>1. faults \in Nat
    BY CourseTypes
  <2>2. attempts[k] \in Nat /\ k \in Nat
    BY AttemptsTypes
  <2>3. QED
    BY <2>1, <2>2
<1>3. /\ attempts[k] + c <= faults + (IF k < n THEN 1 ELSE 0)
      /\ attempts'[k] <= attempts[k] + (IF k >= n /\ k < nextSeq' THEN 1 ELSE 0)
  OBVIOUS
<1>4. CASE k < n
  BY <1>2, <1>3, <1>4
<1>5. CASE ~(k < n)
  BY <1>2, <1>3, <1>5
<1>6. QED
  BY <1>4, <1>5

(* The reply that _send_window reads. *)
LEMMA AckReply ==
  ASSUME Course, phase = "ack", TakeReply
  PROVE  /\ Reply.kind \in AnswerKinds /\ Reply.seq \in Nat
         /\ Reply.kind = "ACK" => Reply.seq < expected
         /\ Reply.kind # "ACK" => Refused
         /\ AnswersTo(Len(toSender))' /\ (Refused' => Refused)
<1>1. /\ Len(toSender) \in Nat \ {0} /\ Len(toSender') = Len(toSender) - 1
      /\ Reply = toSender[1]
      /\ \A i \in 1 .. Len(toSender') : toSender'[i] = toSender[i + 1]
  BY SenderCourse DEF TakeReply
<1>2. AnswersTo(Len(toSender))
  BY DEF Course, OnCourse, AtAck
<1>3. \A i \in 1 .. Len(toSender') : i + 1 \in 1 .. Len(toSender)
  BY <1>1
<1>4. AnswersTo(Len(toSender))' /\ (Refused' => Refused)
  BY <1>1, <1>2, <1>3 DEF AnswersTo, Refused
<1>5. Reply \in ToSenderLine /\ Said(Reply)
  BY CourseSetting, ReplyIsSaid DEF Course
<1>6. Reply.kind \in AnswerKinds /\ (Reply.kind # "ACK" => Refused)
  BY <1>1, <1>2 DEF AnswersTo, Refused, AnswerKinds
<1>7. QED
  BY <1>4, <1>5, <1>6 DEF Said, Undone, ToSenderLine

(* Unread frames are not behind the receiver's position. *)
LEMMA FramesAreAhead ==
  ASSUME Course, NEW i \in 1 .. Len(toReceiver), toReceiver[i].kind \in FrameKinds
  PROVE  /\ toReceiver[i].seq \in Seqs /\ expected <= toReceiver[i].seq /\ toReceiver[i].seq < nextSeq
<1>1. toReceiver[i] \in ToReceiverLine
  BY LineTypes DEF Course
<1>2. Sent(toReceiver[i])
  BY CourseSetting DEF Course, FlightInv, ToReceiverInv
<1>3. drops \in Nat /\ expected \in Nat /\ toReceiver[i].seq \in Nat /\ toReceiver[i].seq \in Seqs
  <2>1. drops \in Nat
    BY DEF Course, TypeOK, ReceiverTypeOK
  <2>2. toReceiver[i].seq \in 0 .. Blocks - 1 /\ Seqs = 0 .. Blocks - 1
    BY <1>1 DEF ToReceiverLine, Seqs
  <2>3. QED
    BY <2>1, <2>2, CourseTypes
<1>4. /\ toReceiver[i].seq < nextSeq
      /\ toReceiver[i].seq = expected \/ toReceiver[i].seq > expected + drops
  BY <1>2 DEF Sent, Frames, FrameKinds
<1>5. QED
  BY <1>3, <1>4

(* An acknowledgement: on time, late in a flight with losses, or the last. *)
LEMMA AcknowledgeCourse ==
  ASSUME Course, phase = "ack", TakeReply, Reply.kind = "ACK",
         Reply.seq \in base .. nextSeq - 1, Acknowledge(Reply.seq)
  PROVE  OnCourse'
<1> DEFINE b == Reply.seq + 1
           w == IF cleanAcks + 1 >= FlowGrowAcks THEN WindowSize ELSE cwnd
<1>1. /\ Reply.seq \in Nat /\ Reply.seq < expected /\ AnswersTo(Len(toSender))' /\ (Refused' => Refused)
  BY AckReply
<1>2. AtAck /\ rPhase = "data" /\ metaOk
  BY DEF Course, OnCourse
<1>3. UNCHANGED <<faults, setting, rPhase, metaOk, expected>> /\ faults' <= setting'.budget
  BY SenderCourse
<1>4. /\ Blocks \in Nat /\ base \in Nat /\ nextSeq \in Nat /\ expected \in Nat
      /\ nextSeq <= Blocks /\ expected <= Blocks /\ expected <= nextSeq
      /\ Reply.seq >= base /\ Reply.seq < nextSeq /\ nextSeq \in 0 .. Blocks
  <2>1. Blocks \in Nat /\ base \in 0 .. Blocks /\ nextSeq \in 0 .. Blocks /\ expected \in 0 .. Blocks
    BY CourseTypes
  <2>2. expected <= nextSeq
    BY CourseSetting
  <2>3. QED
    BY <1>1, <2>1, <2>2
<1>5. b \in 0 .. Blocks /\ b <= expected
  BY <1>1, <1>4
<1>6. recoveries' = 0 /\ resets' = resets /\ Fill(b, nextSeq, w) /\ w \in Nat \ {0}
  BY CourseTypes DEF Acknowledge
<1>7. Paid(0)
  BY <1>2, PaidLess DEF AtAck
<1>8. \A k \in Seqs : k >= nextSeq => attempts[k] <= MaxRetries
  <2>1. SUFFICES ASSUME NEW k \in Seqs, k >= nextSeq PROVE attempts[k] <= MaxRetries
    OBVIOUS
  <2>2. k \in Nat /\ attempts[k] \in Nat /\ faults \in Nat /\ MaxRetries \in Nat /\ faults <= MaxRetries
    <3>1. k \in Nat /\ attempts[k] \in Nat
      BY AttemptsTypes
    <3>2. faults \in Nat /\ MaxRetries \in Nat
      BY CourseTypes
    <3>3. QED
      BY <3>1, <3>2, CourseLimits
  <2>3. attempts[k] + 0 <= faults + 0
    BY <1>4, <1>7, <2>1, <2>2 DEF Paid
  <2>4. QED
    BY <2>2, <2>3
<1> HIDE DEF b, w
<1>9. /\ base' = b /\ attempts' \in [Seqs -> Nat]
      /\ \A k \in Seqs : attempts'[k] <= attempts[k] + (IF k >= nextSeq /\ k < nextSeq' THEN 1 ELSE 0)
      /\ \/ b = Blocks /\ phase' = "done" /\ toReceiver' = Append(toReceiver, Word("DONE"))
         \/ /\ b < Blocks /\ phase' = "ack" /\ nextSeq' \in nextSeq .. Blocks /\ b < nextSeq'
            /\ Len(toReceiver') = Len(toReceiver) + (nextSeq' - nextSeq)
            /\ \A i \in 1 .. Len(toReceiver) : toReceiver'[i] = toReceiver[i]
            /\ \A i \in Len(toReceiver) + 1 .. Len(toReceiver') :
                 /\ toReceiver'[i].kind = "DATA"
                 /\ toReceiver'[i].seq = nextSeq + (i - Len(toReceiver)) - 1
  <2>1. b \in 0 .. Blocks /\ nextSeq \in 0 .. Blocks /\ w \in Nat \ {0} /\ Fill(b, nextSeq, w)
    BY <1>4, <1>5, <1>6
  <2>2. QED
    BY <1>8, <2>1, FillSucceeds
<1>10. Len(toReceiver) \in Nat /\ toReceiver \in Seq(ToReceiverLine)
  BY LineTypes DEF Course, TypeOK, ToReceiverOK
<1>11. CASE phase' = "done"
  <2>1. b = Blocks /\ toReceiver' = Append(toReceiver, Word("DONE"))
    BY <1>9, <1>11
  <2>2. expected = Blocks
    BY <1>4, <1>5, <2>1
  <2>3. \A i \in 1 .. Len(toReceiver) : FALSE
    <3>1. SUFFICES ASSUME NEW i \in 1 .. Len(toReceiver) PROVE FALSE
      OBVIOUS
    <3>2. toReceiver[i].kind \in FrameKinds
      BY <1>2 DEF AtAck, FramesTo
    <3>3. toReceiver[i].seq \in 0 .. Blocks - 1 /\ expected <= toReceiver[i].seq
      BY <3>2, FramesAreAhead DEF Seqs
    <3>4. QED
      BY <1>4, <2>2, <3>3
  <2>4. toReceiver = <<>>
    BY <1>10, <2>3, EmptySeq
  <2>5. toReceiver' = <<Word("DONE")>>
    BY <2>1, <2>4, OneLine
  <2>6. ~Refused'
    BY <1>1, <1>2, <1>4, <2>2 DEF AtAck, Stopped
  <2>7. \A i \in 1 .. Len(toSender') : toSender'[i].kind = "ACK"
    BY <1>1, <2>6 DEF AnswersTo, AnswerKinds, Refused
  <2>8. AtDone'
    BY <1>2, <1>3, <2>2, <2>5, <2>7 DEF AtDone
  <2>9. QED
    BY <1>3, <1>11, <2>8 DEF OnCourse
<1>12. CASE phase' = "ack"
  <2>1. /\ nextSeq' \in nextSeq .. Blocks /\ b < nextSeq' /\ nextSeq' \in Nat /\ nextSeq <= nextSeq'
        /\ Len(toReceiver') = Len(toReceiver) + (nextSeq' - nextSeq)
        /\ \A i \in 1 .. Len(toReceiver) : toReceiver'[i] = toReceiver[i]
        /\ \A i \in Len(toReceiver) + 1 .. Len(toReceiver') :
             /\ toReceiver'[i].kind = "DATA"
             /\ toReceiver'[i].seq = nextSeq + (i - Len(toReceiver)) - 1
    BY <1>4, <1>9, <1>12
  <2>2. ASSUME NEW c \in {0, 1}, Paid(c) PROVE Paid(c)'
    <3>1. Spent(c)'
      BY <1>3, <1>6, <2>2 DEF Paid, Spent
    <3>2. recoveries' + c <= faults'
      BY <1>3, <1>6, <2>2, CourseTypes DEF Paid
    <3>3. \A k \in Seqs : attempts[k] + c <= faults + (IF k < nextSeq THEN 1 ELSE 0)
      BY <2>2 DEF Paid
    <3>4. \A k \in Seqs : attempts'[k] + c <= faults' + (IF k < nextSeq' THEN 1 ELSE 0)
      BY <1>3, <1>4, <1>9, <2>1, <3>3, FillIsPaid
    <3>5. QED
      BY <3>1, <3>2, <3>4 DEF Paid
  <2>3. /\ Len(toReceiver') \in Nat
        /\ \A i \in 1 .. Len(toReceiver') :
             i \in 1 .. Len(toReceiver) \/ i \in Len(toReceiver) + 1 .. Len(toReceiver')
    BY <1>4, <1>10, <2>1
  <2>4. FramesTo(Len(toReceiver))'
    BY <1>2, <2>1, <2>3 DEF AtAck, FramesTo, FrameKinds
  <2>5. ASSUME OnTrack PROVE OnTrack'
    <3>1. /\ Len(toSender) \in Nat \ {0} /\ Len(toSender') = Len(toSender) - 1
          /\ Reply = toSender[1]
          /\ \A i \in 1 .. Len(toSender') : toSender'[i] = toSender[i + 1]
      BY SenderCourse DEF TakeReply
    <3>2. Reply.seq = base
      <4>1. toSender[1].seq = base + 1 - 1
        BY <2>5, <3>1 DEF OnTrack
      <4>2. QED
        BY <1>4, <3>1, <4>1
    <3>3. base' = base + 1
      BY <1>9, <3>2 DEF b
    <3>4. Len(toSender') = expected' - base'
      BY <1>3, <1>4, <2>5, <3>1, <3>3 DEF OnTrack
    <3>5. ASSUME NEW i \in 1 .. Len(toSender')
          PROVE  toSender'[i].kind = "ACK" /\ toSender'[i].seq = base' + i - 1
      <4>1. i + 1 \in 1 .. Len(toSender) /\ toSender'[i] = toSender[i + 1] /\ i \in Nat
        BY <3>1
      <4>2. toSender[i + 1].kind = "ACK" /\ toSender[i + 1].seq = base + (i + 1) - 1
        BY <2>5, <4>1 DEF OnTrack
      <4>3. QED
        BY <1>4, <3>3, <4>1, <4>2
    <3>6. Len(toReceiver') = nextSeq' - expected'
      BY <1>3, <1>4, <1>10, <2>1, <2>5 DEF OnTrack
    <3>7. ASSUME NEW i \in 1 .. Len(toReceiver')
          PROVE  toReceiver'[i].kind = "DATA" /\ toReceiver'[i].seq = expected' + i - 1
      <4>1. CASE i \in 1 .. Len(toReceiver)
        BY <1>3, <2>1, <2>5, <4>1 DEF OnTrack
      <4>2. CASE i \in Len(toReceiver) + 1 .. Len(toReceiver')
        <5>1. /\ toReceiver'[i].kind = "DATA"
              /\ toReceiver'[i].seq = nextSeq + (i - Len(toReceiver)) - 1
          BY <2>1, <4>2
        <5>2. Len(toReceiver) = nextSeq - expected
          BY <2>5 DEF OnTrack
        <5>3. QED
          BY <1>3, <1>4, <1>10, <2>3, <5>1, <5>2
      <4>3. QED
        BY <2>3, <4>1, <4>2
    <3>8. QED
      BY <3>4, <3>5, <3>6, <3>7 DEF OnTrack
  <2>6. ASSUME Stopped PROVE Stopped'
    <3>1. expected < nextSeq' /\ expected < nextSeq
      BY <1>4, <2>1, <2>6 DEF Stopped
    <3>2. ASSUME NEW i \in 1 .. Len(toReceiver') PROVE toReceiver'[i].seq # expected
      <4>1. CASE i \in 1 .. Len(toReceiver)
        BY <2>1, <2>6, <4>1 DEF Stopped
      <4>2. CASE i \in Len(toReceiver) + 1 .. Len(toReceiver')
        <5>1. toReceiver'[i].seq = nextSeq + (i - Len(toReceiver)) - 1
          BY <2>1, <4>2
        <5>2. QED
          BY <1>4, <1>10, <2>3, <3>1, <4>2, <5>1
      <4>3. QED
        BY <2>3, <4>1, <4>2
    <3>3. QED
      BY <1>3, <3>1, <3>2 DEF Stopped
  <2>7. base' < nextSeq'
    BY <1>9, <2>1
  <2>8. Paid(1)' \/ (Paid(0)' /\ OnTrack')
    BY <1>2, <2>2, <2>5 DEF AtAck
  <2>9. Refused' => Stopped'
    BY <1>1, <1>2, <2>6 DEF AtAck
  <2>10. AtAck'
    BY <1>1, <2>4, <2>7, <2>8, <2>9 DEF AtAck
  <2>11. QED
    BY <1>2, <1>3, <1>12, <2>10 DEF OnCourse
<1>13. QED
  BY <1>9, <1>11, <1>12

(* The inner loop of _send_window, when replies are prompt. *)
LEMMA WindowReplyCourse ==
  ASSUME Course, RecvWindowReply
  PROVE  OnCourse'
<1>1. phase = "ack" /\ TakeReply /\ AtAck /\ rPhase = "data" /\ metaOk
  BY DEF RecvWindowReply, Course, OnCourse
<1>2. /\ Reply.kind \in AnswerKinds /\ Reply.seq \in Nat
      /\ Reply.kind = "ACK" => Reply.seq < expected
      /\ Reply.kind # "ACK" => Refused
      /\ AnswersTo(Len(toSender))' /\ (Refused' => Refused)
  BY <1>1, AckReply
<1>3. Interpret(Reply, FALSE)
  BY <1>2, CourseSetting DEF RecvWindowReply, AnswerKinds, Lateness
<1>4. \/ Reply.kind = "ACK" /\ Reply.seq < base /\ KeepWaiting
      \/ Reply.kind = "ACK" /\ Reply.seq \in base .. nextSeq - 1 /\ Acknowledge(Reply.seq)
      \/ Reply.kind # "ACK" /\ RecoverFlight
  <2>1. ~(Reply.kind = "ACK" /\ Reply.seq >= nextSeq)
    <3>1. expected \in Nat /\ nextSeq \in Nat
      BY CourseTypes
    <3>2. expected <= nextSeq
      BY CourseSetting
    <3>3. QED
      BY <1>2, <3>1, <3>2
  <2>2. Reply.kind \in {"ACK", "NAK", "DROP"} /\ "ACK" # "RST" /\ "NAK" # "RST" /\ "DROP" # "RST"
        /\ "RESUME" \notin {"ACK", "NAK", "DROP"}
    BY <1>2 DEF AnswerKinds
  <2>3. CASE Reply.kind = "ACK"
    BY <1>3, <2>1, <2>2, <2>3 DEF Interpret, OldResume
  <2>4. CASE Reply.kind # "ACK"
    BY <1>3, <2>2, <2>4 DEF Interpret, OldResume
  <2>5. QED
    BY <2>3, <2>4
<1>5. CASE Reply.kind = "ACK" /\ Reply.seq < base /\ KeepWaiting
  <2>1. UNCHANGED <<phase, base, nextSeq, attempts, recoveries, resets, toReceiver>>
    BY <1>5 DEF KeepWaiting, windowVars
  <2>2. UNCHANGED <<faults, setting, rPhase, metaOk, expected>> /\ faults' <= setting'.budget
    BY <1>1, SenderCourse
  <2>3. Paid(1)
    <3>1. SUFFICES ASSUME OnTrack PROVE FALSE
      BY <1>1 DEF AtAck
    <3>2. Reply = toSender[1] /\ 1 \in 1 .. Len(toSender)
      BY <1>1, SenderCourse DEF TakeReply
    <3>3. Reply.seq = base + 1 - 1
      BY <3>1, <3>2 DEF OnTrack
    <3>4. QED
      <4>1. base \in Nat
        BY CourseTypes
      <4>2. QED
        BY <1>5, <3>3, <4>1
  <2>4. Paid(1)'
    BY <2>1, <2>2, <2>3 DEF Paid, Spent
  <2>5. AtAck'
    BY <1>1, <1>2, <2>1, <2>2, <2>4 DEF AtAck, FramesTo, Stopped
  <2>6. QED
    BY <1>1, <2>1, <2>2, <2>5 DEF OnCourse
<1>6. CASE Reply.kind # "ACK" /\ RecoverFlight
  <2>1. Paid(1)
    <3>1. ~OnTrack
      BY <1>2, <1>6 DEF OnTrack, Refused
    <3>2. QED
      BY <1>1, <3>1 DEF AtAck
  <2>2. QED
    BY <1>1, <1>2, <1>6, <2>1, RecoverFlightCourse DEF AtAck, AnswersTo
<1>7. QED
  BY <1>1, <1>4, <1>5, <1>6, AcknowledgeCourse

(* With every reply prompt, a deadline finds both channels empty. *)
LEMMA DeadlineIsSilent ==
  ASSUME Course, NoReply, Reading, ~ShortFramePending
  PROVE  Silent
  BY CourseSetting DEF NoReply, DeadlinePassed, Silent

LEMMA AckTimeoutCourse ==
  ASSUME Course, AckTimeout
  PROVE  OnCourse'
<1>1. phase = "ack" /\ NoReply /\ AtAck /\ rPhase = "data" /\ metaOk
  BY DEF AckTimeout, Course, OnCourse
<1>2. Silent
  BY <1>1, DeadlineIsSilent DEF Reading, AtAck, FramesTo, FrameKinds, ShortFramePending
<1>3. Paid(1)
  <2>1. SUFFICES ASSUME OnTrack PROVE FALSE
    BY <1>1 DEF AtAck
  <2>2. 0 = nextSeq - expected /\ 0 = expected - base /\ base < nextSeq
    BY <1>1, <1>2, <2>1 DEF OnTrack, AtAck, Silent
  <2>3. QED
    BY <2>2, CourseTypes
<1>4. /\ phase' = "guard" /\ UNCHANGED <<toReceiver, nextSeq, attempts, recoveries, resets>>
  BY DEF AckTimeout, EnterGuard
<1>5. UNCHANGED <<faults, setting, rPhase, metaOk>> /\ faults' <= setting'.budget /\ toSender' = <<>>
  BY <1>1, <1>2, SenderCourse DEF NoReply, Silent
<1>6. AtGuard'
  BY <1>2, <1>3, <1>4, <1>5 DEF AtGuard, Silent, Paid, Spent
<1>7. QED
  BY <1>1, <1>4, <1>5, <1>6 DEF OnCourse

(* The guard is silent to its end, and the first AYT? follows. *)
LEMMA GuardCourse ==
  ASSUME Course, RecvInGuard \/ GuardTimeout
  PROVE  OnCourse'
<1>1. phase = "guard" /\ Silent /\ Paid(1) /\ rPhase = "data" /\ metaOk
  BY DEF RecvInGuard, GuardTimeout, Course, OnCourse, AtGuard
<1>2. GuardTimeout /\ NoReply
  BY <1>1 DEF RecvInGuard, GuardTimeout, TakeReply, Silent
<1>3. /\ phase' = "probe" /\ tries' = 1 /\ token' = token + 1
      /\ toReceiver' = <<Ask("AYT", token')>> /\ UNCHANGED <<nextSeq, attempts, recoveries, resets>>
  BY <1>1, <1>2, OneLine DEF GuardTimeout, Send, Silent, windowVars
<1>4. /\ UNCHANGED <<faults, setting, rPhase, metaOk>> /\ faults' <= setting'.budget
      /\ toSender' = <<>>
  BY <1>1, <1>2, SenderCourse DEF NoReply, Silent
<1>5. Paid(1)' /\ Spent(1)'
  BY <1>1, <1>3, <1>4 DEF Paid, Spent
<1>6. AtProbe'
  BY <1>3, <1>4, <1>5 DEF AtProbe, UnderWay
<1>7. QED
  BY <1>1, <1>3, <1>4, <1>6 DEF OnCourse

(* HERE ends the probe; a lost line costs one fault. *)
LEMMA ProbeReplyCourse ==
  ASSUME Course, RecvProbeReply
  PROVE  OnCourse'
<1>1. /\ phase = "probe" /\ TakeReply /\ toSender # <<>>
      /\ AtProbe /\ rPhase = "data" /\ metaOk
  BY DEF RecvProbeReply, TakeReply, Course, OnCourse
<1>2. toReceiver = <<>> /\ toSender = <<Line("HERE", token, expected)>> /\ Paid(1)
  BY <1>1 DEF AtProbe, UnderWay, Silent
<1>3. Reply.kind = "HERE" /\ Reply.tok = token /\ toSender' = <<>>
  BY <1>1, <1>2, OneLine DEF TakeReply, Reply, Line
<1>4. RecoverFlight
  BY <1>3 DEF RecvProbeReply
<1>5. QED
  BY <1>1, <1>2, <1>3, <1>4, RecoverFlightCourse DEF FramesTo

LEMMA ProbeTimeoutCourse ==
  ASSUME Course, ProbeTimeout
  PROVE  OnCourse'
<1>1. phase = "probe" /\ NoReply /\ AtProbe /\ rPhase = "data" /\ metaOk
  BY DEF ProbeTimeout, Course, OnCourse
<1>2. Silent
  <2>1. ~ShortFramePending
    BY <1>1, OneLine DEF AtProbe, UnderWay, Silent, ShortFramePending, Ask, Line
  <2>2. QED
    BY <1>1, <2>1, DeadlineIsSilent DEF Reading
<1>3. Paid(1) /\ Spent(tries + 1) /\ tries \in Nat /\ ProbeRetries \in Nat
  BY <1>1, <1>2, OneLine, CourseTypes DEF AtProbe, UnderWay, Silent
<1>4. UNCHANGED <<faults, setting, rPhase, metaOk, nextSeq, attempts, recoveries, resets>>
      /\ faults' <= setting'.budget /\ toSender' = <<>>
  BY <1>1, <1>2, SenderCourse DEF ProbeTimeout, windowVars, NoReply, Silent
<1>5. Paid(1)'
  BY <1>3, <1>4 DEF Paid, Spent
<1>6. CASE tries < ProbeRetries
  <2>1. /\ tries' = tries + 1 /\ phase' = "probe" /\ token' = token + 1
        /\ toReceiver' = <<Ask("AYT", token')>>
    BY <1>1, <1>2, <1>3, <1>6, OneLine DEF ProbeTimeout, Send, Silent
  <2>2. Spent(tries)' /\ tries' >= 1
    BY <1>3, <1>4, <2>1 DEF Spent
  <2>3. AtProbe'
    BY <1>4, <1>5, <2>1, <2>2 DEF AtProbe, UnderWay
  <2>4. QED
    BY <1>1, <1>4, <2>1, <2>3 DEF OnCourse
<1>7. CASE ~(tries < ProbeRetries)
  <2>1. /\ tries' = 1 /\ phase' = "reset" /\ token' = token + 1 /\ tries >= ProbeRetries
        /\ toReceiver' = <<Ask("RST", token')>>
    BY <1>1, <1>2, <1>3, <1>7, OneLine DEF ProbeTimeout, Send, Silent
  <2>2. Spent(ProbeRetries + tries)' /\ tries' >= 1
    <3>1. (ProbeRetries + 1) * resets \in Nat
      <4>1. \A m, p \in Nat : (m + 1) * p \in Nat
        OBVIOUS
      <4>2. QED
        BY <4>1, CourseTypes
    <3>2. \A x, t, p, f \in Nat : x + (t + 1) <= f /\ t >= p => x + (p + 1) <= f
      OBVIOUS
    <3>3. (ProbeRetries + 1) * resets + (ProbeRetries + 1) <= faults
      BY <1>3, <2>1, <3>1, <3>2, CourseTypes DEF Spent
    <3>4. QED
      BY <1>4, <2>1, <3>3 DEF Spent
  <2>3. AtReset'
    BY <1>4, <2>1, <2>2 DEF AtReset, UnderWay
  <2>4. QED
    BY <1>1, <1>4, <2>1, <2>3 DEF OnCourse
<1>8. QED
  BY <1>6, <1>7

(* A reset is confirmed by the answer to its own token, or times out for   *)
(* want of it.                                                             *)
LEMMA ResetReplyCourse ==
  ASSUME Course, ConfirmReset \/ RecvOtherResetReply
  PROVE  OnCourse'
<1>1. phase = "reset" /\ TakeReply /\ toSender # <<>> /\ AtReset /\ rPhase = "data" /\ metaOk
  BY DEF ConfirmReset, RecvOtherResetReply, TakeReply, Course, OnCourse
<1>2. /\ toReceiver = <<>> /\ toSender = <<Ask("RSTACK", token)>>
      /\ Spent(ProbeRetries + tries) /\ tries >= 1
  BY <1>1 DEF AtReset, UnderWay, Silent
<1>3. Reply.kind = "RSTACK" /\ Reply.tok = token /\ toSender' = <<>>
  BY <1>1, <1>2, OneLine DEF TakeReply, Reply, Ask, Line
<1>4. RestartFile(token)
  BY <1>3 DEF ConfirmReset, RecvOtherResetReply
<1>5. Spent(ProbeRetries + 1)
  <2>1. (ProbeRetries + 1) * resets \in Nat
    <3>1. \A m, p \in Nat : (m + 1) * p \in Nat
      OBVIOUS
    <3>2. QED
      BY <3>1, CourseTypes
  <2>2. \A x, t, p, f \in Nat : x + (p + t) <= f /\ t >= 1 => x + (p + 1) <= f
    OBVIOUS
  <2>3. QED
    BY <1>2, <2>1, <2>2, CourseTypes DEF Spent
<1>6. resets + 1 <= MaxResets /\ (ProbeRetries + 1) * (resets + 1) <= faults
  BY <1>5, ResetIsPaid
<1>7. ~ResetsExhausted
  BY <1>6, CourseTypes DEF ResetsExhausted
<1>8. /\ resets' = resets + 1 /\ phase' = "restart" /\ tries' = 1 /\ token' = token + 1
      /\ toReceiver' = <<Ask("BARRIER", token')>>
  BY <1>2, <1>4, <1>7, OneLine DEF RestartFile, StartBarrier, FromTheStart, Send
<1>9. UNCHANGED <<faults, setting, rPhase, metaOk, expected>> /\ faults' <= setting'.budget
  BY <1>1, SenderCourse
<1>10. Spent(0)' /\ tries' <= faults'
  <2>1. (ProbeRetries + 1) * (resets + 1) + 0 <= faults /\ 1 <= faults
    <3>1. \A m, p \in Nat : (m + 1) * (p + 1) \in Nat \ {0}
      OBVIOUS
    <3>2. (ProbeRetries + 1) * (resets + 1) \in Nat \ {0}
      <4>1. ProbeRetries \in Nat /\ resets \in Nat
        BY CourseTypes
      <4>2. QED
        BY <3>1, <4>1, Zenon
    <3>3. \A x \in Nat \ {0}, f \in Nat : x <= f => x + 0 <= f /\ 1 <= f
      OBVIOUS
    <3>4. QED
      BY <1>6, <3>2, <3>3, CourseTypes
  <2>2. QED
    BY <1>8, <1>9, <2>1 DEF Spent
<1>11. expected = 0
  BY <1>1 DEF AtReset
<1>12. AtRestart'
  BY <1>3, <1>8, <1>9, <1>10, <1>11 DEF AtRestart, UnderWay
<1>13. QED
  BY <1>1, <1>8, <1>9, <1>12 DEF OnCourse

LEMMA ResetTimeoutCourse ==
  ASSUME Course, ResetTimeout
  PROVE  OnCourse'
<1>1. phase = "reset" /\ NoReply /\ AtReset /\ rPhase = "data" /\ metaOk
  BY DEF ResetTimeout, Course, OnCourse
<1>2. Silent
  <2>1. ~ShortFramePending
    BY <1>1, OneLine DEF AtReset, UnderWay, Silent, ShortFramePending, Ask, Line
  <2>2. QED
    BY <1>1, <2>1, DeadlineIsSilent DEF Reading
<1>3. Spent(ProbeRetries + tries + 1)
  BY <1>1, <1>2, OneLine DEF AtReset, UnderWay, Silent
<1>4. tries < RstRetries
  <2>1. (ProbeRetries + 1) * resets \in Nat
    <3>1. \A m, p \in Nat : (m + 1) * p \in Nat
      OBVIOUS
    <3>2. QED
      BY <3>1, CourseTypes
  <2>2. \A x, p, t, r, f \in Nat : x + (p + t + 1) <= f /\ f <= p + r => t < r
    OBVIOUS
  <2>3. QED
    BY <1>3, <2>1, <2>2, CourseTypes, CourseLimits DEF Spent
<1>5. /\ UNCHANGED <<phase, token, resets>> /\ tries' = tries + 1
      /\ toReceiver' = <<Ask("RST", token)>>
  <2>1. tries \in Nat /\ RstRetries \in Nat
    BY CourseTypes
  <2>2. QED
    BY <1>2, <1>4, <2>1, OneLine DEF ResetTimeout, Send, Silent, windowVars
<1>6. /\ UNCHANGED <<faults, setting, rPhase, metaOk>> /\ faults' <= setting'.budget
      /\ toSender' = <<>>
  BY <1>1, <1>2, SenderCourse DEF NoReply, Silent
<1>7. Spent(ProbeRetries + tries)' /\ tries' >= 1
  <2>1. \A p, t \in Nat : p + (t + 1) = p + t + 1 /\ t + 1 >= 1
    OBVIOUS
  <2>2. ProbeRetries + (tries + 1) = ProbeRetries + tries + 1 /\ tries + 1 >= 1
    BY <2>1, CourseTypes
  <2>3. (ProbeRetries + 1) * resets + (ProbeRetries + (tries + 1)) <= faults
    BY <1>3, <2>2, Zenon DEF Spent
  <2>4. QED
    BY <1>5, <1>6, <2>2, <2>3 DEF Spent
<1>8. AtReset'
  BY <1>5, <1>6, <1>7 DEF AtReset, UnderWay
<1>9. QED
  BY <1>1, <1>5, <1>6, <1>8 DEF OnCourse

(* RESUME is the last of the old flight's answers: a new flight starts.    *)
LEMMA ResumeFlightCourse ==
  ASSUME Course, ResumeFlight
  PROVE  OnCourse'
<1>1. phase = "resume" /\ TakeReply /\ AtResume /\ rPhase = "data" /\ metaOk
      /\ Reply.kind = "RESUME" /\ Reply.tok = token
  BY DEF ResumeFlight, Course, OnCourse
<1>2. /\ toSender # <<>> /\ Reply = toSender[1] /\ toSender' = Tail(toSender)
      /\ Len(toSender) \in Nat \ {0} /\ Len(toSender') = Len(toSender) - 1
  BY <1>1, SenderCourse DEF TakeReply
<1>3. UNCHANGED <<faults, setting, rPhase, metaOk, expected>> /\ faults' <= setting'.budget
  BY <1>1, SenderCourse
<1>4. Paid(1) /\ Resumed
  <2>1. ~AnswersTo(Len(toSender))
    BY <1>1, <1>2 DEF AnswersTo, AnswerKinds
  <2>2. QED
    BY <1>1, <2>1 DEF AtResume, Barred, Unheard
<1>5. toReceiver = <<>> /\ Reply = Line("RESUME", token, expected) /\ Len(toSender') = 0
  <2>1. ~(1 \in 1 .. Len(toSender) - 1)
    BY <1>1, <1>2, <1>4 DEF Resumed, AnswersTo, AnswerKinds
  <2>2. Len(toSender) = 1
    BY <1>2, <2>1
  <2>3. QED
    BY <1>2, <1>4, <2>2 DEF Resumed, EndsWith
<1>6. Reply.seq = expected /\ expected \in base .. nextSeq /\ expected \in 0 .. Blocks
  BY <1>1, <1>5, CourseTypes, CourseSetting DEF Line, Undone
<1>7. /\ faults \in Nat /\ recoveries \in Nat /\ MaxRetries \in Nat /\ faults <= MaxRetries
      /\ recoveries + 1 <= faults
  BY <1>4, CourseTypes, CourseLimits DEF Paid
<1> DEFINE stuck == IF expected > base THEN 0 ELSE recoveries + 1
<1>8. stuck <= MaxRetries /\ stuck + 0 <= faults
  BY <1>7
<1>9. recoveries' = stuck /\ Fill(expected, expected, cwnd) /\ UNCHANGED resets
  BY <1>6, <1>8, CourseTypes DEF ResumeFlight
<1> HIDE DEF stuck
<1>10. \A k \in Seqs : attempts[k] + 0 <= faults + (IF k < expected THEN 1 ELSE 0) /\ attempts[k] <= MaxRetries
  <2>1. SUFFICES ASSUME NEW k \in Seqs
                 PROVE  /\ attempts[k] + 0 <= faults + (IF k < expected THEN 1 ELSE 0)
                        /\ attempts[k] <= MaxRetries
    OBVIOUS
  <2>2. attempts[k] + 1 <= faults + (IF k < nextSeq THEN 1 ELSE 0) /\ attempts[k] \in Nat
    BY <1>4, AttemptsTypes DEF Paid
  <2>3. QED
    BY <1>7, <2>2
<1>11. cwnd \in Nat \ {0} /\ Len(toReceiver) = 0
  BY <1>5, CourseTypes
<1>12. /\ base' = expected /\ attempts' \in [Seqs -> Nat]
       /\ \A k \in Seqs : attempts'[k] <= attempts[k] + (IF k >= expected /\ k < nextSeq' THEN 1 ELSE 0)
       /\ \/ expected = Blocks /\ phase' = "done" /\ toReceiver' = Append(toReceiver, Word("DONE"))
          \/ /\ expected < Blocks /\ phase' = "ack" /\ nextSeq' \in expected .. Blocks
             /\ expected < nextSeq'
             /\ Len(toReceiver') = Len(toReceiver) + (nextSeq' - expected)
             /\ \A i \in Len(toReceiver) + 1 .. Len(toReceiver') :
                  /\ toReceiver'[i].kind = "DATA"
                  /\ toReceiver'[i].seq = expected + (i - Len(toReceiver)) - 1
  BY <1>6, <1>9, <1>10, <1>11, FillSucceeds
<1>13. CASE phase' = "done"
  <2>1. expected = Blocks /\ toReceiver' = <<Word("DONE")>>
    BY <1>5, <1>12, <1>13, OneLine
  <2>2. AtDone'
    BY <1>1, <1>3, <1>5, <2>1 DEF AtDone
  <2>3. QED
    BY <1>3, <1>13, <2>2 DEF OnCourse
<1>14. CASE phase' = "ack"
  <2>1. /\ nextSeq' \in expected .. Blocks /\ expected < nextSeq'
        /\ Len(toReceiver') = 0 + (nextSeq' - expected)
        /\ \A i \in 0 + 1 .. Len(toReceiver') :
             toReceiver'[i].kind = "DATA" /\ toReceiver'[i].seq = expected + (i - 0) - 1
    BY <1>11, <1>12, <1>14
  <2>2. nextSeq' \in Nat /\ expected \in Nat /\ Len(toReceiver') = nextSeq' - expected
        /\ nextSeq' - expected \in Nat
    <3>1. \A b \in Nat : \A e, n \in 0 .. b : e < n => n \in Nat /\ n - e \in Nat /\ 0 + (n - e) = n - e
      OBVIOUS
    <3>2. nextSeq' \in 0 .. Blocks
      BY <1>6, <2>1, CourseTypes
    <3>3. expected \in 0 .. Blocks /\ Blocks \in Nat /\ expected \in Nat
      BY CourseTypes
    <3>4. nextSeq' \in Nat /\ nextSeq' - expected \in Nat /\ 0 + (nextSeq' - expected) = nextSeq' - expected
      BY <2>1, <3>1, <3>2, <3>3, Zenon
    <3>5. QED
      BY <2>1, <3>3, <3>4, Zenon
  <2>3. ASSUME NEW i \in 1 .. Len(toReceiver')
        PROVE  toReceiver'[i].kind = "DATA" /\ toReceiver'[i].seq = expected' + i - 1
    <3>1. i \in Nat /\ 0 + 1 = 1
      BY <2>2
    <3>2. toReceiver'[i].kind = "DATA" /\ toReceiver'[i].seq = expected + (i - 0) - 1
      BY <2>1, <3>1
    <3>3. QED
      BY <1>3, <2>2, <3>1, <3>2
  <2>4. Len(toSender') = expected' - base'
    BY <1>3, <1>5, <1>12, <2>2
  <2>5. OnTrack'
    <3>1. \A i \in 1 .. Len(toSender') : FALSE
      BY <1>5
    <3>2. Len(toReceiver') = nextSeq' - expected'
      BY <1>3, <2>2
    <3>3. QED
      BY <2>3, <2>4, <3>1, <3>2 DEF OnTrack
  <2>6. Paid(0)'
    <3>1. \A k \in Seqs : attempts'[k] + 0 <= faults' + (IF k < nextSeq' THEN 1 ELSE 0)
      BY <1>3, <1>6, <1>10, <1>12, <2>1, FillIsPaid
    <3>2. Paid(0)
      BY <1>4, PaidLess
    <3>3. QED
      BY <1>3, <1>8, <1>9, <3>1, <3>2 DEF Paid, Spent
  <2>7. FramesTo(Len(toReceiver))' /\ AnswersTo(Len(toSender))' /\ ~Refused'
    BY <1>5, <2>3 DEF FramesTo, AnswersTo, FrameKinds, Refused
  <2>8. AtAck'
    BY <1>12, <2>1, <2>5, <2>6, <2>7 DEF AtAck
  <2>9. QED
    BY <1>1, <1>3, <1>14, <2>8 DEF OnCourse
<1>15. QED
  BY <1>12, <1>13, <1>14

(* RESUME 0: the file starts over. *)
LEMMA ResumeFromZeroCourse ==
  ASSUME Course, ResumeFromZero
  PROVE  OnCourse'
<1>1. phase = "restart" /\ TakeReply /\ toSender # <<>> /\ AtRestart /\ rPhase = "data" /\ metaOk
  BY DEF ResumeFromZero, TakeReply, Course, OnCourse
<1>2. toReceiver = <<>> /\ toSender = <<Line("RESUME", token, 0)>> /\ expected = 0 /\ Spent(0)
  BY <1>1 DEF AtRestart, UnderWay, Silent
<1>3. Reply.seq = 0 /\ toSender' = <<>>
  BY <1>1, <1>2, OneLine DEF TakeReply, Reply, Line
<1>4. /\ phase' = "ack" /\ base' = 0 /\ nextSeq' = 1 /\ recoveries' = 0 /\ UNCHANGED resets
      /\ attempts' = [NoTries EXCEPT ![0] = 1] /\ toReceiver' = <<About("DATA", 0)>>
  BY <1>2, <1>3, OneLine DEF ResumeFromZero, Send
<1>5. UNCHANGED <<faults, setting, rPhase, metaOk, expected>> /\ faults' <= setting'.budget
  BY <1>1, SenderCourse
<1>6. Paid(0)'
  <2>1. ASSUME NEW k \in Seqs PROVE attempts'[k] + 0 <= faults' + (IF k < nextSeq' THEN 1 ELSE 0)
    <3>1. k \in Nat /\ faults' \in Nat /\ nextSeq' = 1
      <4>1. k \in Nat
        BY AttemptsTypes
      <4>2. faults \in Nat
        BY CourseTypes
      <4>3. QED
        BY <1>4, <1>5, <4>1, <4>2
    <3>2. attempts'[k] = IF k = 0 THEN 1 ELSE 0
      BY <1>4 DEF NoTries
    <3>5. \A f \in Nat : 1 + 0 <= f + 1 /\ 0 + 0 <= f + 0
      OBVIOUS
    <3>3. CASE k = 0
      <4>1. attempts'[k] = 1 /\ k < nextSeq'
        BY <3>1, <3>2, <3>3
      <4>2. QED
        BY <3>1, <3>5, <4>1, Zenon
    <3>4. CASE k # 0
      <4>1. attempts'[k] = 0 /\ ~(k < nextSeq')
        BY <3>1, <3>2, <3>4
      <4>2. QED
        BY <3>1, <3>5, <4>1, Zenon
    <3>6. QED
      BY <3>3, <3>4
  <2>2. Spent(0)' /\ recoveries' + 0 <= faults'
    BY <1>2, <1>4, <1>5, CourseTypes DEF Spent
  <2>3. QED
    BY <2>1, <2>2 DEF Paid
<1>7. /\ Len(toReceiver') = 1 /\ toReceiver'[1].kind = "DATA" /\ toReceiver'[1].seq = 0
      /\ Len(toSender') = 0
  BY <1>3, <1>4, OneLine DEF About, Line
<1>8. OnTrack'
  <2>1. \A i \in 1 .. Len(toSender') : FALSE
    BY <1>7
  <2>2. \A i \in 1 .. Len(toReceiver') : i = 1
    BY <1>7
  <2>3. Len(toReceiver') = nextSeq' - expected' /\ Len(toSender') = expected' - base'
    BY <1>2, <1>4, <1>5, <1>7
  <2>4. expected' + 1 - 1 = 0
    BY <1>2, <1>5
  <2>5. QED
    BY <1>7, <2>1, <2>2, <2>3, <2>4 DEF OnTrack
<1>9. AtAck'
  <2>1. FramesTo(Len(toReceiver))' /\ AnswersTo(Len(toSender))' /\ ~Refused'
    BY <1>7, <1>8 DEF OnTrack, FramesTo, AnswersTo, FrameKinds, Refused
  <2>2. QED
    BY <1>4, <1>6, <1>8, <2>1 DEF AtAck
<1>10. QED
  BY <1>1, <1>4, <1>5, <1>9 DEF OnCourse

(* What else is read in front of RESUME are answers to the old flight. *)
LEMMA BarrierReplyCourse ==
  ASSUME Course, RecvOtherBarrierReply
  PROVE  OnCourse'
<1>1. /\ phase \in {"resume", "restart"} /\ TakeReply /\ rPhase = "data" /\ metaOk
      /\ Reply.kind = "RESUME" => Reply.tok # token
  BY DEF RecvOtherBarrierReply, Course, OnCourse
<1>2. /\ toSender # <<>> /\ Reply = toSender[1] /\ toSender' = Tail(toSender)
      /\ Len(toSender) \in Nat \ {0} /\ Len(toSender') = Len(toSender) - 1
      /\ \A i \in 1 .. Len(toSender') : toSender'[i] = toSender[i + 1]
  BY <1>1, SenderCourse DEF TakeReply
<1>3. phase = "resume"
  <2>1. SUFFICES ASSUME phase = "restart" PROVE FALSE
    BY <1>1
  <2>2. toSender = <<Line("RESUME", token, 0)>>
    BY <1>2, <2>1 DEF Course, OnCourse, AtRestart, UnderWay, Silent
  <2>3. QED
    BY <1>1, <1>2, <2>2, OneLine DEF Line
<1>4. AtResume
  BY <1>3 DEF Course, OnCourse
<1>5. Reply.kind \in AnswerKinds
  <2>1. CASE Len(toSender) = 1 /\ Resumed
    BY <1>1, <1>2, <2>1 DEF Resumed, EndsWith, Line
  <2>2. CASE ~(Len(toSender) = 1 /\ Resumed)
    <3>1. 1 \in 1 .. Len(toSender) /\ (Len(toSender) # 1 => 1 \in 1 .. Len(toSender) - 1)
      BY <1>2
    <3>2. QED
      BY <1>2, <1>4, <2>2, <3>1 DEF AtResume, Barred, Resumed, Unheard, AnswersTo
  <2>3. QED
    BY <2>1, <2>2
<1>6. KeepWaiting
  BY <1>5 DEF RecvOtherBarrierReply, OldAnswer, AnswerKinds
<1>7. /\ UNCHANGED <<phase, tries, token, toReceiver, nextSeq, attempts, recoveries, resets>>
      /\ UNCHANGED <<faults, setting, rPhase, metaOk, expected>> /\ faults' <= setting'.budget
  BY <1>1, <1>6, SenderCourse DEF KeepWaiting, askVars, windowVars
<1>8. Paid(1)'
  BY <1>4, <1>7 DEF AtResume, Paid, Spent
<1>9. Barred' \/ Resumed' \/ Unheard'
  <2>1. \A i \in 1 .. Len(toSender') : i + 1 \in 1 .. Len(toSender)
    BY <1>2
  <2>2. CASE Barred
    <3>1. AnswersTo(Len(toSender))'
      BY <1>2, <2>1, <2>2 DEF Barred, AnswersTo
    <3>2. QED
      BY <1>7, <2>2, <3>1 DEF Barred, FramesTo
  <2>3. CASE Unheard
    <3>1. AnswersTo(Len(toSender))'
      BY <1>2, <2>1, <2>3 DEF Unheard, AnswersTo
    <3>2. QED
      BY <1>7, <2>3, <3>1 DEF Unheard
  <2>4. CASE Resumed
    <3>1. Len(toSender) # 1
      BY <1>2, <1>5, <2>4 DEF Resumed, EndsWith, Line, AnswerKinds
    <3>2. toSender' # <<>> /\ toSender'[Len(toSender')] = toSender[Len(toSender)]
      <4>1. Len(toSender') \in 1 .. Len(toSender') /\ Len(toSender') + 1 = Len(toSender)
        BY <1>2, <3>1
      <4>2. Len(toSender') # 0
        BY <4>1
      <4>3. QED
        BY <1>2, <4>1, <4>2
    <3>3. \A i \in 1 .. Len(toSender') - 1 :
            i + 1 \in 1 .. Len(toSender) - 1 /\ i \in 1 .. Len(toSender')
      BY <1>2
    <3>4. AnswersTo(Len(toSender) - 1)'
      BY <1>2, <2>4, <3>3 DEF Resumed, AnswersTo
    <3>5. QED
      BY <1>7, <2>4, <3>2, <3>4 DEF Resumed, EndsWith
  <2>5. QED
    BY <1>4, <2>2, <2>3, <2>4 DEF AtResume
<1>10. QED
  BY <1>1, <1>3, <1>7, <1>8, <1>9 DEF OnCourse, AtResume

(* A barrier is repeated as often as it was lost. *)
LEMMA BarrierTimeoutCourse ==
  ASSUME Course, BarrierTimeout
  PROVE  OnCourse'
<1>1. /\ phase \in {"resume", "restart"} /\ NoReply /\ rPhase = "data" /\ metaOk
      /\ phase = "resume" => AtResume
      /\ phase = "restart" => AtRestart
  BY DEF BarrierTimeout, Course, OnCourse
<1>2. Silent
  <2>1. ~ShortFramePending
    <3>1. CASE phase = "restart"
      BY <1>1, <3>1, OneLine DEF AtRestart, UnderWay, Silent, ShortFramePending, Ask, Line
    <3>2. CASE phase = "resume" /\ toReceiver = <<>>
      BY <3>2 DEF ShortFramePending
    <3>3. CASE phase = "resume" /\ toReceiver # <<>>
      <4>1. Barred
        BY <1>1, <3>3 DEF AtResume, Resumed, Unheard
      <4>2. \A i \in 1 .. Len(toReceiver) : i = Len(toReceiver) \/ i \in 1 .. Len(toReceiver) - 1
        BY LineTypes DEF Course
      <4>3. QED
        BY <4>1, <4>2 DEF Barred, EndsWith, FramesTo, FrameKinds, ShortFramePending, Ask, Line
    <3>4. QED
      BY <1>1, <3>1, <3>2, <3>3
  <2>2. QED
    BY <1>1, <2>1, DeadlineIsSilent DEF Reading
<1>3. tries < faults
  BY <1>1, <1>2, OneLine DEF Silent, AtResume, Barred, Resumed, Unheard, EndsWith, AtRestart, UnderWay
<1>4. tries + 1 <= faults /\ tries <= MaxRetries
  BY <1>3, CourseTypes, CourseLimits
<1>5. /\ UNCHANGED <<phase, token, nextSeq, attempts, recoveries, resets>> /\ tries' = tries + 1
      /\ toReceiver' = <<Ask("BARRIER", token)>>
  <2>1. tries \in Nat /\ MaxRetries \in Nat
    BY CourseTypes
  <2>2. QED
    BY <1>2, <1>4, <2>1, OneLine DEF BarrierTimeout, Send, Silent, windowVars
<1>6. /\ UNCHANGED <<faults, setting, rPhase, metaOk, expected>> /\ faults' <= setting'.budget
      /\ toSender' = <<>>
  BY <1>1, <1>2, SenderCourse DEF NoReply, Silent
<1>7. tries' <= faults'
  BY <1>4, <1>5, <1>6
<1>8. CASE phase = "restart"
  <2>1. AtRestart'
    BY <1>1, <1>5, <1>6, <1>7, <1>8 DEF AtRestart, Spent, UnderWay
  <2>2. QED
    BY <1>1, <1>5, <1>6, <1>8, <2>1 DEF OnCourse
<1>9. CASE phase = "resume"
  <2>1. /\ Len(toReceiver') = 1 /\ toReceiver' # <<>> /\ toReceiver'[1] = Ask("BARRIER", token)
        /\ Len(toSender') = 0
    BY <1>5, <1>6, OneLine
  <2>2. FramesTo(Len(toReceiver) - 1)' /\ AnswersTo(Len(toSender))'
    BY <2>1 DEF FramesTo, AnswersTo
  <2>3. Barred'
    BY <1>5, <1>7, <2>1, <2>2 DEF Barred, EndsWith
  <2>4. Paid(1)'
    BY <1>1, <1>5, <1>6, <1>9 DEF AtResume, Paid, Spent
  <2>5. QED
    BY <1>1, <1>5, <1>6, <1>9, <2>3, <2>4 DEF OnCourse, AtResume
<1>10. QED
  BY <1>1, <1>8, <1>9

(* The verdict can only be OK. *)
LEMMA FinalCourse ==
  ASSUME Course, RecvFinal
  PROVE  OnCourse'
<1>1. phase = "done" /\ TakeReply /\ AtDone
  BY DEF RecvFinal, Course, OnCourse
<1>2. /\ Reply = toSender[1] /\ Len(toSender) \in Nat \ {0}
      /\ Len(toSender') = Len(toSender) - 1
      /\ \A i \in 1 .. Len(toSender') : toSender'[i] = toSender[i + 1]
  BY <1>1, SenderCourse DEF TakeReply
<1>3. /\ UNCHANGED <<faults, setting, rPhase, metaOk, expected>> /\ faults' <= setting'.budget
  BY <1>1, SenderCourse
<1>4. Reply.kind \in {"ACK", "OK"}
  BY <1>1, <1>2 DEF AtDone
<1>5. Reply.kind = "ACK" => Reply.seq < Blocks
  <2>1. Said(Reply)
    BY <1>1, CourseSetting, ReplyIsSaid DEF Course
  <2>2. QED
    BY <1>1, <2>1 DEF Said, Undone, AtDone
<1>6. \/ KeepWaiting
      \/ phase' = "end" /\ result' = "verified"
  BY <1>4, <1>5, CourseSetting DEF RecvFinal, OldResume, Lateness
<1>7. CASE KeepWaiting
  <2>1. UNCHANGED <<phase, toReceiver>>
    BY <1>7 DEF KeepWaiting
  <2>2. \A i \in 1 .. Len(toSender') : i + 1 \in 1 .. Len(toSender)
    BY <1>2
  <2>3. AtDone'
    BY <1>1, <1>2, <1>3, <2>1, <2>2 DEF AtDone
  <2>4. QED
    BY <1>1, <1>3, <2>1, <2>3 DEF OnCourse
<1>8. CASE phase' = "end" /\ result' = "verified"
  BY <1>3, <1>8 DEF OnCourse
<1>9. QED
  BY <1>6, <1>7, <1>8

LEMMA SenderStaysOnCourse ==
  ASSUME Course, SenderStep
  PROVE  OnCourse'
  BY ReadyCourse, GiveUpCourse, WindowReplyCourse, AckTimeoutCourse, GuardCourse, ProbeReplyCourse,
     ProbeTimeoutCourse, ResetReplyCourse, ResetTimeoutCourse, ResumeFlightCourse,
     ResumeFromZeroCourse, BarrierReplyCourse, BarrierTimeoutCourse, FinalCourse
  DEF SenderStep

-----------------------------------------------------------------------------
(* The receiver.                                                            *)

(* Which action reads which line, while the sender waits. *)
LEMMA ReceiverReads ==
  ASSUME Course, ReceiverStep, phase # "end"
  PROVE  /\ UNCHANGED <<senderVars, setting, faults>> /\ faults' <= setting'.budget
         /\ rPhase = "meta" => RecvMeta
         /\ rPhase = "data" =>
              /\ toReceiver # <<>>
              /\ Input.kind = "DATA" => RecvAnswered \/ RecvGap \/ RecvBlock
              /\ Input.kind \in {"BAD", "AYT", "BARRIER"} => RecvAnswered
              /\ Input.kind = "RST" => RecvReset
              /\ Input.kind = "DONE" => RecvDone
         /\ rPhase \notin {"meta", "data"} => Install
<1>1. ~RecvTimeout
  BY CourseSetting DEF RecvTimeout
<1>2. UNCHANGED <<senderVars, setting, faults>> /\ faults' <= setting'.budget
  <2>1. UNCHANGED <<senderVars, setting, faults>>
    BY DEF ReceiverStep, RecvMeta, RecvAnswered, RecvGap, RecvBlock, RecvShortFrame, RecvReset,
           RecvDone, Install, RecvUnexpected, RecvTimeout, Read, OfReceiver
  <2>2. QED
    BY <2>1 DEF Course, OnCourse
<1>3. rPhase = "meta" => RecvMeta
  BY <1>1 DEF ReceiverStep, RecvAnswered, RecvGap, RecvBlock, RecvShortFrame, RecvReset,
              RecvDone, Install, RecvUnexpected, Read
<1>4. rPhase \notin {"meta", "data"} => Install
  BY <1>1 DEF ReceiverStep, RecvMeta, RecvAnswered, RecvGap, RecvBlock, RecvShortFrame, RecvReset,
              RecvDone, RecvUnexpected, Read
<1>5. ASSUME rPhase = "data"
      PROVE  /\ toReceiver # <<>>
             /\ Input.kind = "DATA" => RecvAnswered \/ RecvGap \/ RecvBlock
             /\ Input.kind \in {"BAD", "AYT", "BARRIER"} => RecvAnswered
             /\ Input.kind = "RST" => RecvReset
             /\ Input.kind = "DONE" => RecvDone
  <2>1. /\ ~RecvMeta /\ ~Install
        /\ RecvAnswered => toReceiver # <<>> /\ Input.kind \in {"DATA", "BAD", "AYT", "BARRIER"}
        /\ RecvGap \/ RecvBlock => toReceiver # <<>> /\ Input.kind = "DATA"
        /\ RecvShortFrame => toReceiver # <<>> /\ Input.kind = "SHORT"
        /\ RecvReset => toReceiver # <<>> /\ Input.kind = "RST"
        /\ RecvDone => toReceiver # <<>> /\ Input.kind \in {"DONE", "DONEBAD"}
        /\ RecvUnexpected => toReceiver # <<>> /\ Input.kind \in {"ERR", "JUNK", "META", "METABAD"}
    BY <1>5 DEF RecvMeta, RecvAnswered, RecvGap, RecvBlock, RecvShortFrame, RecvReset,
                RecvDone, Install, RecvUnexpected, Read, TakeInput
  <2>2. QED
    BY <1>1, <2>1 DEF ReceiverStep
<1>6. QED
  BY <1>2, <1>3, <1>4, <1>5

(* META is answered. *)
LEMMA MetaCourse ==
  ASSUME Course, ReceiverStep, phase = "ready"
  PROVE  OnCourse'
<1>1. AtReady /\ UNCHANGED <<senderVars, setting, faults>> /\ faults' <= setting'.budget
  BY ReceiverReads DEF Course, OnCourse
<1>2. rPhase = "meta" /\ RecvMeta /\ toReceiver # <<>>
  BY <1>1, ReceiverReads DEF AtReady, RecvMeta, TakeInput
<1>3. toReceiver = <<Word("META")>> /\ toSender = <<>>
  BY <1>1, <1>2 DEF AtReady
<1>4. Input.kind = "META" /\ toReceiver' = <<>>
  BY <1>2, <1>3, OneLine DEF RecvMeta, TakeInput, Input, Word, Line
<1>5. rPhase' = "data" /\ metaOk' /\ toSender' = <<Word("READY")>>
  BY <1>2, <1>3, <1>4, OneLine DEF RecvMeta, Answer
<1>6. AtReady'
  BY <1>1, <1>4, <1>5 DEF AtReady, senderVars, windowVars
<1>7. phase' = "ready"
  BY <1>1 DEF senderVars
<1>8. QED
  BY <1>1, <1>6, <1>7 DEF OnCourse

(* A question is answered, with the receiver's position where it asks for it. *)
LEMMA QuestionCourse ==
  ASSUME Course, ReceiverStep, phase \in {"guard", "probe", "reset", "restart"}
  PROVE  OnCourse'
<1>1. /\ UNCHANGED <<senderVars, setting, faults>> /\ faults' <= setting'.budget
      /\ rPhase = "data" /\ metaOk /\ toReceiver # <<>>
  BY ReceiverReads DEF Course, OnCourse
<1>2. /\ UNCHANGED <<phase, tries, token, nextSeq, attempts, recoveries, resets, faults>>
      /\ phase' = phase
  BY <1>1 DEF senderVars, askVars, windowVars
<1>3. CASE phase = "guard"
  BY <1>1, <1>3 DEF Course, OnCourse, AtGuard, Silent
<1>4. CASE phase = "probe"
  <2>1. AtProbe /\ toReceiver = <<Ask("AYT", token)>> /\ toSender = <<>>
    BY <1>1, <1>4 DEF Course, OnCourse, AtProbe, UnderWay, Silent
  <2>2. Input.kind = "AYT" /\ Input.tok = token
    BY <2>1, OneLine DEF Input, Ask, Line
  <2>3. RecvAnswered
    BY <1>1, <1>4, <2>2, ReceiverReads
  <2>4. toReceiver' = <<>> /\ toSender' = <<Line("HERE", token, expected)>> /\ UNCHANGED receiverVars
    BY <2>1, <2>2, <2>3, OneLine DEF RecvAnswered, Read, TakeInput, Answer
  <2>5. AtProbe'
    BY <1>2, <2>1, <2>4, OneLine DEF AtProbe, UnderWay, Silent, Paid, Spent, receiverVars
  <2>6. QED
    BY <1>1, <1>2, <1>4, <2>4, <2>5 DEF OnCourse, receiverVars
<1>5. CASE phase = "reset"
  <2>1. AtReset /\ toReceiver = <<Ask("RST", token)>> /\ toSender = <<>>
    BY <1>1, <1>5 DEF Course, OnCourse, AtReset, UnderWay, Silent
  <2>2. Input.kind = "RST" /\ Input.tok = token
    BY <2>1, OneLine DEF Input, Ask, Line
  <2>3. RecvReset
    BY <1>1, <1>5, <2>2, ReceiverReads
  <2>4. /\ toReceiver' = <<>> /\ toSender' = <<Ask("RSTACK", token)>>
        /\ expected' = 0 /\ UNCHANGED <<rPhase, metaOk>>
    BY <2>1, <2>2, <2>3, OneLine DEF RecvReset, StartOver, Read, TakeInput, Answer
  <2>5. AtReset'
    BY <1>2, <2>1, <2>4, OneLine DEF AtReset, UnderWay, Silent, Spent
  <2>6. QED
    BY <1>1, <1>2, <1>5, <2>4, <2>5 DEF OnCourse
<1>6. CASE phase = "restart"
  <2>1. AtRestart /\ toReceiver = <<Ask("BARRIER", token)>> /\ toSender = <<>> /\ expected = 0
    BY <1>1, <1>6 DEF Course, OnCourse, AtRestart, UnderWay, Silent
  <2>2. Input.kind = "BARRIER" /\ Input.tok = token
    BY <2>1, OneLine DEF Input, Ask, Line
  <2>3. RecvAnswered
    BY <1>1, <1>6, <2>2, ReceiverReads
  <2>4. toReceiver' = <<>> /\ toSender' = <<Line("RESUME", token, 0)>> /\ UNCHANGED receiverVars
    BY <2>1, <2>2, <2>3, OneLine DEF RecvAnswered, Read, TakeInput, Answer
  <2>5. AtRestart'
    BY <1>2, <2>1, <2>4, OneLine DEF AtRestart, UnderWay, Silent, Spent, receiverVars
  <2>6. QED
    BY <1>1, <1>2, <1>6, <2>4, <2>5 DEF OnCourse, receiverVars
<1>7. QED
  BY <1>3, <1>4, <1>5, <1>6

(* The verdict on a file that is complete. *)
LEMMA DoneCourse ==
  ASSUME Course, ReceiverStep, phase = "done"
  PROVE  OnCourse'
<1>1. AtDone /\ UNCHANGED <<senderVars, setting, faults>> /\ faults' <= setting'.budget
      /\ phase' = "done"
  BY ReceiverReads DEF Course, OnCourse, senderVars
<1>2. CASE rPhase = "data"
  <2>1. /\ metaOk /\ toReceiver = <<Word("DONE")>> /\ expected = Blocks
        /\ \A i \in 1 .. Len(toSender) : toSender[i].kind = "ACK"
    BY <1>1, <1>2, ReceiverReads DEF AtDone
  <2>2. Input.kind = "DONE"
    BY <2>1, OneLine DEF Input, Word, Line
  <2>3. RecvDone
    BY <1>1, <1>2, <2>2, ReceiverReads
  <2>4. part = WholeFile
    <3>1. part \in Seq(Seqs) /\ Len(part) = Blocks /\ \A i \in 1 .. Blocks : part[i] = i - 1
      BY <2>1 DEF Course, TypeOK, ReceiverTypeOK, Written
    <3>2. WholeFile = [i \in 1 .. Blocks |-> i - 1]
      BY DEF WholeFile
    <3>3. part = [i \in 1 .. Len(part) |-> part[i]]
      BY <3>1
    <3>4. QED
      BY <3>1, <3>2, <3>3
  <2>5. /\ rPhase' = "install" /\ toSender' = Append(toSender, Word("OK")) /\ toReceiver' = <<>>
        /\ UNCHANGED <<expected, metaOk>>
    BY <2>1, <2>2, <2>3, <2>4, OneLine DEF RecvDone, FileVerified, Read, TakeInput, Answer
  <2>6. /\ Len(toSender') = Len(toSender) + 1 /\ Len(toSender) \in Nat
        /\ \A i \in 1 .. Len(toSender) : toSender'[i] = toSender[i]
        /\ toSender'[Len(toSender) + 1].kind = "OK"
    BY <2>5, LineTypes, AppendProperties DEF Course, TypeOK, ToSenderOK, Word, Line
  <2>7. \A i \in 1 .. Len(toSender') : toSender'[i].kind \in {"ACK", "OK"}
    BY <2>1, <2>6
  <2>8. AtDone'
    BY <2>1, <2>5, <2>7 DEF AtDone
  <2>9. QED
    BY <1>1, <2>8 DEF OnCourse
<1>3. CASE rPhase # "data"
  <2>1. Install /\ rPhase = "install"
    BY <1>1, <1>3, ReceiverReads DEF AtDone, Install
  <2>2. AtDone'
    BY <1>1, <2>1 DEF Install, AtDone
  <2>3. QED
    BY <1>1, <2>2 DEF OnCourse
<1>4. QED
  BY <1>2, <1>3

(* One frame of a flight is written and acknowledged, or refused. *)
LEMMA FrameRead ==
  ASSUME Course, ReceiverStep, phase \in {"ack", "resume"}, Input.kind \in FrameKinds
  PROVE  /\ toReceiver # <<>> /\ toReceiver' = Tail(toReceiver) /\ UNCHANGED <<rPhase, metaOk>>
         /\ \/ /\ Input.kind = "DATA" /\ Input.seq = expected /\ expected' = expected + 1
               /\ toSender' = Append(toSender, About("ACK", expected))
            \/ /\ Input.kind = "DATA" => Input.seq > expected
               /\ UNCHANGED expected
               /\ \E kind \in {"NAK", "DROP"} : toSender' = Append(toSender, About(kind, expected))
<1>1. rPhase = "data" /\ toReceiver # <<>>
  BY ReceiverReads DEF Course, OnCourse
<1>2. /\ Input = toReceiver[1] /\ 1 \in 1 .. Len(toReceiver)
  BY <1>1, TailElements DEF Course, TypeOK, ToReceiverOK, Input
<1>3. Input.seq \in Nat /\ expected \in Nat /\ expected <= Input.seq
  <2>1. expected \in Nat
    BY CourseTypes
  <2>2. Input.seq \in Seqs /\ expected <= Input.seq
    BY <1>2, FramesAreAhead
  <2>3. \A k \in Seqs : k \in Nat
    BY AttemptsTypes, Zenon
  <2>4. QED
    BY <2>1, <2>2, <2>3
<1>4. CASE Input.kind = "BAD"
  <2>1. RecvAnswered
    BY <1>1, <1>4, ReceiverReads
  <2>2. QED
    BY <1>1, <1>4, <2>1 DEF RecvAnswered, Read, TakeInput, Answer, receiverVars
<1>5. CASE Input.kind = "DATA"
  <2>1. RecvAnswered \/ RecvGap \/ RecvBlock
    BY <1>1, <1>5, ReceiverReads
  <2>2. ~RecvAnswered
    BY <1>3, <1>5 DEF RecvAnswered
  <2>3. CASE RecvBlock
    BY <1>1, <1>5, <2>3 DEF RecvBlock, Read, TakeInput, Answer
  <2>4. CASE RecvGap
    <3>1. drops + 1 < MaxDrops
      BY <2>4, CourseSetting, GapIsCounted DEF Course
    <3>2. ~(drops + 1 >= MaxDrops)
      BY <3>1, TransferAssumption DEF Course, TypeOK, ReceiverTypeOK
    <3>3. /\ Answer(About("DROP", expected)) /\ UNCHANGED <<rPhase, expected, metaOk>>
      BY <2>4, <3>2 DEF RecvGap
    <3>4. QED
      BY <1>1, <2>4, <3>3 DEF RecvGap, Read, TakeInput, Answer
  <2>5. QED
    BY <2>1, <2>2, <2>3, <2>4
<1>6. QED
  BY <1>4, <1>5 DEF FrameKinds

LEMMA FlightCourse ==
  ASSUME Course, ReceiverStep, phase = "ack"
  PROVE  OnCourse'
<1>1. /\ UNCHANGED <<senderVars, setting, faults>> /\ faults' <= setting'.budget
      /\ rPhase = "data" /\ metaOk /\ AtAck /\ toReceiver # <<>>
  BY ReceiverReads DEF Course, OnCourse
<1>2. UNCHANGED <<phase, base, nextSeq, attempts, recoveries, resets>> /\ phase' = "ack"
  BY <1>1 DEF senderVars, windowVars
<1>3. /\ Len(toReceiver) \in Nat \ {0} /\ Len(Tail(toReceiver)) = Len(toReceiver) - 1
      /\ \A i \in 1 .. Len(Tail(toReceiver)) : Tail(toReceiver)[i] = toReceiver[i + 1]
      /\ Input = toReceiver[1]
      /\ \A i \in 1 .. Len(Tail(toReceiver)) : i + 1 \in 1 .. Len(toReceiver)
  <2>1. toReceiver \in Seq(ToReceiverLine)
    BY DEF Course, TypeOK, ToReceiverOK
  <2>2. /\ Len(toReceiver) \in Nat \ {0} /\ Len(Tail(toReceiver)) = Len(toReceiver) - 1
        /\ \A i \in 1 .. Len(Tail(toReceiver)) : Tail(toReceiver)[i] = toReceiver[i + 1]
        /\ Input = toReceiver[1]
    BY <1>1, <2>1, TailElements DEF Input
  <2>3. QED
    BY <2>2
<1>4. 1 \in 1 .. Len(toReceiver) /\ Input.kind \in FrameKinds
  BY <1>1, <1>3 DEF AtAck, FramesTo
<1>5. /\ toReceiver' = Tail(toReceiver) /\ UNCHANGED <<rPhase, metaOk>>
      /\ \/ /\ Input.kind = "DATA" /\ Input.seq = expected /\ expected' = expected + 1
            /\ toSender' = Append(toSender, About("ACK", expected))
         \/ /\ Input.kind = "DATA" => Input.seq > expected
            /\ UNCHANGED expected
            /\ \E kind \in {"NAK", "DROP"} : toSender' = Append(toSender, About(kind, expected))
  BY <1>4, FrameRead
<1>6. FramesTo(Len(toReceiver))'
  BY <1>1, <1>3, <1>5 DEF AtAck, FramesTo
<1>7. /\ expected \in Nat /\ nextSeq \in Nat /\ base \in Nat /\ base <= expected
      /\ Input.seq \in Nat /\ expected <= Input.seq /\ Input.seq < nextSeq
  <2>1. expected \in Nat /\ nextSeq \in Nat /\ base \in Nat
    BY CourseTypes
  <2>2. base <= expected
    BY <1>2, CourseSetting DEF Undone
  <2>3. Input.seq \in Seqs /\ expected <= Input.seq /\ Input.seq < nextSeq
    BY <1>3, <1>4, FramesAreAhead
  <2>4. \A k \in Seqs : k \in Nat
    BY AttemptsTypes, Zenon
  <2>5. QED
    BY <2>1, <2>2, <2>3, <2>4
<1>8. toSender \in Seq(ToSenderLine) /\ Len(toSender) \in Nat
  BY LineTypes DEF Course, TypeOK, ToSenderOK
<1>9. CASE /\ Input.kind = "DATA" /\ Input.seq = expected /\ expected' = expected + 1
           /\ toSender' = Append(toSender, About("ACK", expected))
  <2>1. /\ Len(toSender') = Len(toSender) + 1
        /\ \A i \in 1 .. Len(toSender) : toSender'[i] = toSender[i]
        /\ toSender'[Len(toSender) + 1].kind = "ACK"
        /\ toSender'[Len(toSender) + 1].seq = expected
    BY <1>8, <1>9, AppendProperties DEF About, Line
  <2>2. \A i \in 1 .. Len(toSender') : i \in 1 .. Len(toSender) \/ i = Len(toSender) + 1
    BY <1>8, <2>1
  <2>3. AnswersTo(Len(toSender))'
    BY <1>1, <2>1, <2>2 DEF AtAck, AnswersTo, AnswerKinds
  <2>4. ~Refused
    BY <1>1, <1>3, <1>4, <1>9 DEF AtAck, Stopped
  <2>5. ~Refused'
    BY <2>1, <2>2, <2>4 DEF Refused
  <2>6. ASSUME OnTrack PROVE OnTrack'
    <3>1. Len(toReceiver') = nextSeq' - expected' /\ Len(toSender') = expected' - base'
      BY <1>2, <1>3, <1>5, <1>7, <1>9, <2>1, <2>6 DEF OnTrack
    <3>2. ASSUME NEW i \in 1 .. Len(toReceiver')
          PROVE  toReceiver'[i].kind = "DATA" /\ toReceiver'[i].seq = expected' + i - 1
      <4>1. i + 1 \in 1 .. Len(toReceiver) /\ toReceiver'[i] = toReceiver[i + 1] /\ i \in Nat
        BY <1>3, <1>5
      <4>2. toReceiver[i + 1].kind = "DATA" /\ toReceiver[i + 1].seq = expected + (i + 1) - 1
        BY <2>6, <4>1 DEF OnTrack
      <4>3. QED
        BY <1>7, <1>9, <4>1, <4>2
    <3>3. ASSUME NEW i \in 1 .. Len(toSender')
          PROVE  toSender'[i].kind = "ACK" /\ toSender'[i].seq = base' + i - 1
      <4>1. CASE i \in 1 .. Len(toSender)
        BY <1>2, <2>1, <2>6, <4>1 DEF OnTrack
      <4>2. CASE i = Len(toSender) + 1
        <5>1. base + (Len(toSender) + 1) - 1 = expected
          BY <1>7, <1>8, <2>6 DEF OnTrack
        <5>2. QED
          BY <1>2, <2>1, <4>2, <5>1
      <4>3. QED
        BY <2>2, <4>1, <4>2
    <3>4. QED
      BY <3>1, <3>2, <3>3 DEF OnTrack
  <2>7. Paid(1)' \/ (Paid(0)' /\ OnTrack')
    BY <1>1, <1>2, <2>6 DEF AtAck, Paid, Spent
  <2>8. AtAck'
    BY <1>1, <1>2, <1>6, <2>3, <2>5, <2>7 DEF AtAck
  <2>9. QED
    BY <1>1, <1>2, <1>5, <2>8 DEF OnCourse
<1>10. ASSUME /\ Input.kind = "DATA" => Input.seq > expected
              /\ UNCHANGED expected,
              NEW kind \in {"NAK", "DROP"}, toSender' = Append(toSender, About(kind, expected))
       PROVE  OnCourse'
  <2>1. /\ Len(toSender') = Len(toSender) + 1
        /\ \A i \in 1 .. Len(toSender) : toSender'[i] = toSender[i]
        /\ toSender'[Len(toSender) + 1].kind = kind
    BY <1>8, <1>10, AppendProperties DEF About, Line
  <2>2. \A i \in 1 .. Len(toSender') : i \in 1 .. Len(toSender) \/ i = Len(toSender) + 1
    BY <1>8, <2>1
  <2>3. AnswersTo(Len(toSender))'
    BY <1>1, <2>1, <2>2 DEF AtAck, AnswersTo, AnswerKinds
  <2>4. ~OnTrack
    <3>1. SUFFICES ASSUME OnTrack PROVE FALSE
      OBVIOUS
    <3>2. Input.kind = "DATA" /\ Input.seq = expected + 1 - 1
      BY <1>3, <1>4, <3>1 DEF OnTrack
    <3>3. QED
      BY <1>7, <1>10, <3>2
  <2>5. Paid(1)'
    BY <1>1, <1>2, <2>4 DEF AtAck, Paid, Spent
  <2>6. Stopped'
    <3>1. expected < nextSeq
      BY <1>7
    <3>2. ASSUME NEW i \in 1 .. Len(toReceiver') PROVE toReceiver'[i].seq # expected
      <4>1. /\ toReceiver'[i] = toReceiver[i + 1] /\ i + 1 \in 1 .. Len(toReceiver)
            /\ toReceiver[i + 1].kind \in FrameKinds
        BY <1>1, <1>3, <1>5 DEF AtAck, FramesTo
      <4>2. Ahead(Input, toReceiver[i + 1])
        <5>1. 1 < i + 1
          BY <1>3, <1>5
        <5>2. QED
          BY <1>3, <1>4, <4>1, <5>1, CourseSetting DEF Course, FlightInv, ToReceiverInv
      <4>3. Input.seq < toReceiver[i + 1].seq /\ toReceiver[i + 1].seq \in Nat
        <5>1. Input.seq < toReceiver[i + 1].seq
          BY <1>4, <4>1, <4>2 DEF Ahead, FrameKinds, Frames
        <5>2. toReceiver[i + 1].seq \in Seqs
          BY <4>1, FramesAreAhead
        <5>3. QED
          BY <5>1, <5>2, AttemptsTypes
      <4>4. QED
        BY <1>7, <4>1, <4>3
    <3>3. QED
      BY <1>2, <1>10, <3>1, <3>2 DEF Stopped
  <2>7. AtAck'
    BY <1>1, <1>2, <1>6, <2>3, <2>5, <2>6 DEF AtAck
  <2>8. QED
    BY <1>1, <1>2, <1>5, <2>7 DEF OnCourse
<1>11. QED
  BY <1>5, <1>9, <1>10

LEMMA BarredCourse ==
  ASSUME Course, ReceiverStep, phase = "resume"
  PROVE  OnCourse'
<1>1. /\ UNCHANGED <<senderVars, setting, faults>> /\ faults' <= setting'.budget
      /\ rPhase = "data" /\ metaOk /\ AtResume /\ toReceiver # <<>>
  BY ReceiverReads DEF Course, OnCourse
<1>2. /\ UNCHANGED <<phase, tries, token, nextSeq, attempts, recoveries, resets>>
      /\ phase' = "resume"
  BY <1>1 DEF senderVars, askVars, windowVars
<1>3. Barred /\ Paid(1)'
  BY <1>1, <1>2 DEF AtResume, Resumed, Unheard, Paid, Spent
<1>4. /\ Len(toReceiver) \in Nat \ {0} /\ Len(Tail(toReceiver)) = Len(toReceiver) - 1
      /\ \A i \in 1 .. Len(Tail(toReceiver)) : Tail(toReceiver)[i] = toReceiver[i + 1]
      /\ Input = toReceiver[1]
  BY <1>1, TailElements DEF Course, TypeOK, ToReceiverOK, Input
<1>5. toSender \in Seq(ToSenderLine) /\ Len(toSender) \in Nat
  BY LineTypes DEF Course, TypeOK, ToSenderOK
<1>6. CASE Len(toReceiver) = 1
  <2>1. Input = Ask("BARRIER", token)
    BY <1>3, <1>4, <1>6 DEF Barred, EndsWith
  <2>2. Input.kind = "BARRIER" /\ Input.tok = token
    BY <2>1 DEF Ask, Line
  <2>3. RecvAnswered
    BY <1>1, <1>2, <2>2, ReceiverReads
  <2>4. toReceiver' = Tail(toReceiver) /\ UNCHANGED receiverVars
        /\ toSender' = Append(toSender, Line("RESUME", token, expected))
    BY <2>2, <2>3 DEF RecvAnswered, Read, TakeInput, Answer
  <2>5. toReceiver' = <<>>
    <3>1. Tail(toReceiver) \in Seq(ToReceiverLine) /\ Len(Tail(toReceiver)) = 0
      BY <1>1, <1>4, <1>6, HeadTailProperties DEF Course, TypeOK, ToReceiverOK
    <3>2. QED
      BY <2>4, <3>1, EmptySeq
  <2>6. /\ Len(toSender') = Len(toSender) + 1 /\ toSender' # <<>>
        /\ \A i \in 1 .. Len(toSender) : toSender'[i] = toSender[i]
        /\ toSender'[Len(toSender) + 1] = Line("RESUME", token, expected)
    <3>1. /\ Len(toSender') = Len(toSender) + 1
          /\ \A i \in 1 .. Len(toSender) : toSender'[i] = toSender[i]
          /\ toSender'[Len(toSender) + 1] = Line("RESUME", token, expected)
      BY <1>5, <2>4, AppendProperties
    <3>2. QED
      BY <1>5, <3>1
  <2>7. AnswersTo(Len(toSender) - 1)'
    <3>1. Len(toSender') - 1 = Len(toSender)
      BY <1>5, <2>6
    <3>2. QED
      BY <1>3, <2>6, <3>1 DEF Barred, AnswersTo
  <2>8. Resumed'
    BY <1>1, <1>2, <1>3, <2>4, <2>5, <2>6, <2>7 DEF Barred, Resumed, EndsWith, receiverVars
  <2>9. QED
    BY <1>1, <1>2, <1>3, <2>4, <2>8 DEF OnCourse, AtResume, receiverVars
<1>7. CASE Len(toReceiver) # 1
  <2>1. 1 \in 1 .. Len(toReceiver) - 1 /\ Input.kind \in FrameKinds
    BY <1>3, <1>4, <1>7 DEF Barred, FramesTo
  <2>2. /\ toReceiver' = Tail(toReceiver) /\ UNCHANGED <<rPhase, metaOk>>
        /\ \E kind \in AnswerKinds : toSender' = Append(toSender, About(kind, expected))
    BY <1>2, <2>1, FrameRead DEF AnswerKinds
  <2>3. PICK kind \in AnswerKinds : toSender' = Append(toSender, About(kind, expected))
    BY <2>2
  <2>4. /\ Len(toSender') = Len(toSender) + 1
        /\ \A i \in 1 .. Len(toSender) : toSender'[i] = toSender[i]
        /\ toSender'[Len(toSender) + 1].kind = kind
    BY <1>5, <2>3, AppendProperties DEF About, Line
  <2>5. AnswersTo(Len(toSender))'
    <3>1. \A i \in 1 .. Len(toSender') : i \in 1 .. Len(toSender) \/ i = Len(toSender) + 1
      BY <1>5, <2>4
    <3>2. QED
      BY <1>3, <2>4, <3>1 DEF Barred, AnswersTo
  <2>6. EndsWith(toReceiver, Ask("BARRIER", token))'
    <3>1. Len(toReceiver') \in 1 .. Len(toReceiver') /\ Len(toReceiver') + 1 = Len(toReceiver)
      BY <1>4, <1>7, <2>2
    <3>2. Len(toReceiver') # 0
      BY <3>1
    <3>3. toReceiver'[Len(toReceiver')] = toReceiver[Len(toReceiver)]
      BY <1>4, <2>2, <3>1
    <3>4. QED
      BY <1>2, <1>3, <3>2, <3>3 DEF Barred, EndsWith
  <2>7. FramesTo(Len(toReceiver) - 1)'
    <3>1. \A i \in 1 .. Len(toReceiver') - 1 :
            /\ i + 1 \in 1 .. Len(toReceiver) - 1
            /\ toReceiver'[i] = toReceiver[i + 1]
      BY <1>4, <2>2
    <3>2. QED
      BY <1>3, <3>1 DEF Barred, FramesTo
  <2>8. Barred'
    BY <1>1, <1>2, <1>3, <2>5, <2>6, <2>7 DEF Barred
  <2>9. QED
    BY <1>1, <1>2, <1>3, <2>2, <2>8 DEF OnCourse, AtResume
<1>8. QED
  BY <1>6, <1>7

(* Once send_file has returned, its result stands. *)
LEMMA EndedCourse ==
  ASSUME Course, ReceiverStep \/ FaultStep, phase = "end", faults' <= setting'.budget
  PROVE  OnCourse'
  BY OthersLeaveSender DEF senderVars, Course, OnCourse

LEMMA ReceiverStaysOnCourse ==
  ASSUME Course, ReceiverStep
  PROVE  OnCourse'
<1>1. faults' <= setting'.budget
  BY DEF ReceiverStep, RecvMeta, RecvAnswered, RecvGap, RecvBlock, RecvShortFrame, RecvReset,
         RecvDone, Install, RecvUnexpected, RecvTimeout, Read, OfReceiver, Course, OnCourse
<1>2. phase \in Phases /\ phase # "reguard"
  BY DEF Course, OnCourse, TypeOK, SenderTypeOK
<1>3. QED
  BY <1>1, <1>2, MetaCourse, QuestionCourse, DoneCourse, FlightCourse, BarredCourse, EndedCourse
  DEF Phases

-----------------------------------------------------------------------------
(* The line: one more fault on the account.                                 *)

LEMMA FaultIsSpare ==
  ASSUME Course, faults' = faults + 1, UNCHANGED senderVars
  PROVE  /\ \A n \in Nat : Spent(n) => Spent(n)' /\ Spent(n + 1)'
         /\ Paid(0) => Paid(1)'
         /\ Paid(1) => Paid(1)'
<1>1. UNCHANGED <<resets, recoveries, attempts, nextSeq>>
  BY DEF senderVars, windowVars
<1>2. /\ faults \in Nat /\ recoveries \in Nat /\ \A k \in Seqs : attempts[k] \in Nat
      /\ (ProbeRetries + 1) * resets \in Nat
  <2>1. \A m, p \in Nat : (m + 1) * p \in Nat
    OBVIOUS
  <2>2. QED
    <3>1. faults \in Nat /\ recoveries \in Nat /\ (ProbeRetries + 1) * resets \in Nat
      BY <2>1, CourseTypes
    <3>2. QED
      BY <3>1, AttemptsTypes
<1>3. \A x, n, f \in Nat : x + n <= f => x + n <= f + 1 /\ x + (n + 1) <= f + 1
  OBVIOUS
<1>4. \A n \in Nat : Spent(n) => Spent(n)' /\ Spent(n + 1)'
  <2>1. ASSUME NEW n \in Nat, (ProbeRetries + 1) * resets + n <= faults
        PROVE  /\ (ProbeRetries + 1) * resets + n <= faults + 1
               /\ (ProbeRetries + 1) * resets + (n + 1) <= faults + 1
    BY <1>2, <1>3, <2>1, Zenon
  <2>2. QED
    BY <1>1, <2>1 DEF Spent
<1>5. ASSUME NEW n \in {0, 1}, Paid(n) PROVE Paid(1)'
  <2>1. Spent(1)'
    BY <1>4, <1>5 DEF Paid
  <2>2. recoveries' + 1 <= faults'
    BY <1>1, <1>2, <1>5 DEF Paid
  <2>3. ASSUME NEW k \in Seqs PROVE attempts'[k] + 1 <= faults' + (IF k < nextSeq' THEN 1 ELSE 0)
    <3>1. attempts[k] + n <= faults + (IF k < nextSeq THEN 1 ELSE 0) /\ attempts[k] \in Nat
      BY <1>2, <1>5 DEF Paid
    <3>2. QED
      BY <1>1, <1>2, <3>1
  <2>4. QED
    BY <2>1, <2>2, <2>3 DEF Paid
<1>6. QED
  BY <1>4, <1>5

(* The first line of a channel is lost, or the first frame is damaged.     *)
Dropped(s) == s # <<>> /\ s' = Tail(s)
Damaged ==
  /\ toReceiver # <<>> /\ Input.kind = "DATA"
  /\ toReceiver' = <<About("BAD", Input.seq)>> \o Tail(toReceiver) /\ UNCHANGED toSender
Hit == \/ Dropped(toReceiver) /\ UNCHANGED toSender
       \/ Dropped(toSender) /\ UNCHANGED toReceiver
       \/ Damaged

LEMMA LineIsHit ==
  ASSUME Course, FaultStep
  PROVE  /\ faults' = faults + 1 /\ faults' <= setting'.budget
         /\ UNCHANGED <<senderVars, receiverVars, setting>> /\ Hit
<1>1. setting.kinds \subseteq {"lose", "corrupt"}
  BY CourseSetting
<1>2. LoseLine \/ (DamageFrame /\ Fault("corrupt"))
  BY <1>1 DEF FaultStep, DuplicateLine, DamageFrame, GarbleLine, StorageFails, ReceiverCrash, Fault
<1>3. /\ faults' = faults + 1 /\ UNCHANGED setting /\ faults < setting.budget
      /\ UNCHANGED <<senderVars, receiverVars>>
  BY <1>2 DEF LoseLine, DamageFrame, Fault, LineOnly
<1>4. setting.budget \in Nat /\ faults \in Nat
  BY TransferAssumption, CourseTypes DEF Course, TypeOK, Setting
<1>5. faults + 1 <= setting.budget
  BY <1>3, <1>4
<1>6. Hit
  <2>1. CASE LoseLine
    BY <2>1 DEF LoseLine, Hit, Dropped
  <2>2. CASE DamageFrame /\ Fault("corrupt")
    <3>1. ~Fault("shorten")
      BY <1>1 DEF Fault
    <3>2. QED
      BY <2>2, <3>1 DEF DamageFrame, Hit, Damaged
  <2>3. QED
    BY <1>2, <2>1, <2>2
<1>7. QED
  BY <1>3, <1>5, <1>6

(* What is left of the lines. *)
LEMMA HitLines ==
  ASSUME Course, Hit
  PROVE  /\ \E d \in {0, 1} :
              /\ Len(toReceiver') = Len(toReceiver) - d
              /\ \A i \in 1 .. Len(toReceiver') :
                   \/ toReceiver'[i] = toReceiver[i + d]
                   \/ d = 0 /\ i = 1 /\ toReceiver[1].kind = "DATA"
                      /\ toReceiver'[1] = About("BAD", toReceiver[1].seq)
         /\ \E d \in {0, 1} : /\ Len(toSender') = Len(toSender) - d
                              /\ \A i \in 1 .. Len(toSender') : toSender'[i] = toSender[i + d]
         /\ toReceiver' \in Seq(ToReceiverLine) /\ toSender' \in Seq(ToSenderLine)
         /\ toReceiver = <<>> => toReceiver' = <<>>
         /\ Len(toReceiver) \in Nat /\ Len(toSender) \in Nat
<1>1. /\ toReceiver \in Seq(ToReceiverLine) /\ toSender \in Seq(ToSenderLine)
      /\ Len(toReceiver) \in Nat /\ Len(toSender) \in Nat
  BY LineTypes DEF Course, TypeOK, ToReceiverOK, ToSenderOK
<1>2. UNCHANGED toSender =>
        /\ \E d \in {0, 1} : /\ Len(toSender') = Len(toSender) - d
                             /\ \A i \in 1 .. Len(toSender') : toSender'[i] = toSender[i + d]
        /\ toSender' \in Seq(ToSenderLine)
  BY <1>1
<1>3. CASE Dropped(toReceiver) /\ UNCHANGED toSender
  <2>1. /\ toReceiver' = Tail(toReceiver) /\ toReceiver # <<>>
        /\ Len(toReceiver') = Len(toReceiver) - 1
        /\ \A i \in 1 .. Len(toReceiver') : toReceiver'[i] = toReceiver[i + 1]
    BY <1>1, <1>3, TailElements DEF Dropped
  <2>2. toReceiver' \in Seq(ToReceiverLine)
    BY <1>1, <2>1, HeadTailProperties
  <2>3. QED
    BY <1>1, <1>2, <1>3, <2>1, <2>2
<1>4. CASE Dropped(toSender) /\ UNCHANGED toReceiver
  <2>1. /\ toSender' = Tail(toSender) /\ Len(toSender') = Len(toSender) - 1
        /\ \A i \in 1 .. Len(toSender') : toSender'[i] = toSender[i + 1]
    BY <1>1, <1>4, TailElements DEF Dropped
  <2>2. toSender' \in Seq(ToSenderLine)
    BY <1>1, <1>4, HeadTailProperties DEF Dropped
  <2>3. QED
    BY <1>1, <1>4, <2>1, <2>2
<1>5. CASE Damaged
  <2>1. toReceiver # <<>> /\ Input = toReceiver[1] /\ Input \in ToReceiverLine
    BY <1>1, <1>5, HeadTailProperties, ChannelType, TailElements DEF Damaged, Input
  <2>2. About("BAD", Input.seq) \in ToReceiverLine
    BY <2>1, SentLineType DEF SenderKinds, Frames, ToReceiverLine
  <2>3. /\ toReceiver' \in Seq(ToReceiverLine) /\ Len(toReceiver') = Len(toReceiver)
        /\ toReceiver'[1] = About("BAD", Input.seq)
        /\ \A i \in 2 .. Len(toReceiver) : toReceiver'[i] = toReceiver[i]
    BY <1>1, <1>5, <2>1, <2>2, HeadReplaced DEF Damaged
  <2>4. \A i \in 1 .. Len(toReceiver') : i = 1 \/ i \in 2 .. Len(toReceiver)
    BY <1>1, <2>3
  <2>5. /\ Len(toReceiver') = Len(toReceiver) - 0
        /\ \A i \in 1 .. Len(toReceiver') :
             \/ toReceiver'[i] = toReceiver[i + 0]
             \/ 0 = 0 /\ i = 1 /\ toReceiver[1].kind = "DATA"
                /\ toReceiver'[1] = About("BAD", toReceiver[1].seq)
    BY <1>1, <1>5, <2>1, <2>3, <2>4 DEF Damaged
  <2>6. UNCHANGED toSender
    BY <1>5 DEF Damaged
  <2>7. \E d \in {0, 1} :
          /\ Len(toReceiver') = Len(toReceiver) - d
          /\ \A i \in 1 .. Len(toReceiver') :
               \/ toReceiver'[i] = toReceiver[i + d]
               \/ d = 0 /\ i = 1 /\ toReceiver[1].kind = "DATA"
                  /\ toReceiver'[1] = About("BAD", toReceiver[1].seq)
    BY <2>5, Zenon
  <2>8. QED
    BY <1>1, <1>2, <2>1, <2>3, <2>6, <2>7
<1>6. QED
  BY <1>3, <1>4, <1>5 DEF Hit

LEMMA HitAlone ==
  ASSUME Course, Hit
  PROVE  /\ ~Silent
         /\ \A q, a : UnderWay(q, a) /\ q.kind # "DATA" => Silent'
<1>1. ~Silent
  BY DEF Hit, Dropped, Damaged, Silent
<1>2. ASSUME NEW q, NEW a, UnderWay(q, a), q.kind # "DATA"
      PROVE  Silent'
  BY <1>2, OneLine DEF Hit, Dropped, Damaged, UnderWay, Silent, Input
<1>3. QED
  BY <1>1, <1>2

(* A question or its answer is lost, META or READY, DONE or what precedes OK. *)
LEMMA QuestionIsHit ==
  ASSUME Course, FaultStep, phase \in {"ready", "guard", "probe", "reset", "restart", "done"}
  PROVE  OnCourse'
<1>1. /\ faults' = faults + 1 /\ faults' <= setting'.budget /\ Hit
      /\ UNCHANGED <<senderVars, receiverVars, setting>>
  BY LineIsHit
<1>2. /\ UNCHANGED <<phase, tries, token, nextSeq, attempts, recoveries, resets>>
      /\ UNCHANGED <<rPhase, metaOk, expected>>
  BY <1>1 DEF senderVars, askVars, windowVars, receiverVars
<1>3. /\ \A n \in Nat : Spent(n) => Spent(n)' /\ Spent(n + 1)'
      /\ Paid(1) => Paid(1)'
  BY <1>1, FaultIsSpare
<1>4. /\ ~Silent
      /\ \A q, a : UnderWay(q, a) /\ q.kind # "DATA" => Silent'
  BY <1>1, HitAlone
<1>5. \A kind, tok : Ask(kind, tok).kind = kind /\ Word(kind).kind = kind
  BY DEF Ask, Word, Line
<1>6. CASE phase = "ready"
  <2>1. AtReady
    BY <1>6 DEF Course, OnCourse
  <2>2. UnderWay(Word("META"), Word("READY"))
    BY <1>4, <2>1 DEF AtReady, UnderWay, Silent
  <2>3. Silent'
    BY <1>4, <1>5, <2>2
  <2>4. AtReady'
    BY <1>2, <2>1, <2>3 DEF AtReady, Silent
  <2>5. QED
    BY <1>1, <1>2, <1>6, <2>4 DEF OnCourse
<1>7. CASE phase = "guard"
  BY <1>4, <1>7 DEF Course, OnCourse, AtGuard
<1>8. CASE phase = "probe"
  <2>1. /\ Paid(1) /\ tries >= 1 /\ Spent(tries)
        /\ UnderWay(Ask("AYT", token), Line("HERE", token, expected))
    BY <1>4, <1>8 DEF Course, OnCourse, AtProbe
  <2>2. Silent' /\ Spent(tries + 1)'
    <3>1. tries \in Nat /\ UNCHANGED tries
      BY <1>2, CourseTypes
    <3>2. Spent(tries + 1)'
      BY <1>3, <2>1, <3>1 DEF Spent
    <3>3. QED
      BY <1>4, <1>5, <2>1, <3>2
  <2>3. AtProbe'
    BY <1>2, <1>3, <2>1, <2>2 DEF AtProbe
  <2>4. QED
    BY <1>1, <1>2, <1>8, <2>3 DEF OnCourse, Course
<1>9. CASE phase = "reset"
  <2>1. /\ tries >= 1 /\ Spent(ProbeRetries + tries)
        /\ UnderWay(Ask("RST", token), Ask("RSTACK", token))
    BY <1>4, <1>9 DEF Course, OnCourse, AtReset
  <2>2. Silent' /\ Spent(ProbeRetries + tries + 1)'
    <3>1. ProbeRetries + tries \in Nat /\ UNCHANGED tries
      BY <1>2, CourseTypes
    <3>2. Spent(ProbeRetries + tries + 1)'
      BY <1>3, <2>1, <3>1 DEF Spent
    <3>3. QED
      BY <1>4, <1>5, <2>1, <3>2
  <2>3. AtReset'
    BY <1>2, <2>1, <2>2 DEF AtReset, Silent
  <2>4. QED
    BY <1>1, <1>2, <1>9, <2>3 DEF OnCourse, Course
<1>10. CASE phase = "restart"
  <2>1. /\ expected = 0 /\ Spent(0) /\ tries <= faults
        /\ UnderWay(Ask("BARRIER", token), Line("RESUME", token, 0))
    BY <1>4, <1>10 DEF Course, OnCourse, AtRestart
  <2>2. Silent' /\ Spent(0)' /\ tries' < faults'
    BY <1>1, <1>2, <1>3, <1>4, <1>5, <2>1, CourseTypes
  <2>3. AtRestart'
    BY <1>2, <2>1, <2>2 DEF AtRestart
  <2>4. QED
    BY <1>1, <1>2, <1>10, <2>3 DEF OnCourse, Course
<1>11. CASE phase = "done"
  <2>1. AtDone
    BY <1>11 DEF Course, OnCourse
  <2>2. toReceiver' = toReceiver \/ toReceiver' = <<>>
    <3>1. toReceiver = <<>> \/ toReceiver = <<Word("DONE")>>
      BY <2>1 DEF AtDone
    <3>2. CASE toReceiver = <<>>
      BY <1>1, <3>2, HitLines
    <3>3. CASE toReceiver = <<Word("DONE")>>
      <4>1. Tail(toReceiver) = <<>> /\ Input.kind = "DONE"
        BY <1>5, <3>3, OneLine DEF Input
      <4>2. QED
        BY <1>1, <4>1 DEF Hit, Dropped, Damaged
    <3>4. QED
      BY <3>1, <3>2, <3>3
  <2>3. \A i \in 1 .. Len(toSender') :
          \E k \in 1 .. Len(toSender) : toSender'[i] = toSender[k]
    <3>1. PICK d \in {0, 1} : /\ Len(toSender') = Len(toSender) - d
                              /\ \A i \in 1 .. Len(toSender') : toSender'[i] = toSender[i + d]
      BY <1>1, HitLines
    <3>2. \A i \in 1 .. Len(toSender') : i + d \in 1 .. Len(toSender)
      BY <1>1, <3>1, HitLines
    <3>3. QED
      BY <3>1, <3>2
  <2>4. AtDone'
    BY <1>2, <2>1, <2>2, <2>3 DEF AtDone
  <2>5. QED
    BY <1>1, <1>2, <1>11, <2>4 DEF OnCourse
<1>12. QED
  BY <1>6, <1>7, <1>8, <1>9, <1>10, <1>11

(* A flight is hit: its recovery is paid for. *)
LEMMA FlightIsHit ==
  ASSUME Course, FaultStep, phase = "ack"
  PROVE  OnCourse'
<1>1. /\ faults' = faults + 1 /\ faults' <= setting'.budget /\ Hit
      /\ UNCHANGED <<senderVars, receiverVars, setting>>
  BY LineIsHit
<1>2. /\ UNCHANGED <<phase, base, nextSeq, rPhase, metaOk, expected>> /\ phase' = "ack"
      /\ AtAck /\ rPhase = "data" /\ metaOk
  BY <1>1 DEF senderVars, windowVars, receiverVars, Course, OnCourse
<1>3. Paid(1)'
  BY <1>1, <1>2, FaultIsSpare DEF AtAck
<1>4. Len(toReceiver) \in Nat /\ Len(toSender) \in Nat
  BY <1>1, HitLines
<1>5. \A i \in 1 .. Len(toSender') : \E k \in 1 .. Len(toSender) : toSender'[i] = toSender[k]
  <2>1. PICK d \in {0, 1} : /\ Len(toSender') = Len(toSender) - d
                            /\ \A i \in 1 .. Len(toSender') : toSender'[i] = toSender[i + d]
    BY <1>1, HitLines
  <2>2. \A i \in 1 .. Len(toSender') : i + d \in 1 .. Len(toSender)
    BY <1>4, <2>1
  <2>3. QED
    BY <2>1, <2>2
<1>6. \A i \in 1 .. Len(toReceiver') :
        \E k \in 1 .. Len(toReceiver) : /\ toReceiver'[i].seq = toReceiver[k].seq
                                        /\ toReceiver[k].kind \in FrameKinds
                                        /\ toReceiver'[i].kind \in FrameKinds
  <2>1. PICK d \in {0, 1} :
          /\ Len(toReceiver') = Len(toReceiver) - d
          /\ \A i \in 1 .. Len(toReceiver') :
               \/ toReceiver'[i] = toReceiver[i + d]
               \/ d = 0 /\ i = 1 /\ toReceiver'[1] = About("BAD", toReceiver[1].seq)
    BY <1>1, HitLines
  <2>2. ASSUME NEW i \in 1 .. Len(toReceiver')
        PROVE  \E k \in 1 .. Len(toReceiver) : /\ toReceiver'[i].seq = toReceiver[k].seq
                                               /\ toReceiver[k].kind \in FrameKinds
                                               /\ toReceiver'[i].kind \in FrameKinds
    <3>1. i + d \in 1 .. Len(toReceiver)
      BY <1>4, <2>1
    <3>2. toReceiver[i + d].kind \in FrameKinds
      BY <1>2, <3>1 DEF AtAck, FramesTo
    <3>3. CASE toReceiver'[i] = toReceiver[i + d]
      BY <3>1, <3>2, <3>3
    <3>4. CASE d = 0 /\ i = 1 /\ toReceiver'[1] = About("BAD", toReceiver[1].seq)
      <4>1. i + d = 1
        BY <3>4
      <4>2. toReceiver'[i].kind = "BAD" /\ toReceiver'[i].seq = toReceiver[i + d].seq
        BY <3>4, <4>1 DEF About, Line
      <4>3. QED
        BY <3>1, <3>2, <4>2 DEF FrameKinds
    <3>5. QED
      BY <2>1, <3>3, <3>4
  <2>3. QED
    BY <2>2
<1>7. FramesTo(Len(toReceiver))' /\ AnswersTo(Len(toSender))'
  BY <1>2, <1>5, <1>6 DEF AtAck, FramesTo, AnswersTo
<1>8. Refused' => Stopped'
  BY <1>2, <1>5, <1>6 DEF AtAck, Refused, Stopped
<1>9. AtAck'
  BY <1>2, <1>3, <1>7, <1>8 DEF AtAck
<1>10. QED
  BY <1>1, <1>2, <1>9 DEF OnCourse

(* The old flight, its barrier or its answers are hit. *)
LEMMA BarrierIsHit ==
  ASSUME Course, FaultStep, phase = "resume"
  PROVE  OnCourse'
<1>1. /\ faults' = faults + 1 /\ faults' <= setting'.budget /\ Hit
      /\ UNCHANGED <<senderVars, receiverVars, setting>>
  BY LineIsHit
<1>2. /\ UNCHANGED <<phase, tries, token, rPhase, metaOk, expected>> /\ phase' = "resume"
      /\ AtResume /\ rPhase = "data" /\ metaOk
  BY <1>1 DEF senderVars, askVars, receiverVars, Course, OnCourse
<1>3. Paid(1)' /\ faults \in Nat /\ tries \in Nat
  BY <1>1, <1>2, FaultIsSpare, CourseTypes DEF AtResume
<1>4. /\ Len(toReceiver) \in Nat /\ Len(toSender) \in Nat
      /\ toReceiver' \in Seq(ToReceiverLine) /\ toSender' \in Seq(ToSenderLine)
      /\ toReceiver = <<>> => toReceiver' = <<>>
  BY <1>1, HitLines
<1>5. PICK d \in {0, 1} : /\ Len(toSender') = Len(toSender) - d
                          /\ \A i \in 1 .. Len(toSender') : toSender'[i] = toSender[i + d]
  BY <1>1, HitLines
<1>6. PICK e \in {0, 1} :
        /\ Len(toReceiver') = Len(toReceiver) - e
        /\ \A i \in 1 .. Len(toReceiver') :
             \/ toReceiver'[i] = toReceiver[i + e]
             \/ e = 0 /\ i = 1 /\ toReceiver[1].kind = "DATA"
                /\ toReceiver'[1] = About("BAD", toReceiver[1].seq)
  BY <1>1, HitLines
<1>7. AnswersTo(Len(toSender)) => AnswersTo(Len(toSender))'
  <2>1. \A i \in 1 .. Len(toSender') : i + d \in 1 .. Len(toSender)
    BY <1>4, <1>5
  <2>2. QED
    BY <1>5, <2>1 DEF AnswersTo
<1>8. tries <= faults => tries' < faults'
  BY <1>1, <1>2, <1>3
<1>9. tries < faults => tries' < faults'
  BY <1>1, <1>2, <1>3
<1>10. tries' < faults' => tries' <= faults'
  BY <1>1, <1>2, <1>3
<1>11. CASE Barred
  <2>1. CASE Len(toReceiver') = 0
    <3>1. toReceiver' = <<>>
      BY <1>4, <2>1, EmptySeq
    <3>2. Unheard'
      BY <1>7, <1>8, <1>11, <3>1 DEF Barred, Unheard
    <3>3. QED
      BY <1>1, <1>2, <1>3, <3>2 DEF OnCourse, AtResume
  <2>2. CASE Len(toReceiver') # 0
    <3>1. /\ Len(toReceiver') \in 1 .. Len(toReceiver') /\ Len(toReceiver') + e = Len(toReceiver)
          /\ \A i \in 1 .. Len(toReceiver') - 1 :
               i + e \in 1 .. Len(toReceiver) - 1 /\ i \in 1 .. Len(toReceiver')
      <4>1. Len(toReceiver') \in Nat
        BY <1>4, LenProperties
      <4>2. QED
        BY <1>4, <1>6, <2>2, <4>1
    <3>2. toReceiver[Len(toReceiver)] = Ask("BARRIER", token) /\ Ask("BARRIER", token).kind = "BARRIER"
      BY <1>11 DEF Barred, EndsWith, Ask, Line
    <3>3. toReceiver'[Len(toReceiver')] = Ask("BARRIER", token)
      <4>1. SUFFICES ASSUME e = 0, Len(toReceiver') = 1, toReceiver[1].kind = "DATA" PROVE FALSE
        BY <1>6, <3>1, <3>2
      <4>2. Len(toReceiver) = 1
        <5>1. \A n \in Nat : 1 = n - 0 => n = 1
          OBVIOUS
        <5>2. 1 = Len(toReceiver) - 0
          BY <1>6, <4>1
        <5>3. QED
          BY <1>4, <5>1, <5>2, Zenon
      <4>3. QED
        BY <3>2, <4>1, <4>2
    <3>4. FramesTo(Len(toReceiver) - 1)'
      <4>1. ASSUME NEW i \in 1 .. Len(toReceiver') - 1 PROVE toReceiver'[i].kind \in FrameKinds
        <5>1. CASE toReceiver'[i] = toReceiver[i + e]
          BY <1>11, <3>1, <5>1 DEF Barred, FramesTo
        <5>2. CASE i = 1 /\ toReceiver'[1] = About("BAD", toReceiver[1].seq)
          BY <5>2 DEF About, Line, FrameKinds
        <5>3. QED
          BY <1>6, <3>1, <5>1, <5>2
      <4>2. QED
        BY <4>1 DEF FramesTo
    <3>5. Barred'
      BY <1>2, <1>7, <1>8, <1>10, <1>11, <2>2, <3>3, <3>4 DEF Barred, EndsWith
    <3>6. QED
      BY <1>1, <1>2, <1>3, <3>5 DEF OnCourse, AtResume
  <2>3. QED
    BY <2>1, <2>2
<1>12. CASE Unheard
  <2>1. Unheard'
    BY <1>4, <1>7, <1>9, <1>12 DEF Unheard
  <2>2. QED
    BY <1>1, <1>2, <1>3, <2>1 DEF OnCourse, AtResume
<1>13. CASE Resumed
  <2>1. toReceiver' = <<>>
    BY <1>4, <1>13 DEF Resumed
  <2>2. CASE Len(toSender') = 0
    <3>1. AnswersTo(Len(toSender))'
      BY <2>2 DEF AnswersTo
    <3>2. Unheard'
      BY <1>8, <1>13, <2>1, <3>1 DEF Resumed, Unheard
    <3>3. QED
      BY <1>1, <1>2, <1>3, <3>2 DEF OnCourse, AtResume
  <2>3. CASE Len(toSender') # 0
    <3>1. /\ Len(toSender') \in 1 .. Len(toSender') /\ Len(toSender') + d = Len(toSender)
          /\ \A i \in 1 .. Len(toSender') - 1 :
               i + d \in 1 .. Len(toSender) - 1 /\ i \in 1 .. Len(toSender')
      <4>1. Len(toSender') \in Nat
        BY <1>4, LenProperties
      <4>2. QED
        BY <1>4, <1>5, <2>3, <4>1
    <3>2. toSender'[Len(toSender')] = Line("RESUME", token, expected)
      BY <1>5, <1>13, <3>1 DEF Resumed, EndsWith
    <3>3. AnswersTo(Len(toSender) - 1)'
      BY <1>5, <1>13, <3>1 DEF Resumed, AnswersTo
    <3>4. Resumed'
      BY <1>2, <1>8, <1>10, <1>13, <2>1, <2>3, <3>2, <3>3 DEF Resumed, EndsWith
    <3>5. QED
      BY <1>1, <1>2, <1>3, <3>4 DEF OnCourse, AtResume
  <2>4. QED
    BY <2>2, <2>3
<1>14. QED
  BY <1>2, <1>11, <1>12, <1>13 DEF AtResume

LEMMA FaultStaysOnCourse ==
  ASSUME Course, FaultStep
  PROVE  OnCourse'
<1>1. faults' <= setting'.budget
  BY LineIsHit
<1>2. phase \in Phases /\ phase # "reguard"
  BY DEF Course, OnCourse, TypeOK, SenderTypeOK
<1>3. QED
  BY <1>1, <1>2, QuestionIsHit, FlightIsHit, BarrierIsHit, EndedCourse DEF Phases

-----------------------------------------------------------------------------
(* The file, and the invariant.                                             *)

LEMMA WrittenStays ==
  ASSUME TypeOK, Written, [Next]_vars
  PROVE  Written'
<1>1. part \in Seq(Seqs) /\ expected \in 0 .. Blocks /\ Blocks \in Nat
  BY TransferAssumption DEF TypeOK, ReceiverTypeOK
<1>2. CASE SenderStep \/ UNCHANGED vars
  BY <1>2, SenderLeavesReceiver DEF Written, receiverVars, vars
<1>3. CASE ReceiverStep \/ FaultStep
  <2>1. CASE part' = Append(part, expected) /\ expected' = expected + 1 /\ expected < Blocks
    <3>1. expected \in Seqs /\ Len(part) = expected
      BY <1>1, <2>1 DEF Seqs, Written
    <3>2. /\ Len(part') = Len(part) + 1 /\ part'[Len(part) + 1] = expected
          /\ \A i \in 1 .. Len(part) : part'[i] = part[i]
      BY <1>1, <2>1, <3>1, AppendProperties
    <3>3. \A i \in 1 .. expected + 1 : i = expected + 1 \/ i \in 1 .. expected
      BY <1>1
    <3>4. expected = (expected + 1) - 1
      BY <1>1
    <3>5. QED
      BY <2>1, <3>1, <3>2, <3>3, <3>4 DEF Written
  <2>2. CASE StartOver
    BY <2>2 DEF StartOver, Written
  <2>3. CASE UNCHANGED <<part, expected>>
    BY <2>3 DEF Written
  <2>4. QED
    BY <1>3, <2>1, <2>2, <2>3, FileStep DEF Written, PartLength
<1>4. QED
  BY <1>2, <1>3 DEF Next

LEMMA ReportedOnce ==
  ASSUME NotYetReported, [Next]_vars
  PROVE  NotYetReported'
<1>1. CASE SenderStep
  BY <1>1, SenderReportsOnce
<1>2. CASE ReceiverStep \/ FaultStep
  BY <1>2, OthersLeaveSender DEF senderVars, NotYetReported
<1>3. CASE UNCHANGED vars
  BY <1>3 DEF vars, senderVars, NotYetReported
<1>4. QED
  BY <1>1, <1>2, <1>3 DEF Next

LossInv == Written /\ NotYetReported /\ (Recoverable => OnCourse)

LEMMA LossStep ==
  ASSUME TypeOK, FlightInv, LossInv, [Next]_vars
  PROVE  LossInv'
<1>1. Written' /\ NotYetReported'
  BY WrittenStays, ReportedOnce DEF LossInv
<1>2. ASSUME Recoverable' PROVE OnCourse'
  <2>1. Course
    BY <1>2, SettingStays DEF Course, LossInv, Recoverable
  <2>2. CASE UNCHANGED vars
    BY <2>1, <2>2
    DEF vars, senderVars, askVars, windowVars, receiverVars, Course, OnCourse, AtReady, AtAck,
        AtGuard, AtProbe, AtReset, AtResume, AtRestart, AtDone, Silent, UnderWay, Spent, Paid,
        FramesTo, AnswersTo, EndsWith, OnTrack, Refused, Stopped, Barred, Resumed, Unheard
  <2>3. QED
    BY <2>1, <2>2, SenderStaysOnCourse, ReceiverStaysOnCourse, FaultStaysOnCourse DEF Next
<1>3. QED
  BY <1>1, <1>2 DEF LossInv

LEMMA LossHolds == Spec => []LossInv
<1>1. Init => LossInv
  <2>1. SUFFICES ASSUME Init PROVE LossInv
    OBVIOUS
  <2>2. Written /\ NotYetReported
    BY <2>1 DEF Init, Written, NotYetReported
  <2>3. AtReady
    BY <2>1 DEF Init, AtReady
  <2>4. faults <= setting.budget
    BY <2>1, TransferAssumption DEF Init, Setting
  <2>5. QED
    BY <2>1, <2>2, <2>3, <2>4 DEF Init, LossInv, OnCourse
<1>2. TypeOK /\ FlightInv /\ LossInv /\ [Next]_vars => LossInv'
  BY LossStep
<1>3. QED
  BY <1>1, <1>2, TypeCorrect, FlightHolds, PTL DEF Spec

(* Whatever lines are lost and whatever frames are corrupted, as long as    *)
(* they are fewer than the retries of send_file and replies are prompt: the *)
(* transfer is neither aborted nor refused.  Only META, READY, DONE and OK, *)
(* which are sent once, can still end it, by a deadline.                    *)
THEOREM LossesAreRecovered == Spec => []LossIsRecovered
<1>1. LossInv => LossIsRecovered
  BY DEF LossInv, OnCourse, NotYetReported, LossIsRecovered
<1>2. QED
  BY <1>1, LossHolds, PTL

=============================================================================
