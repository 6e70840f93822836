------------------------------ MODULE Transfer ------------------------------
(***************************************************************************)
(* The flow-controlled transfer of one file: PcutpServer.send_file with    *)
(* _send_window, _probe_receiver and _recover_window on the sending side,  *)
(* PcutpClient._receive on the receiving side, and the serial line between *)
(* them as two FIFO channels that can lose or damage what reaches their    *)
(* far end.                                                                *)
(*                                                                         *)
(* The sender is one thread: it runs until it blocks in recv_line, so an   *)
(* action is what happens from one return of recv_line to the next call.   *)
(* `phase` names the call it is blocked in.  The receiver handles one line *)
(* (and the payload behind it) per action.                                 *)
(*                                                                         *)
(* A block is its sequence number.  A DATA or ZDATA frame whose payload    *)
(* fails its CRC or its decompression is "BAD"; one that lost payload      *)
(* bytes is "SHORT"; a line whose text was damaged is "JUNK".              *)
(***************************************************************************)
EXTENDS Naturals, Sequences

CONSTANTS
  Blocks,        \* blocks of the file, META's fourth field
  WindowSize,    \* the negotiated WINDOW
  FlowGrowAcks,  \* acknowledgements before the window opens: FLOW_GROW_ACKS
  MaxRetries,    \* MAX_RETRIES
  MaxDrops,      \* MAX_DROPS
  MaxResets,     \* MAX_RESETS
  ProbeRetries,  \* PROBE_RETRIES
  RstRetries,    \* RST_RETRIES
  Settings       \* what a transfer may meet, as records of Setting

AllFaults == {"lose", "corrupt", "shorten", "garble", "duplicate", "storage", "crash"}

(* The faults that can happen, a bound on how many do, and whether every    *)
(* reply that will come beats its deadline.                                 *)
Setting == [kinds : SUBSET AllFaults, budget : Nat, prompt : BOOLEAN]

ASSUME TransferAssumption ==
  /\ Blocks \in Nat \ {0}
  /\ WindowSize \in Nat \ {0}
  /\ FlowGrowAcks \in Nat \ {0}
  /\ MaxRetries \in Nat
  /\ MaxDrops \in Nat \ {0} /\ WindowSize <= MaxDrops
  /\ MaxResets \in Nat
  /\ ProbeRetries \in Nat \ {0}
  /\ RstRetries \in Nat \ {0}
  /\ Settings \subseteq Setting

VARIABLES
  \* The sender.
  phase,       \* the recv_line call it is blocked in, or "end"
  result,      \* how send_file ended, "none" before
  tries,       \* sends so far in the probe, reset or barrier loop
  token,       \* _barrier_id
  resetToken,  \* _reset_token
  base,        \* first block not acknowledged
  nextSeq,     \* next block to send
  cwnd,        \* blocks allowed in flight
  cleanAcks,   \* acknowledgements since the last trouble, up to FlowGrowAcks
  attempts,    \* sends of each block not yet acknowledged
  recoveries,  \* recoveries in a row without progress
  resets,      \* full-file resets
  \* The receiver.
  rPhase,      \* what the client is doing with this file
  expected,    \* next block it will write
  part,        \* the blocks in the .PART file, which the running CRC covers
  drops,       \* out-of-order blocks since the last write
  rResets,     \* resets it asked for
  metaOk,      \* META arrived with the file's real size and CRC
  \* The line.
  toReceiver, toSender,
  setting,     \* chosen at the start
  faults       \* faults so far

askVars      == <<tries, token, resetToken>>
windowVars   == <<base, nextSeq, cwnd, cleanAcks, attempts, recoveries, resets>>
senderVars   == <<phase, result, askVars, windowVars>>
receiverVars == <<rPhase, expected, part, drops, rResets, metaOk>>
vars         == <<senderVars, receiverVars, toReceiver, toSender, setting, faults>>

Seqs     == 0 .. Blocks - 1
NoTries  == [k \in Seqs |-> 0]
WholeFile == [i \in 1 .. Blocks |-> i - 1]
Phases   == {"ready", "ack", "guard", "reguard", "probe", "reset",
             "resume", "restart", "done", "end"}
Results  == {"none", "declined", "verified", "mismatch", "timeout", "retry",
             "protocol", "stalled", "lost"}
RPhases  == {"meta", "data", "install", "installed", "kept", "raised"}

Minimum(a, b) == IF a < b THEN a ELSE b

-----------------------------------------------------------------------------
(* Lines.  Every line has a token and a sequence field; a line that has no *)
(* such field carries 0 there.                                             *)

Frames       == {"DATA", "BAD", "SHORT"}
SenderKinds  == Frames \cup {"META", "METABAD", "AYT", "RST", "BARRIER", "DONE",
                             "DONEBAD", "ERR", "JUNK"}
ReceiverKinds == {"READY", "ACK", "NAK", "DROP", "RST", "HERE", "RESUME",
                  "RSTACK", "OK", "FAIL", "ERR", "JUNK"}

Line(kind, tok, seq) == [kind |-> kind, tok |-> tok, seq |-> seq]
Word(kind)           == Line(kind, 0, 0)
Ask(kind, tok)       == Line(kind, tok, 0)
About(kind, seq)     == Line(kind, 0, seq)

ToReceiverLine == [kind : SenderKinds, tok : Nat, seq : Seqs]
ToSenderLine   == [kind : ReceiverKinds, tok : Nat, seq : Nat]

Reply == Head(toSender)
Input == Head(toReceiver)

ShortFramePending == \E i \in 1 .. Len(toReceiver) : toReceiver[i].kind = "SHORT"

Reading == rPhase \in {"meta", "data"}

(* A deadline passes with no reply to read.  When the receiver is prompt it *)
(* has also consumed everything it was sent, unless it is inside a raw read *)
(* that waits for missing bytes: DATA_TIMEOUT equals ACK_TIMEOUT, so those  *)
(* two expire in either order.                                             *)
DeadlinePassed ==
  /\ toSender = <<>>
  /\ setting.prompt => \/ ~Reading
                       \/ toReceiver = <<>>
                       \/ ShortFramePending /\ Len(toReceiver) = 1

(* Whether a reply that is read comes after its deadline. *)
Lateness == IF setting.prompt THEN {FALSE} ELSE BOOLEAN

-----------------------------------------------------------------------------
(* The sender.  Fail is _fail plus the raise that ends send_file.          *)

Send(line) == toReceiver' = Append(toReceiver, line)

Abort(why, confirmed) ==
  /\ phase' = "end" /\ result' = why
  /\ resetToken' = confirmed
  /\ Send(Word("ERR"))
  /\ UNCHANGED <<tries, token, windowVars>>

Fail(why) == Abort(why, resetToken)

(* The reply is dropped and the same wait goes on. *)
KeepWaiting == UNCHANGED <<phase, result, askVars, windowVars, toReceiver>>

(* Where one pass of the filling loop stops: at the window's edge, or at   *)
(* the first block that was already sent MaxRetries + 1 times.             *)
FirstExhausted(n, edge) ==
  {k \in n .. edge - 1 : /\ attempts[k] > MaxRetries
                         /\ \A j \in n .. k - 1 : attempts[j] <= MaxRetries}
FillEnd(n, edge) ==
  IF FirstExhausted(n, edge) = {} THEN edge ELSE CHOOSE k \in FirstExhausted(n, edge) : TRUE

Flight(n, end) == [i \in 1 .. end - n |-> About("DATA", n + i - 1)]

Counted(b, n, end) ==
  [k \in Seqs |-> IF k < b THEN 0
                  ELSE IF k \in n .. end - 1 THEN attempts[k] + 1 ELSE attempts[k]]

AllSent(b)  == b + 1 >= Blocks   \* mutant of AllAcked: off by one
AllAcked(b) == b >= Blocks

(* The outer loop of _send_window from a window that starts at b, with n   *)
(* the next block to send and w the blocks allowed in flight.              *)
Fill(b, n, w) ==
  LET edge == Minimum(Blocks, b + w)
      end  == IF n < edge THEN FillEnd(n, edge) ELSE n
  IN  /\ base' = b /\ nextSeq' = end /\ cwnd' = w
      /\ attempts' = Counted(b, n, end)
      /\ \/ /\ AllAcked(b)
            /\ phase' = "done"
            /\ Send(Word("DONE"))
            /\ UNCHANGED result
         \/ /\ ~AllAcked(b) /\ end < edge
            /\ phase' = "end" /\ result' = "retry"
            /\ toReceiver' = toReceiver \o Flight(n, end) \o <<Word("ERR")>>
         \/ /\ ~AllAcked(b) /\ end >= edge
            /\ phase' = "ack"
            /\ toReceiver' = toReceiver \o Flight(n, end)
            /\ UNCHANGED result

(* _recover_window sends its first BARRIER; `after` is the wait it enters. *)
StartBarrier(after, confirmed) ==
  /\ phase' = after
  /\ token' = token + 1 /\ tries' = 1 /\ resetToken' = confirmed
  /\ Send(Ask("BARRIER", token + 1))
  /\ UNCHANGED <<result, base, nextSeq, attempts, recoveries>>

(* An acknowledgement commits every block up to its own. *)
Acknowledge(ack) ==
  /\ cleanAcks' = Minimum(cleanAcks + 1, FlowGrowAcks)
  /\ recoveries' = 0
  /\ Fill(ack + 1, nextSeq, IF cleanAcks + 1 >= FlowGrowAcks THEN WindowSize ELSE cwnd)
  /\ UNCHANGED <<askVars, resets>>

OneMoreReset    == resets > MaxResets   \* mutant of ResetsExhausted
ResetsExhausted == resets + 1 > MaxResets

KeptPosition == "resume"   \* mutant of FromTheStart: base survives the reset
FromTheStart == "restart"

(* "RST 0" from the receiver, or from _probe_receiver once it is confirmed. *)
RestartFile(confirmed) ==
  IF ResetsExhausted
  THEN Abort("retry", confirmed)
  ELSE /\ resets' = resets + 1
       /\ StartBarrier(FromTheStart, confirmed)
       /\ UNCHANGED <<cwnd, cleanAcks>>

KeptWindow      == cwnd   \* mutant of WindowAfterLoss
WindowAfterLoss == 1

(* Mutant of RecoverFlight: retransmits over what the line still holds. *)
RecoverWithoutBarrier ==
  /\ cleanAcks' = 0
  /\ Fill(base, base, 1)
  /\ UNCHANGED <<askVars, recoveries, resets>>

RecoverFlight ==
  /\ cwnd' = WindowAfterLoss /\ cleanAcks' = 0
  /\ StartBarrier("resume", resetToken)
  /\ UNCHANGED resets

OldResume(m) == m.kind = "RESUME" /\ m.tok \in 1 .. token

(* The reply's branches in _send_window, HERE excepted. *)
Interpret(m, late) ==
  \/ m.kind = "ACK" /\ m.seq >= nextSeq /\ Fail("protocol")
  \/ m.kind = "ACK" /\ m.seq < base /\ (IF late THEN Fail("stalled") ELSE KeepWaiting)
  \/ m.kind = "ACK" /\ m.seq \in base .. nextSeq - 1 /\ Acknowledge(m.seq)
  \/ m.kind = "RST" /\ RestartFile(resetToken)
  \/ m.kind \in {"NAK", "DROP"} /\ RecoverFlight
  \/ OldResume(m) /\ ~late /\ KeepWaiting
  \/ /\ m.kind \notin {"ACK", "RST", "NAK", "DROP"}
     /\ OldResume(m) => late
     /\ Fail("protocol")

(* _probe_receiver starts with the guard wait. *)
EnterGuard(wait) ==
  /\ phase' = wait
  /\ UNCHANGED <<result, askVars, base, nextSeq, attempts, recoveries, resets, toReceiver>>

(* recv_line returns a reply, or raises TimeoutError_. *)
OfSender  == UNCHANGED <<receiverVars, setting, faults>>
TakeReply == toSender # <<>> /\ toSender' = Tail(toSender) /\ OfSender
NoReply   == DeadlinePassed /\ UNCHANGED toSender /\ OfSender

-----------------------------------------------------------------------------
(* Waiting for READY after META. *)
RecvReady ==
  /\ phase = "ready" /\ TakeReply
  /\ \/ /\ Reply.kind = "READY"
        /\ Fill(0, 0, 1)
        /\ UNCHANGED <<askVars, cleanAcks, recoveries, resets>>
     \/ /\ Reply.kind # "READY"
        /\ phase' = "end" /\ result' = "declined"
        /\ UNCHANGED <<askVars, windowVars, toReceiver>>

OnlyForReady   == {"ready"}   \* mutant of DeadlineWaits
DeadlineWaits  == {"ready", "done"}

(* A TimeoutError_ out of send_file itself: nothing is sent. *)
GiveUp ==
  /\ phase \in DeadlineWaits /\ NoReply
  /\ phase' = "end" /\ result' = "timeout"
  /\ UNCHANGED <<askVars, windowVars, toReceiver>>

(* The inner loop of _send_window. *)
RecvWindowReply ==
  /\ phase = "ack" /\ TakeReply
  /\ \E late \in Lateness :
       \/ Reply.kind = "HERE" /\ ~late /\ KeepWaiting
       \/ Reply.kind = "HERE" /\ late /\ EnterGuard("reguard") /\ UNCHANGED <<cwnd, cleanAcks>>
       \/ Reply.kind # "HERE" /\ Interpret(Reply, late)

AckTimeout ==
  /\ phase = "ack" /\ NoReply
  /\ EnterGuard("guard")
  /\ cwnd' = 1 /\ cleanAcks' = 0

(* A late line inside the guard goes back to _send_window, which probes    *)
(* once more for a HERE but does not expect the second probe to return one. *)
RecvInGuard ==
  /\ phase \in {"guard", "reguard"} /\ TakeReply
  /\ \/ /\ phase = "guard" /\ Reply.kind = "HERE"
        /\ EnterGuard("reguard")
        /\ UNCHANGED <<cwnd, cleanAcks>>
     \/ /\ phase = "reguard" \/ Reply.kind # "HERE"
        /\ Interpret(Reply, TRUE)

RawReadOver == ~(Reading /\ ShortFramePending)

(* The guard outlasts the receiver's raw read: ACK_TIMEOUT + PROBE_GUARD   *)
(* exceeds DATA_TIMEOUT, so no short frame is still waiting for bytes.     *)
GuardTimeout ==
  /\ phase \in {"guard", "reguard"} /\ NoReply /\ RawReadOver
  /\ phase' = "probe" /\ tries' = 1 /\ token' = token + 1
  /\ Send(Ask("AYT", token + 1))
  /\ UNCHANGED <<result, resetToken, windowVars>>

RecvProbeReply ==
  /\ phase = "probe" /\ TakeReply
  /\ \/ Reply.kind = "HERE" /\ Reply.tok = token /\ RecoverFlight
     \/ Reply.kind \in {"ACK", "NAK", "DROP", "RST", "ERR"} /\ Interpret(Reply, TRUE)
     \/ /\ Reply.kind \notin {"ACK", "NAK", "DROP", "RST", "ERR"}
        /\ Reply.kind = "HERE" => Reply.tok # token
        /\ KeepWaiting

ProbeTimeout ==
  /\ phase = "probe" /\ NoReply
  /\ token' = token + 1
  /\ \/ /\ tries < ProbeRetries
        /\ tries' = tries + 1
        /\ Send(Ask("AYT", token + 1))
        /\ UNCHANGED phase
     \/ /\ tries >= ProbeRetries
        /\ phase' = "reset" /\ tries' = 1
        /\ Send(Ask("RST", token + 1))
  /\ UNCHANGED <<result, resetToken, windowVars>>

(* The reset is confirmed and "RST 0" goes back to _send_window. *)
ConfirmReset ==
  /\ phase = "reset" /\ TakeReply
  /\ Reply.kind = "RSTACK" /\ Reply.tok = token
  /\ RestartFile(token)

RecvOtherResetReply ==
  /\ phase = "reset" /\ TakeReply
  /\ Reply.kind = "RSTACK" => Reply.tok # token
  /\ IF Reply.kind \in {"ACK", "NAK", "DROP", "HERE", "RESUME"}
     THEN KeepWaiting
     ELSE Fail("protocol")

ResetTimeout ==
  /\ phase = "reset" /\ NoReply
  /\ \/ /\ tries < RstRetries
        /\ tries' = tries + 1
        /\ Send(Ask("RST", token))
        /\ UNCHANGED <<phase, result, token, resetToken, windowVars>>
     \/ tries >= RstRetries /\ Fail("lost")

(* RESUME for the current barrier, after NAK, DROP or a probe. *)
ResumeFlight ==
  /\ phase = "resume" /\ TakeReply
  /\ Reply.kind = "RESUME" /\ Reply.tok = token
  /\ LET n == Reply.seq
         stuck == IF n > base THEN 0 ELSE recoveries + 1
     IN  \/ n \notin base .. nextSeq /\ Fail("protocol")
         \/ n \in base .. nextSeq /\ stuck > MaxRetries /\ Fail("retry")
         \/ /\ n \in base .. nextSeq /\ stuck <= MaxRetries
            /\ recoveries' = stuck
            /\ Fill(n, n, cwnd)
            /\ UNCHANGED <<askVars, cleanAcks, resets>>

(* RESUME for the current barrier after a reset must name block 0. *)
ResumeFromZero ==
  /\ phase = "restart" /\ TakeReply
  /\ Reply.kind = "RESUME" /\ Reply.tok = token
  /\ IF Reply.seq # 0
     THEN Fail("protocol")
     ELSE /\ phase' = "ack"
          /\ base' = 0 /\ nextSeq' = 1 /\ cwnd' = 1 /\ cleanAcks' = 0
          /\ attempts' = [NoTries EXCEPT ![0] = 1]
          /\ recoveries' = 0
          /\ Send(About("DATA", 0))
          /\ UNCHANGED <<result, askVars, resets>>

(* Mutant of OldAnswer: a DROP of the old flight is unexpected. *)
OldAnswerNoDrop(m) ==
  m.kind \in {"ACK", "NAK", "RESUME", "HERE"} \/ (m.kind = "RSTACK" /\ m.tok = resetToken)

(* What the old flight, an old question or a repeated reset leaves behind. *)
OldAnswer(m) ==
  \/ m.kind \in {"ACK", "NAK", "DROP", "RESUME", "HERE"}
  \/ m.kind = "RSTACK" /\ m.tok = resetToken

RecvOtherBarrierReply ==
  /\ phase \in {"resume", "restart"} /\ TakeReply
  /\ Reply.kind = "RESUME" => Reply.tok # token
  /\ IF OldAnswer(Reply) THEN KeepWaiting ELSE Fail("protocol")

BarrierTimeout ==
  /\ phase \in {"resume", "restart"} /\ NoReply
  /\ \/ /\ tries <= MaxRetries
        /\ tries' = tries + 1
        /\ Send(Ask("BARRIER", token))
        /\ UNCHANGED <<phase, result, token, resetToken, windowVars>>
     \/ tries > MaxRetries /\ Fail("stalled")

(* The reply to DONE.  Delayed ACK and RESUME are skipped until the        *)
(* deadline; whatever else comes first is the verdict.                     *)
RecvFinal ==
  /\ phase = "done" /\ TakeReply
  /\ LET delayed == (Reply.kind = "ACK" /\ Reply.seq < Blocks) \/ OldResume(Reply)
     IN  \/ delayed /\ FALSE \in Lateness /\ KeepWaiting
         \/ /\ phase' = "end"
            /\ \/ delayed /\ TRUE \in Lateness /\ result' = "timeout"
               \/ ~delayed /\ Reply.kind = "OK" /\ result' = "verified"
               \/ ~delayed /\ Reply.kind # "OK" /\ result' = "mismatch"
            /\ UNCHANGED <<askVars, windowVars, toReceiver>>

SenderStep ==
  \/ RecvReady \/ GiveUp \/ RecvWindowReply \/ AckTimeout
  \/ RecvInGuard \/ GuardTimeout
  \/ RecvProbeReply \/ ProbeTimeout
  \/ ConfirmReset \/ RecvOtherResetReply \/ ResetTimeout
  \/ ResumeFlight \/ ResumeFromZero \/ RecvOtherBarrierReply \/ BarrierTimeout
  \/ RecvFinal

-----------------------------------------------------------------------------
(* The receiver. *)

OfReceiver == UNCHANGED <<senderVars, setting, faults>>
TakeInput  == toReceiver # <<>> /\ toReceiver' = Tail(toReceiver)
Read(kinds) == rPhase = "data" /\ TakeInput /\ Input.kind \in kinds /\ OfReceiver
Answer(line) == toSender' = Append(toSender, line)

Raise ==
  /\ rPhase' = "raised"
  /\ UNCHANGED <<expected, part, drops, rResets, metaOk>>

(* Mutant of StartOver: seek without truncate. *)
StartOverInPlace == expected' = 0 /\ drops' = 0 /\ UNCHANGED part

(* The partial file is truncated and the transfer starts over. *)
StartOver == expected' = 0 /\ part' = <<>> /\ drops' = 0

RecvMeta ==
  /\ rPhase = "meta" /\ TakeInput /\ OfReceiver
  /\ \/ /\ Input.kind \in {"META", "METABAD"}
        /\ rPhase' = "data" /\ metaOk' = (Input.kind = "META")
        /\ Answer(Word("READY"))
        /\ UNCHANGED <<expected, part, drops, rResets>>
     \/ /\ Input.kind \notin {"META", "METABAD"}
        /\ Raise
        /\ Answer(Word("ERR")) \/ UNCHANGED toSender

(* What is only answered: a duplicate block, a frame whose payload fails   *)
(* decompression or its CRC, and the two questions about the position.     *)
RecvAnswered ==
  /\ Read({"DATA", "BAD", "AYT", "BARRIER"})
  /\ \/ Input.kind = "DATA" /\ Input.seq < expected /\ Answer(About("ACK", expected - 1))
     \/ Input.kind = "BAD" /\ Answer(About("NAK", expected))
     \/ Input.kind = "AYT" /\ Answer(Line("HERE", Input.tok, expected))
     \/ Input.kind = "BARRIER" /\ Answer(Line("RESUME", Input.tok, expected))
  /\ UNCHANGED receiverVars

(* A gap asks for a recovery or, after MaxDrops of them, for a reset.      *)
RecvGap ==
  /\ Read({"DATA"}) /\ Input.seq > expected
  /\ \/ /\ drops + 1 < MaxDrops
        /\ drops' = drops + 1
        /\ Answer(About("DROP", expected))
        /\ UNCHANGED <<rPhase, expected, part, rResets, metaOk>>
     \/ /\ drops + 1 >= MaxDrops /\ rResets + 1 <= MaxResets
        /\ rResets' = rResets + 1
        /\ StartOver
        /\ Answer(Word("RST"))
        /\ UNCHANGED <<rPhase, metaOk>>
     \/ /\ drops + 1 >= MaxDrops /\ rResets + 1 > MaxResets
        /\ Raise
        /\ Answer(Word("ERR"))

RecvBlock ==
  /\ Read({"DATA"}) /\ Input.seq = expected
  /\ expected' = expected + 1 /\ part' = Append(part, expected) /\ drops' = 0
  /\ Answer(About("ACK", expected))
  /\ UNCHANGED <<rPhase, rResets, metaOk>>

(* A raw read that lacks bytes either expires and throws away its input,   *)
(* or takes what it lacks from the next line or frame: all of it, or a     *)
(* part, so that the rest is read as a line that means nothing.            *)
RecvShortFrame ==
  /\ rPhase = "data" /\ toReceiver # <<>> /\ Input.kind = "SHORT"
  /\ \/ /\ Len(toReceiver) = 1
        /\ toReceiver' = <<>> /\ Answer(About("DROP", expected))
     \/ /\ Len(toReceiver) > 1
        /\ \/ /\ toReceiver' = <<Input>> \o Tail(Tail(toReceiver))
              /\ UNCHANGED toSender
           \/ /\ toReceiver' = <<Word("JUNK")>> \o Tail(Tail(toReceiver))
              /\ Answer(About("NAK", expected))
  /\ UNCHANGED receiverVars /\ OfReceiver

RecvReset ==
  /\ Read({"RST"})
  /\ StartOver /\ rResets' = 0
  /\ Answer(Ask("RSTACK", Input.tok))
  /\ UNCHANGED <<rPhase, metaOk>>

(* Mutant of FileVerified: META's own checksum is not compared. *)
TrustsDone(m) == m.kind = "DONE" /\ part = WholeFile

(* The running CRC against DONE's and META's, and the size against META's. *)
FileVerified(m) == m.kind = "DONE" /\ metaOk /\ part = WholeFile

(* DONE with every block here: OK is sent first, the file is renamed next. *)
RecvDone ==
  /\ Read({"DONE", "DONEBAD"})
  /\ \/ expected # Blocks /\ Raise /\ UNCHANGED toSender
     \/ /\ expected = Blocks
        /\ IF FileVerified(Input)
           THEN rPhase' = "install" /\ Answer(Word("OK"))
           ELSE rPhase' = "kept" /\ Answer(Word("FAIL"))
        /\ UNCHANGED <<expected, part, drops, rResets, metaOk>>

Install ==
  /\ rPhase = "install"
  /\ rPhase' = "installed"
  /\ UNCHANGED <<expected, part, drops, rResets, metaOk, toReceiver, toSender>>
  /\ OfReceiver

(* ERR from the sender, or a line that is none of the above. *)
RecvUnexpected ==
  /\ Read({"ERR", "JUNK", "META", "METABAD"})
  /\ Raise
  /\ \/ UNCHANGED toSender
     \/ Input.kind = "JUNK" /\ Answer(Word("ERR"))

(* RECOVERY_TIMEOUT passes with nothing to read.  When replies are prompt it *)
(* outlasts the silence a few lost lines make (12 + 1 s to the first AYT?,  *)
(* 12 s for each lost BARRIER), so only a sender that ended is silent.      *)
RecvTimeout ==
  /\ Reading /\ toReceiver = <<>>
  /\ setting.prompt => phase = "end"
  /\ Raise
  /\ UNCHANGED <<toReceiver, toSender>>
  /\ OfReceiver

ReceiverStep ==
  \/ RecvMeta \/ RecvAnswered \/ RecvGap \/ RecvBlock \/ RecvShortFrame
  \/ RecvReset \/ RecvDone \/ Install
  \/ RecvUnexpected \/ RecvTimeout

-----------------------------------------------------------------------------
(* The line and the machine the receiver runs on.  A fault meets a line as *)
(* it reaches its reader, which is when losing or damaging it matters.     *)

Fault(kind) ==
  /\ kind \in setting.kinds /\ faults < setting.budget
  /\ faults' = faults + 1 /\ UNCHANGED setting
LineOnly    == UNCHANGED <<senderVars, receiverVars>>

LoseLine ==
  /\ Fault("lose") /\ LineOnly
  /\ \/ /\ toReceiver # <<>> /\ toReceiver' = Tail(toReceiver)
        /\ UNCHANGED toSender
     \/ /\ toSender # <<>> /\ toSender' = Tail(toSender)
        /\ UNCHANGED toReceiver

DuplicateLine ==
  /\ Fault("duplicate") /\ LineOnly
  /\ \/ /\ toReceiver # <<>> /\ toReceiver' = <<Input>> \o toReceiver
        /\ UNCHANGED toSender
     \/ /\ toSender # <<>> /\ toSender' = <<Reply>> \o toSender
        /\ UNCHANGED toReceiver

(* Damage to a payload, or bytes of it lost.  Bytes are lost on the way, so *)
(* not in a frame that has waited long enough for an AYT? to follow it.     *)
DamageFrame ==
  /\ LineOnly /\ toReceiver # <<>> /\ Input.kind = "DATA"
  /\ \/ /\ Fault("corrupt")
        /\ toReceiver' = <<About("BAD", Input.seq)>> \o Tail(toReceiver)
     \/ /\ Fault("shorten")
        /\ \A i \in 1 .. Len(toReceiver) : toReceiver[i].kind # "AYT"
        /\ toReceiver' = <<About("SHORT", Input.seq)>> \o Tail(toReceiver)
  /\ UNCHANGED toSender

(* META and DONE have no checksum of their own: damage to a field of theirs *)
(* leaves a line that parses.                                               *)
GarbleLine ==
  /\ Fault("garble") /\ LineOnly
  /\ \/ /\ toReceiver # <<>>
        /\ \E line \in {Word("JUNK")}
                        \cup (IF Input.kind = "META" THEN {Word("METABAD")} ELSE {})
                        \cup (IF Input.kind = "DONE" THEN {Word("DONEBAD")} ELSE {}) :
             toReceiver' = <<line>> \o Tail(toReceiver)
        /\ UNCHANGED toSender
     \/ /\ toSender # <<>>
        /\ toSender' = <<Word("JUNK")>> \o Tail(toSender)
        /\ UNCHANGED toReceiver

(* The disk is full or fails: before READY, at a write, or at the rename. *)
StorageFails ==
  /\ Fault("storage")
  /\ \/ /\ rPhase = "meta" /\ TakeInput /\ Input.kind \in {"META", "METABAD"}
        /\ Raise /\ Answer(Word("ERR"))
     \/ /\ rPhase = "data" /\ TakeInput /\ Input.kind = "DATA" /\ Input.seq = expected
        /\ Raise /\ Answer(Word("ERR"))
     \/ /\ rPhase = "install"
        /\ Raise /\ UNCHANGED <<toReceiver, toSender>>
  /\ UNCHANGED senderVars

ReceiverCrash ==
  /\ Fault("crash")
  /\ rPhase \in {"meta", "data", "install"}
  /\ Raise
  /\ UNCHANGED <<senderVars, toReceiver, toSender>>

FaultStep ==
  LoseLine \/ DuplicateLine \/ DamageFrame \/ GarbleLine \/ StorageFails \/ ReceiverCrash

-----------------------------------------------------------------------------
Init ==
  /\ phase = "ready" /\ result = "none"
  /\ tries = 0 /\ token = 0 /\ resetToken = 0
  /\ base = 0 /\ nextSeq = 0 /\ cwnd = 1 /\ cleanAcks = 0
  /\ attempts = NoTries /\ recoveries = 0 /\ resets = 0
  /\ rPhase = "meta" /\ expected = 0 /\ part = <<>> /\ drops = 0 /\ rResets = 0 /\ metaOk = FALSE
  /\ toReceiver = <<Word("META")>> /\ toSender = <<>>
  /\ setting \in Settings /\ faults = 0

SenderEnded   == phase = "end"
ReceiverEnded == rPhase \in {"installed", "kept", "raised"}

Next == SenderStep \/ ReceiverStep \/ FaultStep

Spec == Init /\ [][Next]_vars

(* Both programs keep running: neither waits without a deadline. *)
FairSpec == Spec /\ WF_vars(SenderStep) /\ WF_vars(ReceiverStep)

-----------------------------------------------------------------------------
(* Properties. *)

(* Every variable has its type; the counters stay within the retry limits. *)
SenderTypeOK ==
  /\ phase \in Phases /\ result \in Results
  /\ tries \in Nat /\ token \in Nat /\ resetToken \in Nat
  /\ base \in 0 .. Blocks /\ nextSeq \in 0 .. Blocks
  /\ cwnd \in Nat \ {0} /\ cleanAcks \in 0 .. FlowGrowAcks
  /\ attempts \in [Seqs -> Nat]
  /\ recoveries \in 0 .. MaxRetries /\ resets \in 0 .. MaxResets
ReceiverTypeOK ==
  /\ rPhase \in RPhases /\ expected \in 0 .. Blocks
  /\ part \in Seq(Seqs) /\ drops \in Nat /\ rResets \in Nat /\ metaOk \in BOOLEAN
ToReceiverOK == toReceiver \in Seq(ToReceiverLine)
ToSenderOK   == toSender \in Seq(ToSenderLine)
TypeOK ==
  /\ SenderTypeOK /\ ReceiverTypeOK /\ ToReceiverOK /\ ToSenderOK
  /\ setting \in Settings /\ faults \in Nat

UnreadFrames == {i \in 1 .. Len(toReceiver) : toReceiver[i].kind \in Frames}

Repeats == "duplicate" \in setting.kinds

(* The frames the receiver has not read are blocks of the current flight, in *)
(* ascending order: no recovery, probe or reset starts a flight over the    *)
(* remains of an old one, so the receive buffer holds one window at most,   *)
(* unless the line itself repeats frames.                                   *)
OneFlight ==
  ~Repeats =>
    /\ \A i \in UnreadFrames : toReceiver[i].seq \in base .. nextSeq - 1
    /\ \A i, j \in UnreadFrames : i < j => toReceiver[i].seq < toReceiver[j].seq
    /\ nextSeq <= base + WindowSize

ResetInProgress ==
  \/ phase \in {"reset", "restart"}
  \/ \E i \in 1 .. Len(toSender) : toSender[i].kind = "RST"

(* What the sender counts as acknowledged the receiver has committed, unless *)
(* a reset is under way or the line repeats frames: repeats make gaps, gaps  *)
(* a reset by the receiver, and the one line that says so can be lost.       *)
AckedIsCommitted == ~Repeats /\ ~ResetInProgress /\ ~SenderEnded => base <= expected

(* The sender asks for the final verdict only of a receiver that has every  *)
(* block.                                                                   *)
DoneMeansComplete ==
  \A i \in 1 .. Len(toReceiver) :
    toReceiver[i].kind \in {"DONE", "DONEBAD"} /\ Reading => expected = Blocks

(* The sender reports a verified file only if the receiver verified it.    *)
VerifiedMeansReceived == result = "verified" => metaOk /\ part = WholeFile

(* Losing or corrupting as many lines and frames as there are retries costs *)
(* time, never the file, when replies are prompt: only META, READY, DONE and *)
(* OK, which nobody sends twice, can end it.  A reset costs ProbeRetries + 1 *)
(* losses, so the last conjunct says that the resets are not used up: it     *)
(* follows from the second with the constants of server.py.                  *)
Recoverable ==
  /\ setting.prompt /\ setting.kinds \subseteq {"lose", "corrupt"}
  /\ setting.budget <= MaxRetries /\ setting.budget <= ProbeRetries + RstRetries
  /\ setting.budget < (MaxResets + 1) * (ProbeRetries + 1)
LossIsRecovered == Recoverable => result \in {"none", "verified", "timeout"}

(* A sender that reports a failed verification is not contradicted by a     *)
(* receiver that accepted and installed the file.                           *)
RefusedMeansNotInstalled ==
  result = "mismatch" => rPhase \notin {"install", "installed"}

(* On a line that repeats nothing the receiver reads no block twice and sees *)
(* fewer gaps before its next write than the window has blocks, which are    *)
(* not enough to make it ask for a reset.                                    *)
NoResetWithoutRepetition ==
  ~Repeats =>
    /\ drops < WindowSize
    /\ \A i \in UnreadFrames : Reading => toReceiver[i].seq >= expected

(* The transfer ends on both sides. *)
Termination == <>(SenderEnded /\ ReceiverEnded)

(* The transfer, seen as a FileDelivery. *)
Holder ==
  IF Reading THEN "writing"
  ELSE IF rPhase = "install" THEN "verified"
  ELSE IF rPhase = "installed" THEN "installed" ELSE "stopped"
Outcome == IF result \in {"none", "verified"} THEN result ELSE "failed"

Delivery == INSTANCE FileDelivery WITH copy <- part, holder <- Holder, report <- Outcome

(* Every behaviour of send_file and _receive over this line is a delivery:  *)
(* whatever recovery, probe or reset does, .PART only grows by the next     *)
(* block or starts again from nothing, and verdict, rename and report come  *)
(* in that order and only for the whole file.                               *)
DeliversFile == Delivery!Spec

=============================================================================
