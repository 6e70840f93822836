---------------------------- MODULE StopAndWait -----------------------------
(***************************************************************************)
(* The transfer of one file without FLOW: PcutpServer.send_file with       *)
(* _send_block on the sending side, PcutpClient._receive on the receiving  *)
(* side, and what the receiver leaves on its disk: the .PART file and its  *)
(* .PCUTP checkpoint, also when it is killed at any point or the disk      *)
(* fails.  A file may be asked for again: the next GET, which the greeting *)
(* of a new session precedes, finds the disk as the last one left it.      *)
(*                                                                         *)
(* Lines and frames are those of Transfer: a block is its sequence number, *)
(* a frame whose payload fails its CRC is "BAD", one that lost payload     *)
(* bytes is "SHORT", a line that means nothing is "JUNK"; META or DONE with *)
(* another size or CRC is "METABAD" or "DONEBAD".                          *)
(***************************************************************************)
EXTENDS Naturals, Sequences

CONSTANTS
  Blocks,           \* blocks of the file
  MaxRetries,       \* max_retries
  MaxTimeouts,      \* MAX_TIMEOUTS
  CheckpointEvery,  \* blocks between two checkpoints
  MaxGets,          \* bound: how often the file is asked for
  Settings          \* what a behaviour may meet, as records of Setting

AllFaults == {"lose", "corrupt", "shorten", "garble", "storage", "crash"}

(* The faults that can happen, a bound on how many do, and whether every    *)
(* reply that will come beats its deadline; then also how many lines can be *)
(* lost in a row, with nothing heard by the receiver in between.            *)
Setting == [kinds : SUBSET AllFaults, budget : Nat, prompt : BOOLEAN, inARow : Nat]

ASSUME StopAndWaitAssumption ==
  /\ Blocks \in Nat \ {0} /\ MaxRetries \in Nat
  /\ MaxTimeouts \in Nat \ {0} /\ CheckpointEvery \in Nat \ {0}
  /\ MaxGets \in Nat /\ Settings \subseteq Setting

VARIABLES
  \* The sender.
  phase,      \* the recv_line call it is blocked in, or "end"
  result,     \* how send_file ended, "none" before
  seq,        \* the block being sent
  attempt,    \* earlier sends of that block
  timeouts,   \* how many of them nobody answered
  \* The receiver.
  rPhase,     \* where it is in _receive
  expected,   \* next block it will write
  metaOk,     \* META arrived with the file's real size and CRC
  silence,    \* deadlines of the sender since its recv_line was entered
  \* Its disk.
  part,       \* the blocks handed to .PART, as <<GET, number>>
  partThere,  \* .PART exists
  checkpoint, \* next_seq in .PCUTP, or NoCheckpoint
  \* The line.
  toReceiver, toSender,
  gets,       \* GETs so far
  setting, faults

senderVars   == <<phase, result, seq, attempt, timeouts>>
disk         == <<part, partThere, checkpoint>>
receiverVars == <<rPhase, expected, metaOk, disk>>
world        == <<gets, setting>>
vars         == <<senderVars, receiverVars, silence, toReceiver, toSender, world, faults>>

NoCheckpoint == Blocks + 1

Seqs    == 0 .. Blocks - 1
Phases  == {"ready", "ack", "done", "end"}
Results == {"none", "declined", "verified", "mismatch", "timeout", "unanswered",
            "retry", "protocol"}
Unopened == {"meta", "opening", "open", "refused"}   \* .PART is not open yet
RPhases  == Unopened \cup {"data", "saving", "closed", "renamed", "installed",
                           "kept", "raised"}

Line(kind, n) == [kind |-> kind, seq |-> n]
Word(kind)    == Line(kind, 0)
SenderKinds   == {"META", "METABAD", "DATA", "BAD", "SHORT", "DONE", "DONEBAD", "ERR", "JUNK"}
ReceiverKinds == {"READY", "ACK", "NAK", "OK", "FAIL", "ERR", "JUNK"}
ToReceiverLine == [kind : SenderKinds, seq : Seqs]
ToSenderLine   == [kind : ReceiverKinds, seq : Nat]

Reply == Head(toSender)
Input == Head(toReceiver)

ShortFramePending == \E i \in 1 .. Len(toReceiver) : toReceiver[i].kind = "SHORT"
Reading == rPhase \in {"meta", "opening", "open", "data", "saving"}

(* A deadline passes with no reply to read; see Transfer. *)
DeadlinePassed ==
  /\ toSender = <<>>
  /\ setting.prompt =>
       \/ ~Reading
       \/ rPhase \in {"meta", "data"}
          /\ (toReceiver = <<>> \/ (ShortFramePending /\ Len(toReceiver) = 1))

-----------------------------------------------------------------------------
(* The sender. *)

OfSender   == UNCHANGED <<receiverVars, world, faults>>
TakeReply  == toSender # <<>> /\ toSender' = Tail(toSender) /\ UNCHANGED silence /\ OfSender
NoReply    == DeadlinePassed /\ silence' = silence + 1 /\ UNCHANGED toSender /\ OfSender
Send(line) == toReceiver' = Append(toReceiver, line)

(* An exception leaves send_file; only _fail says ERR first. *)
Ends(why)  == phase' = "end" /\ result' = why /\ UNCHANGED <<seq, attempt, timeouts>>
Raises(why) == Ends(why) /\ UNCHANGED toReceiver
Fails(why)  == Ends(why) /\ Send(Word("ERR"))

(* _send_block is entered for block n. *)
SendBlock(n) ==
  /\ phase' = "ack" /\ UNCHANGED result
  /\ seq' = n /\ attempt' = 0 /\ timeouts' = 0
  /\ Send(Line("DATA", n))

RecvReady ==
  /\ phase = "ready" /\ TakeReply
  /\ \/ Reply.kind = "READY" /\ SendBlock(0)
     \/ Reply.kind # "READY" /\ Raises("declined")

OnlyForReady  == {"ready"}   \* mutant of DeadlineWaits
DeadlineWaits == {"ready", "done"}

(* A TimeoutError_ out of send_file itself. *)
GiveUp == phase \in DeadlineWaits /\ NoReply /\ Raises("timeout")

AnyAck(m) == m.kind = "ACK"   \* mutant of AckOfBlock: the number is not read
AckOfBlock(m) == m.kind = "ACK" /\ m.seq = seq

RecvAck ==
  /\ phase = "ack" /\ TakeReply /\ AckOfBlock(Reply)
  /\ \/ seq + 1 < Blocks /\ SendBlock(seq + 1)
     \/ /\ seq + 1 >= Blocks
        /\ phase' = "done" /\ Send(Word("DONE"))
        /\ UNCHANGED <<result, seq, attempt, timeouts>>

(* The loop's next pass, or its end. *)
SendAgain(missed) ==
  \/ /\ attempt < MaxRetries
     /\ attempt' = attempt + 1 /\ timeouts' = missed
     /\ Send(Line("DATA", seq))
     /\ UNCHANGED <<phase, result, seq>>
  \/ attempt >= MaxRetries /\ Fails("retry")

RecvNak == phase = "ack" /\ TakeReply /\ Reply.kind = "NAK" /\ SendAgain(timeouts)

OneMoreTimeout == timeouts >= MaxTimeouts   \* mutant of LastTimeout
LastTimeout    == timeouts + 1 >= MaxTimeouts

AckTimeout ==
  /\ phase = "ack" /\ NoReply
  /\ \/ LastTimeout /\ Fails("unanswered")
     \/ ~LastTimeout /\ SendAgain(timeouts + 1)

(* ERR, or any other line: the acknowledgement of the block before, too.   *)
RecvUnexpectedReply ==
  /\ phase = "ack" /\ TakeReply
  /\ ~AckOfBlock(Reply) /\ Reply.kind # "NAK"
  /\ Raises("protocol")

(* Without FLOW the first line after DONE is the verdict. *)
RecvFinal ==
  /\ phase = "done" /\ TakeReply
  /\ Raises(IF Reply.kind = "OK" THEN "verified" ELSE "mismatch")

SenderStep ==
  \/ RecvReady \/ GiveUp \/ RecvAck \/ RecvNak \/ AckTimeout
  \/ RecvUnexpectedReply \/ RecvFinal

-----------------------------------------------------------------------------
(* The receiver. *)

OfReceiver == silence' = 0 /\ UNCHANGED <<senderVars, world, faults>>
OnDisk     == UNCHANGED <<toReceiver, toSender, expected, metaOk>> /\ OfReceiver
TakeInput  == toReceiver # <<>> /\ toReceiver' = Tail(toReceiver)
Read(kinds) == rPhase = "data" /\ TakeInput /\ Input.kind \in kinds /\ OfReceiver
Answer(line) == toSender' = Append(toSender, line)

(* Once renamed, the file is there whatever becomes of the checkpoint. *)
Abandoned ==
  IF rPhase \in Unopened THEN "refused"
  ELSE IF rPhase = "renamed" THEN "installed" ELSE "raised"
Raise == rPhase' = Abandoned /\ UNCHANGED <<expected, metaOk, disk>>

(* READY is said before the files are opened. *)
RecvMeta ==
  /\ rPhase = "meta" /\ TakeInput /\ OfReceiver
  /\ \/ /\ Input.kind \in {"META", "METABAD"}
        /\ rPhase' = "opening" /\ metaOk' = (Input.kind = "META")
        /\ Answer(Word("READY")) /\ UNCHANGED <<expected, disk>>
     \/ /\ Input.kind \notin {"META", "METABAD"}
        /\ Raise
        /\ Answer(Word("ERR")) \/ UNCHANGED toSender

OpenCheckpoint ==
  /\ rPhase = "opening" /\ rPhase' = "open"
  /\ checkpoint' = expected
  /\ UNCHANGED <<part, partThere>> /\ OnDisk

Appended  == part   \* mutant of Truncated: .PART is opened to append
Truncated == <<>>

OpenPart ==
  /\ rPhase = "open" /\ rPhase' = "data"
  /\ part' = Truncated /\ partThere' = TRUE
  /\ UNCHANGED checkpoint /\ OnDisk

RepeatedIsBad == "NAK"   \* mutant of RepeatedAnswer
RepeatedAnswer == "ACK"

(* A block that is here already is acknowledged by its own number; a frame  *)
(* that fails its CRC is asked for again.                                   *)
RecvAnswered ==
  /\ \/ Read({"DATA"}) /\ Input.seq < expected /\ Answer(Line(RepeatedAnswer, Input.seq))
     \/ Read({"BAD"}) /\ Answer(Line("NAK", expected))
  /\ UNCHANGED receiverVars

(* Mutant of CheckpointDue: the last blocks of a file go without one. *)
WholeGroup(count) == count % CheckpointEvery = 0
CheckpointDue(count) == count = Blocks \/ count % CheckpointEvery = 0

(* The branch for a block beyond `expected` is not taken: see NoGap. *)
RecvBlock ==
  /\ Read({"DATA"}) /\ Input.seq = expected
  /\ part' = Append(part, <<gets, expected>>) /\ expected' = expected + 1
  /\ Answer(Line("ACK", expected))
  /\ rPhase' = IF CheckpointDue(expected + 1) THEN "saving" ELSE "data"
  /\ UNCHANGED <<metaOk, partThere, checkpoint>>

SaveCheckpoint ==
  /\ rPhase = "saving" /\ rPhase' = "data"
  /\ checkpoint' = expected
  /\ UNCHANGED <<part, partThere>> /\ OnDisk

(* A raw read that lacks bytes expires and throws its input away, or takes *)
(* what it lacks from the next line or frame; see Transfer.                *)
RecvShortFrame ==
  /\ rPhase = "data" /\ toReceiver # <<>> /\ Input.kind = "SHORT"
  /\ \/ /\ Len(toReceiver) = 1
        /\ toReceiver' = <<>> /\ Answer(Line("NAK", expected))
     \/ /\ Len(toReceiver) > 1
        /\ \/ /\ toReceiver' = <<Input>> \o Tail(Tail(toReceiver))
              /\ UNCHANGED toSender
           \/ /\ toReceiver' = <<Word("JUNK")>> \o Tail(Tail(toReceiver))
              /\ Answer(Line("NAK", expected))
  /\ UNCHANGED receiverVars /\ OfReceiver

Whole == [i \in 1 .. Blocks |-> <<gets, i - 1>>]

(* The running CRC covers what was written since .PART was opened, which is *)
(* not looked at again; META and DONE both name the file's.                 *)
Received == SubSeq(part, Len(part) - expected + 1, Len(part))
FileVerified == Input.kind = "DONE" /\ metaOk /\ Received = Whole

(* .PART is closed, the CRCs compared, and the verdict said. *)
RecvDone ==
  /\ Read({"DONE", "DONEBAD"})
  /\ UNCHANGED <<expected, metaOk, disk>>
  /\ IF expected # Blocks THEN rPhase' = "raised" /\ UNCHANGED toSender
     ELSE IF FileVerified THEN rPhase' = "closed" /\ Answer(Word("OK"))
     ELSE rPhase' = "kept" /\ Answer(Word("FAIL"))

(* .PART takes the file's name, then the checkpoint goes. *)
Rename ==
  /\ rPhase = "closed" /\ rPhase' = "renamed"
  /\ partThere' = FALSE
  /\ UNCHANGED <<part, checkpoint>> /\ OnDisk

DropCheckpoint ==
  /\ rPhase = "renamed" /\ rPhase' = "installed"
  /\ checkpoint' = NoCheckpoint
  /\ UNCHANGED <<part, partThere>> /\ OnDisk

RecvUnexpected ==
  /\ Read({"ERR", "JUNK", "META", "METABAD"})
  /\ Raise
  /\ \/ UNCHANGED toSender
     \/ Input.kind = "JUNK" /\ Answer(Word("ERR"))

Impatient == 1   \* mutant of Patience: the receiver waits ACK_TIMEOUT
Patience  == 2   \* ACK_TIMEOUT * 2, in deadlines of the sender

(* Nothing to read for that long.  When replies are prompt, the sender has  *)
(* ended, or it has sent a block Patience times and none of them arrived;   *)
(* its last deadline and the receiver's are the same second.                *)
RecvTimeout ==
  /\ rPhase \in {"meta", "data"} /\ toReceiver = <<>>
  /\ setting.prompt => \/ phase = "end"
                       \/ phase = "ack" /\ toSender = <<>> /\ silence + 1 >= Patience
  /\ Raise /\ UNCHANGED <<toReceiver, toSender>> /\ OfReceiver

ReceiverStep ==
  \/ RecvMeta \/ OpenCheckpoint \/ OpenPart \/ RecvAnswered \/ RecvBlock \/ SaveCheckpoint
  \/ RecvShortFrame \/ RecvDone \/ Rename \/ DropCheckpoint \/ RecvUnexpected \/ RecvTimeout

-----------------------------------------------------------------------------
(* The line, the disk and the receiving machine. *)

Fault(kind) ==
  /\ kind \in setting.kinds /\ faults < setting.budget
  /\ faults' = faults + 1 /\ UNCHANGED world
LineOnly == UNCHANGED <<senderVars, receiverVars, silence>>

LoseLine ==
  /\ Fault("lose") /\ LineOnly
  /\ setting.prompt => silence < setting.inARow
  /\ \/ TakeInput /\ UNCHANGED toSender
     \/ toSender # <<>> /\ toSender' = Tail(toSender) /\ UNCHANGED toReceiver

Replaced(line) == toReceiver' = <<line>> \o Tail(toReceiver)

DamageLine ==
  /\ LineOnly /\ toReceiver # <<>> /\ UNCHANGED toSender
  /\ \/ Fault("corrupt") /\ Input.kind = "DATA" /\ Replaced(Line("BAD", Input.seq))
     \/ Fault("shorten") /\ Input.kind = "DATA" /\ Replaced(Line("SHORT", Input.seq))
     \/ /\ Fault("garble") /\ Input.kind \in {"META", "DONE", "ERR"}
        /\ \/ Replaced(Word("JUNK"))
           \/ Input.kind = "META" /\ Replaced(Word("METABAD"))
           \/ Input.kind = "DONE" /\ Replaced(Word("DONEBAD"))

GarbleReply ==
  /\ Fault("garble") /\ LineOnly /\ toSender # <<>>
  /\ toSender' = <<Word("JUNK")>> \o Tail(toSender)
  /\ UNCHANGED toReceiver

(* A write fails: only a block's own write is answered.  What was handed to *)
(* .PART is written when it is closed, so the last of it can fail at DONE.  *)
StorageFails ==
  /\ Fault("storage") /\ UNCHANGED <<senderVars, silence>> /\ Raise
  /\ \/ /\ rPhase \in {"opening", "open", "saving", "closed", "renamed"}
        /\ UNCHANGED <<toReceiver, toSender>>
     \/ /\ rPhase = "data" /\ TakeInput /\ Input = Line("DATA", expected)
        /\ Answer(Word("ERR"))
     \/ /\ rPhase = "data" /\ TakeInput /\ Input.kind \in {"DONE", "DONEBAD"}
        /\ UNCHANGED toSender

(* A killed receiver loses what Python had not yet written of an open file. *)
ReceiverCrash ==
  /\ Fault("crash")
  /\ rPhase' = Abandoned
  /\ \/ /\ rPhase \in {"data", "saving"}
        /\ \E n \in 0 .. Len(part) : part' = SubSeq(part, 1, n)
     \/ rPhase \in {"meta", "opening", "open", "closed", "renamed"} /\ UNCHANGED part
  /\ UNCHANGED <<expected, metaOk, partThere, checkpoint, silence, senderVars, toReceiver,
                 toSender>>

FaultStep == LoseLine \/ DamageLine \/ GarbleReply \/ StorageFails \/ ReceiverCrash

-----------------------------------------------------------------------------
Asked ==
  /\ phase' = "ready" /\ result' = "none"
  /\ seq' = 0 /\ attempt' = 0 /\ timeouts' = 0
  /\ rPhase' = "meta" /\ expected' = 0 /\ metaOk' = TRUE /\ silence' = 0
  /\ toReceiver' = <<Word("META")>> /\ toSender' = <<>>

SenderEnded   == phase = "end"
ReceiverEnded == rPhase \in {"installed", "kept", "refused", "raised"}

(* The next session's GET of the same name. *)
GetAgain ==
  /\ SenderEnded /\ ReceiverEnded /\ gets < MaxGets
  /\ gets' = gets + 1
  /\ Asked
  /\ UNCHANGED <<disk, setting, faults>>

Init ==
  /\ phase = "ready" /\ result = "none"
  /\ seq = 0 /\ attempt = 0 /\ timeouts = 0
  /\ rPhase = "meta" /\ expected = 0 /\ metaOk = TRUE /\ silence = 0
  /\ part = <<>> /\ partThere = FALSE /\ checkpoint = NoCheckpoint
  /\ toReceiver = <<Word("META")>> /\ toSender = <<>>
  /\ gets = 1 /\ setting \in Settings /\ faults = 0

Next == SenderStep \/ ReceiverStep \/ FaultStep \/ GetAgain

Spec == Init /\ [][Next]_vars

(* Both programs keep running; nobody is obliged to ask again. *)
FairSpec == Spec /\ WF_vars(SenderStep) /\ WF_vars(ReceiverStep)

-----------------------------------------------------------------------------
(* Properties. *)

(* Every variable has its type, and the retry counters their limits.       *)
SenderTypeOK ==
  /\ phase \in Phases /\ result \in Results /\ seq \in Seqs
  /\ attempt \in 0 .. MaxRetries /\ timeouts \in 0 .. MaxTimeouts - 1
ReceiverTypeOK ==
  /\ rPhase \in RPhases /\ expected \in 0 .. Blocks /\ metaOk \in BOOLEAN
  /\ part \in Seq(Nat \X Seqs) /\ partThere \in BOOLEAN
  /\ checkpoint \in 0 .. Blocks \cup {NoCheckpoint}
LineTypeOK == toReceiver \in Seq(ToReceiverLine) /\ toSender \in Seq(ToSenderLine)
WorldTypeOK == gets \in Nat /\ setting \in Settings /\ faults \in Nat
TypeOK == SenderTypeOK /\ ReceiverTypeOK /\ silence \in Nat /\ LineTypeOK /\ WorldTypeOK

(* However late answers are and however often a block was sent again, the  *)
(* receiver is never sent a block beyond the one it expects, and nothing is *)
(* acknowledged that it has not written: _receive's answer to a gap, which  *)
(* _send_block does not understand, is never needed.                        *)
NoGap ==
  /\ \A i \in 1 .. Len(toReceiver) : Reading => toReceiver[i].seq <= expected
  /\ \A i \in 1 .. Len(toSender) : toSender[i].kind = "ACK" => toSender[i].seq < expected
  /\ phase = "ack" /\ Reading => expected \in {seq, seq + 1}

(* Wherever the receiver is killed or its disk fails, a .PART file it leaves *)
(* has a .PCUTP beside it, which names no block that was not handed to .PART *)
(* before; and while it reads on, that one is behind the writes by less     *)
(* than the blocks between two, and level with the last one.  It may name   *)
(* blocks that a killed receiver had not yet got to the disk.               *)
CheckpointTrails ==
  /\ partThere => checkpoint # NoCheckpoint
  /\ rPhase \notin Unopened /\ checkpoint # NoCheckpoint => checkpoint <= expected
  /\ rPhase = "data" => /\ expected < checkpoint + CheckpointEvery
                        /\ expected = Blocks => checkpoint = Blocks

Recoverable ==
  /\ setting.prompt /\ setting.kinds \subseteq {"lose", "corrupt"}
  /\ setting.budget <= MaxRetries /\ setting.budget < MaxTimeouts
  /\ setting.inARow <= 1

(* With prompt replies, losing or corrupting no more than the retries allow *)
(* never costs the file, unless two lines are lost in a row: only META,     *)
(* READY, DONE and OK can end it.                                           *)
LossIsRecovered == Recoverable => result \in {"none", "verified", "timeout"}

(* Every transfer ends on both sides, and stays ended or is asked for again. *)
Termination == []<>(SenderEnded /\ ReceiverEnded)

(* The transfer, seen as a FileDelivery: a block of an earlier GET is none. *)
Copy ==
  IF rPhase \in Unopened THEN <<>>
  ELSE [i \in 1 .. Len(part) |-> IF part[i][1] = gets THEN part[i][2] ELSE Blocks]
Holder ==
  IF Reading THEN "writing"
  ELSE IF rPhase = "closed" THEN "verified"
  ELSE IF rPhase \in {"renamed", "installed"} THEN "installed" ELSE "stopped"
Outcome == IF result \in {"none", "verified"} THEN result ELSE "failed"

Delivery == INSTANCE FileDelivery WITH copy <- Copy, holder <- Holder, report <- Outcome

(* Every behaviour of the two ends, with the receiver killed at any point   *)
(* and the file asked for again, is a delivery: no block of an earlier      *)
(* attempt survives into the next, and the verdict, the rename and the      *)
(* sender's report come in that order and only for the whole file.          *)
DeliversFile == Delivery!Spec

=============================================================================
