--------------------------- MODULE TeardownProofs ---------------------------
(***************************************************************************)
(* Theorems about Teardown, for every deadline, number of attempts, linger *)
(* and number of lost lines.                                               *)
(*                                                                         *)
(* The invariant has three parts: the types, what a BYE on the line proves *)
(* (AnswersAreEarned), and that the seconds a closing side has spent and   *)
(* those it may still need never exceed the bound (OnSchedule).  For each  *)
(* part one lemma says that every step keeps it.                           *)
(***************************************************************************)
EXTENDS Teardown, SequenceTheorems, TLAPS

HasBye(s) == \E i \in 1 .. Len(s) : s[i] = "BYE"

(* A side was heard if its send_fin succeeded or a BYE is on its way to it. *)
AnswersAreEarned == \A p \in Sides : acked[p] \/ HasBye(lines[p]) => heard[p]

OnSchedule == \A p \in Sides :
  /\ phase[p] = "fin" => tries[p] >= 1
  /\ Closing(p) => spent[p] + Remaining(p) <= CloseBound
  /\ spent[p] <= CloseBound

-----------------------------------------------------------------------------
(* The line. *)

(* Each of the two sides is the other's peer. *)
LEMMA PeerType ==
  ASSUME NEW p \in Sides
  PROVE  Peer(p) \in Sides /\ Peer(p) # p /\ \A q \in Sides : q = p \/ q = Peer(p)
  BY DEF Sides, Peer

(* What the sides send. *)
LEMMA OutType ==
  /\ <<>> \in Seq(Kinds) /\ ~HasBye(<<>>)
  /\ <<"CLOSE">> \in Seq(Kinds) /\ ~HasBye(<<"CLOSE">>)
  /\ <<"ERR">> \in Seq(Kinds) /\ ~HasBye(<<"ERR">>)
  /\ ByeThenClose \in Seq(Kinds)
  /\ \A kind \in Kinds : Reply(kind) \in Seq(Kinds) /\ (HasBye(Reply(kind)) => kind = "CLOSE")
  BY DEF Kinds, HasBye, Reply, ByeThenClose

(* Reading a line keeps the rest. *)
LEMMA TailBye ==
  ASSUME NEW s \in Seq(Kinds), s # <<>>
  PROVE  Tail(s) \in Seq(Kinds) /\ (HasBye(Tail(s)) => HasBye(s))
<1>1. Tail(s) \in Seq(Kinds) /\ Len(Tail(s)) = Len(s) - 1
      /\ \A i \in 1 .. Len(Tail(s)) : Tail(s)[i] = s[i + 1]
  BY HeadTailProperties
<1>2. ASSUME HasBye(Tail(s)) PROVE HasBye(s)
  <2>1. PICK i \in 1 .. Len(Tail(s)) : Tail(s)[i] = "BYE"
    BY <1>2 DEF HasBye
  <2>2. i + 1 \in 1 .. Len(s) /\ s[i + 1] = "BYE"
    BY <1>1, <2>1
  <2>3. QED
    BY <2>2 DEF HasBye
<1>3. QED
  BY <1>1, <1>2

(* A line that is sent joins those that wait. *)
LEMMA ConcatBye ==
  ASSUME NEW s \in Seq(Kinds), NEW t \in Seq(Kinds)
  PROVE  s \o t \in Seq(Kinds) /\ (HasBye(s \o t) => HasBye(s) \/ HasBye(t))
<1>1. /\ s \o t \in Seq(Kinds) /\ Len(s \o t) = Len(s) + Len(t)
      /\ \A i \in 1 .. Len(s) + Len(t) :
           (s \o t)[i] = IF i <= Len(s) THEN s[i] ELSE t[i - Len(s)]
  BY ConcatProperties
<1>2. ASSUME HasBye(s \o t) PROVE HasBye(s) \/ HasBye(t)
  <2>1. PICK i \in 1 .. Len(s) + Len(t) : (s \o t)[i] = "BYE"
    BY <1>1, <1>2 DEF HasBye
  <2>2. CASE i <= Len(s)
    BY <1>1, <2>1, <2>2 DEF HasBye
  <2>3. CASE i > Len(s)
    <3>1. i - Len(s) \in 1 .. Len(t) /\ t[i - Len(s)] = "BYE"
      BY <1>1, <2>1, <2>3
    <3>2. QED
      BY <3>1 DEF HasBye
  <2>4. QED
    BY <2>1, <2>2, <2>3
<1>3. QED
  BY <1>1, <1>2

LinesType == lines \in [Sides -> Seq(Kinds)]

(* Received changes both ends of the line, and nothing appears on it that   *)
(* was not there or sent.                                                   *)
LEMMA ReceivedLines ==
  ASSUME LinesType, NEW p \in Sides, NEW rest \in Seq(Kinds), NEW out \in Seq(Kinds),
         HasBye(rest) => HasBye(lines[p]), Received(p, rest, out)
  PROVE  /\ LinesType'
         /\ HasBye(lines'[p]) => HasBye(lines[p])
         /\ HasBye(lines'[Peer(p)]) => HasBye(lines[Peer(p)]) \/ HasBye(out)
<1>1. lines[p] \in Seq(Kinds) /\ lines[Peer(p)] \in Seq(Kinds) /\ Peer(p) \in Sides /\ Peer(p) # p
  BY PeerType DEF LinesType
<1>2. /\ lines[Peer(p)] \o out \in Seq(Kinds)
      /\ HasBye(lines[Peer(p)] \o out) => HasBye(lines[Peer(p)]) \/ HasBye(out)
  BY <1>1, ConcatBye
<1>3. /\ lines' \in [Sides -> Seq(Kinds)]
      /\ lines'[p] = rest
      /\ lines'[Peer(p)] = lines[Peer(p)] \/ lines'[Peer(p)] = lines[Peer(p)] \o out
  BY <1>1, <1>2 DEF Received, LinesType
<1>4. QED
  BY <1>2, <1>3 DEF LinesType

(* The same for a side that only sends. *)
LEMMA SaysLines ==
  ASSUME LinesType, NEW p \in Sides, NEW out \in Seq(Kinds), ~HasBye(out), Says(p, out)
  PROVE  /\ LinesType'
         /\ \A q \in Sides : HasBye(lines'[q]) => HasBye(lines[q])
<1>1. lines[p] \in Seq(Kinds)
  BY DEF LinesType
<1>2. QED
  BY <1>1, ReceivedLines, PeerType DEF Says

(* The same for a side that reads a line and may answer it. *)
LEMMA ReadsLines ==
  ASSUME LinesType, NEW p \in Sides, NEW kind, NEW out \in Seq(Kinds), Reads(p, kind, out)
  PROVE  /\ LinesType'
         /\ Head(lines[p]) = kind /\ lines[p] # <<>>
         /\ HasBye(lines'[p]) => HasBye(lines[p])
         /\ HasBye(lines'[Peer(p)]) => HasBye(lines[Peer(p)]) \/ HasBye(out)
<1>1. lines[p] \in Seq(Kinds) /\ lines[p] # <<>> /\ Head(lines[p]) = kind
  BY DEF LinesType, Reads
<1>2. Tail(lines[p]) \in Seq(Kinds) /\ (HasBye(Tail(lines[p])) => HasBye(lines[p]))
  BY <1>1, TailBye
<1>3. QED
  BY <1>1, <1>2, ReceivedLines DEF Reads

(* A side that reads BYE was sent one. *)
LEMMA ReadsBye ==
  ASSUME LinesType, NEW p \in Sides, lines[p] # <<>>, Head(lines[p]) = "BYE"
  PROVE  HasBye(lines[p])
<1>1. lines[p] \in Seq(Kinds)
  BY DEF LinesType
<1>2. 1 \in 1 .. Len(lines[p]) /\ lines[p][1] = "BYE"
  BY <1>1
<1>3. QED
  BY <1>2 DEF HasBye

-----------------------------------------------------------------------------
(* What a BYE proves. *)

(* The part of the invariant the answers depend on. *)
Answers == LinesType /\ acked \in [Sides -> BOOLEAN] /\ heard \in [Sides -> BOOLEAN]
           /\ AnswersAreEarned

(* Reading a line while closing: only a CLOSE is answered, and answering it  *)
(* is what HeardBy records.                                                  *)
LEMMA ReplyEarned ==
  ASSUME Answers, NEW p \in Sides, NEW kind \in Kinds, Reads(p, kind, Reply(kind)),
         IF kind = "CLOSE" THEN HeardBy(p) ELSE UNCHANGED heard
  PROVE  /\ LinesType' /\ heard' \in [Sides -> BOOLEAN]
         /\ \A q \in Sides : (heard[q] => heard'[q]) /\ (HasBye(lines'[q]) => heard'[q])
         /\ kind = "BYE" => heard'[p]
<1>1. Reply(kind) \in Seq(Kinds) /\ (HasBye(Reply(kind)) => kind = "CLOSE")
  BY OutType
<1>2. /\ LinesType' /\ Head(lines[p]) = kind /\ lines[p] # <<>>
      /\ HasBye(lines'[p]) => HasBye(lines[p])
      /\ HasBye(lines'[Peer(p)]) => HasBye(lines[Peer(p)]) \/ HasBye(Reply(kind))
  BY <1>1, ReadsLines DEF Answers
<1>3. /\ heard' \in [Sides -> BOOLEAN]
      /\ \A q \in Sides : heard[q] => heard'[q]
      /\ kind = "CLOSE" => heard'[Peer(p)]
  BY PeerType DEF HeardBy, Answers
<1>4. kind = "BYE" => heard'[p]
  BY <1>2, <1>3, ReadsBye DEF Answers, AnswersAreEarned
<1>5. \A q \in Sides : HasBye(lines'[q]) => heard'[q]
  BY <1>1, <1>2, <1>3, PeerType DEF Answers, AnswersAreEarned
<1>6. QED
  BY <1>2, <1>3, <1>4, <1>5

(* Every step keeps the answers earned. *)
LEMMA StepAnswers ==
  ASSUME Answers, [Next]_vars
  PROVE  Answers'
<1>1. ASSUME NEW p \in Sides, RecvInFin(p) PROVE Answers'
  <2>1. PICK kind \in Kinds :
          /\ Reads(p, kind, Reply(kind))
          /\ IF FinConfirms(kind) THEN AfterFin(p, TRUE) ELSE UNCHANGED <<phase, timer, acked>>
          /\ IF kind = "CLOSE" THEN HeardBy(p) ELSE UNCHANGED heard
    BY <1>1 DEF RecvInFin
  <2>2. /\ LinesType' /\ heard' \in [Sides -> BOOLEAN]
        /\ \A q \in Sides : (heard[q] => heard'[q]) /\ (HasBye(lines'[q]) => heard'[q])
        /\ kind = "BYE" => heard'[p]
    BY <2>1, ReplyEarned
  <2>3. /\ acked' \in [Sides -> BOOLEAN]
        /\ \A q \in Sides : acked'[q] => acked[q] \/ (q = p /\ kind = "BYE")
    BY <2>1 DEF AfterFin, FinConfirms, Answers
  <2>4. QED
    BY <2>2, <2>3 DEF Answers, AnswersAreEarned
<1>2. ASSUME NEW p \in Sides, RecvInAwait(p) \/ RecvInLinger(p) PROVE Answers'
  <2>1. PICK kind \in Kinds :
          /\ Reads(p, kind, Reply(kind))
          /\ IF kind = "CLOSE" THEN HeardBy(p) ELSE UNCHANGED heard
    BY <1>2 DEF RecvInAwait, RecvInLinger
  <2>2. /\ LinesType' /\ heard' \in [Sides -> BOOLEAN]
        /\ \A q \in Sides : (heard[q] => heard'[q]) /\ (HasBye(lines'[q]) => heard'[q])
    BY <2>1, ReplyEarned
  <2>3. acked' = acked
    BY <1>2 DEF RecvInAwait, RecvInLinger
  <2>4. QED
    BY <2>2, <2>3 DEF Answers, AnswersAreEarned
<1>3. ASSUME NEW p \in Sides, FinTimeout(p) PROVE Answers'
  <2>1. /\ LinesType' /\ \A q \in Sides : HasBye(lines'[q]) => HasBye(lines[q])
    BY <1>3, SaysLines, OutType DEF FinTimeout, Answers, LinesType
  <2>2. heard' = heard /\ acked' \in [Sides -> BOOLEAN] /\ \A q \in Sides : acked'[q] => acked[q]
    BY <1>3 DEF FinTimeout, AfterFin, Answers
  <2>3. QED
    BY <2>1, <2>2 DEF Answers, AnswersAreEarned
<1>4. ASSUME HangUp \/ Interrupt PROVE Answers'
  <2>1. "client" \in Sides /\ "server" \in Sides
    BY DEF Sides
  <2>2. LinesType' /\ \A q \in Sides : HasBye(lines'[q]) => HasBye(lines[q])
    BY <1>4, <2>1, SaysLines, OutType DEF HangUp, Interrupt, Answers, LinesType, Unchanged
  <2>3. heard' = heard /\ acked' \in [Sides -> BOOLEAN] /\ \A q \in Sides : acked'[q] => acked[q]
    BY <1>4 DEF HangUp, Interrupt, StartFin, Unchanged, Answers
  <2>4. QED
    BY <2>2, <2>3 DEF Answers, AnswersAreEarned
<1>5. CASE RecvClose
  <2>1. "server" \in Sides /\ ByeThenClose \in Seq(Kinds)
    BY OutType DEF Sides
  <2>2. /\ LinesType'
        /\ HasBye(lines'["server"]) => HasBye(lines["server"])
    BY <1>5, <2>1, ReadsLines DEF RecvClose, Answers
  <2>3. /\ heard' \in [Sides -> BOOLEAN] /\ heard'[Peer("server")]
        /\ \A q \in Sides : heard[q] => heard'[q]
    BY <1>5, <2>1, PeerType DEF RecvClose, HeardBy, Answers
  <2>4. acked' \in [Sides -> BOOLEAN] /\ \A q \in Sides : acked'[q] => acked[q]
    BY <1>5 DEF RecvClose, StartFin, Answers
  <2>5. QED
    BY <2>1, <2>2, <2>3, <2>4, PeerType DEF Answers, AnswersAreEarned
<1>6. CASE RecvFirstLine
  <2>1. PICK kind \in Kinds : Reads("server", kind, <<"ERR">>)
    BY <1>6 DEF RecvFirstLine
  <2>2. LinesType' /\ \A q \in Sides : HasBye(lines'[q]) => HasBye(lines[q])
    BY <2>1, ReadsLines, OutType, PeerType DEF Sides, Answers
  <2>3. heard' = heard /\ acked' = acked
    BY <1>6 DEF RecvFirstLine
  <2>4. QED
    BY <2>2, <2>3 DEF Answers, AnswersAreEarned
<1>7. CASE LoseLine
  <2>1. PICK p \in Sides : lines[p] # <<>> /\ lines' = [lines EXCEPT ![p] = Tail(@)]
    BY <1>7 DEF LoseLine
  <2>2. LinesType' /\ \A q \in Sides : HasBye(lines'[q]) => HasBye(lines[q])
    BY <2>1, TailBye DEF Answers, LinesType
  <2>3. heard' = heard /\ acked' = acked
    BY <1>7 DEF LoseLine
  <2>4. QED
    BY <2>2, <2>3 DEF Answers, AnswersAreEarned
<1>8. ASSUME UNCHANGED <<lines, heard, acked>> PROVE Answers'
  BY <1>8 DEF Answers, LinesType, AnswersAreEarned
<1>9. ASSUME NEW p \in Sides, AwaitTimeout(p) \/ LingerTimeout(p) PROVE Answers'
  BY <1>8, <1>9 DEF AwaitTimeout, LingerTimeout, Unchanged
<1>10. CASE SilenceNoticed \/ Tick \/ UNCHANGED vars
  BY <1>8, <1>10 DEF SilenceNoticed, Tick, Unchanged, vars
<1>11. QED
  BY <1>1, <1>2, <1>3, <1>4, <1>5, <1>6, <1>7, <1>9, <1>10 DEF Next, Progress, SideStep

(* Nothing was answered at first. *)
LEMMA InitAnswers == Init => Answers
  BY OutType DEF Init, Answers, LinesType, AnswersAreEarned

(* Teardown!AckedIsHeard: whatever the line loses and whoever closes first,  *)
(* send_fin returns True only after the peer has read the CLOSE.             *)
THEOREM AcknowledgedIsHeard == Spec => []AckedIsHeard
<1>1. Init => Answers
  BY InitAnswers
<1>2. Answers /\ [Next]_vars => Answers'
  BY StepAnswers
<1>3. Answers => AckedIsHeard
  BY DEF Answers, AnswersAreEarned, AckedIsHeard
<1>4. QED
  BY <1>1, <1>2, <1>3, PTL DEF Spec

-----------------------------------------------------------------------------
(* Time. *)

(* The part of the invariant the deadlines depend on. *)
TimesType ==
  /\ phase \in [Sides -> Phases] /\ role \in [Sides -> Roles]
  /\ tries \in [Sides -> 0 .. CloseRetries]
  /\ timer \in [Sides -> Nat] /\ spent \in [Sides -> Nat]
Schedule == TimesType /\ OnSchedule

(* One attempt fewer leaves one CLOSE_TIMEOUT less. *)
LEMMA Attempts ==
  ASSUME NEW t \in 0 .. CloseRetries
  PROVE  /\ CloseRetries * CloseTimeout \in Nat
         /\ (CloseRetries - t) * CloseTimeout \in Nat
         /\ t < CloseRetries =>
              (CloseRetries - t) * CloseTimeout
                = (CloseRetries - (t + 1)) * CloseTimeout + CloseTimeout
         /\ (CloseRetries - 1) * CloseTimeout + CloseTimeout = CloseRetries * CloseTimeout
  BY TeardownAssumption

(* The times of one side are all a step of that side touches. *)
SideOK(p) ==
  /\ phase[p] = "fin" => tries[p] >= 1
  /\ Closing(p) => spent[p] + Remaining(p) <= CloseBound
  /\ spent[p] <= CloseBound

(* A step of one side leaves the other on schedule. *)
LEMMA OtherSideOK ==
  ASSUME Schedule, NEW p \in Sides, TimesType', SideOK(p)',
         \A q \in Sides : q # p =>
           /\ phase'[q] = phase[q] /\ tries'[q] = tries[q]
           /\ timer'[q] = timer[q] /\ spent'[q] = spent[q]
  PROVE  Schedule'
<1>1. ASSUME NEW q \in Sides, q # p PROVE SideOK(q)'
  BY <1>1 DEF Schedule, OnSchedule, SideOK, Closing, Remaining
<1>2. QED
  BY <1>1 DEF Schedule, OnSchedule, SideOK

(* A side that begins to close has the whole bound before it. *)
LEMMA StartFinTime ==
  ASSUME Schedule, NEW p \in Sides, NEW r \in Roles, StartFin(p, r)
  PROVE  Schedule'
<1>1. /\ TimesType'
      /\ phase'[p] = "fin" /\ tries'[p] = 1 /\ timer'[p] = CloseTimeout /\ spent'[p] = 0
  BY TeardownAssumption DEF StartFin, Schedule, TimesType, Phases
<1>2. SideOK(p)'
  BY <1>1, Attempts, TeardownAssumption DEF SideOK, Closing, Remaining, CloseBound
<1>3. \A q \in Sides : q # p =>
        /\ phase'[q] = phase[q] /\ tries'[q] = tries[q]
        /\ timer'[q] = timer[q] /\ spent'[q] = spent[q]
  BY DEF StartFin, Schedule, TimesType
<1>4. QED
  BY <1>1, <1>2, <1>3, OtherSideOK

(* Leaving send_fin, acknowledged or not, takes no more than was planned. *)
LEMMA AfterFinTime ==
  ASSUME Schedule, NEW p \in Sides, phase[p] = "fin", NEW ok, AfterFin(p, ok),
         UNCHANGED <<role, tries, spent>>
  PROVE  Schedule'
<1>1. /\ TimesType'
      /\ \/ phase'[p] = "await" /\ timer'[p] = CloseTimeout
         \/ phase'[p] = "linger" /\ timer'[p] = LingerTime
  BY TeardownAssumption DEF AfterFin, Enter, Schedule, TimesType, Phases
<1>2. /\ tries[p] \in 0 .. CloseRetries /\ timer[p] \in Nat /\ spent[p] \in Nat
      /\ spent[p] + timer[p] + (CloseRetries - tries[p]) * CloseTimeout
          + CloseTimeout + LingerTime <= CloseBound
  BY TeardownAssumption, Attempts DEF Schedule, TimesType, OnSchedule, Closing, Remaining
<1>3. spent[p] + CloseTimeout + LingerTime <= CloseBound
  BY <1>2, Attempts, TeardownAssumption DEF CloseBound
<1>4. SideOK(p)'
  BY <1>1, <1>2, <1>3, TeardownAssumption DEF SideOK, Closing, Remaining, CloseBound
<1>5. \A q \in Sides : q # p =>
        /\ phase'[q] = phase[q] /\ tries'[q] = tries[q]
        /\ timer'[q] = timer[q] /\ spent'[q] = spent[q]
  BY DEF AfterFin, Enter, Schedule, TimesType
<1>6. QED
  BY <1>1, <1>4, <1>5, OtherSideOK

(* Nor does leaving await_fin. *)
LEMMA EnterLingerTime ==
  ASSUME Schedule, NEW p \in Sides, phase[p] = "await", Enter(p, "linger", LingerTime),
         UNCHANGED <<role, tries, spent>>
  PROVE  Schedule'
<1>1. TimesType' /\ phase'[p] = "linger" /\ timer'[p] = LingerTime
  BY TeardownAssumption DEF Enter, Schedule, TimesType, Phases
<1>2. SideOK(p)'
  BY <1>1, TeardownAssumption
  DEF SideOK, Closing, Remaining, CloseBound, Schedule, TimesType, OnSchedule
<1>3. \A q \in Sides : q # p =>
        /\ phase'[q] = phase[q] /\ tries'[q] = tries[q]
        /\ timer'[q] = timer[q] /\ spent'[q] = spent[q]
  BY DEF Enter, Schedule, TimesType
<1>4. QED
  BY <1>1, <1>2, <1>3, OtherSideOK

(* A side that stops closing keeps what it has spent. *)
LEMMA LeaveTime ==
  ASSUME Schedule, NEW p \in Sides, NEW next \in {"listen", "over"},
         phase' = [phase EXCEPT ![p] = next], UNCHANGED <<role, tries, timer, spent>>
  PROVE  Schedule'
<1>1. TimesType' /\ phase'[p] = next
  BY DEF Schedule, TimesType, Phases
<1>2. SideOK(p)'
  BY <1>1 DEF SideOK, Closing, Schedule, OnSchedule
<1>3. \A q \in Sides : q # p => phase'[q] = phase[q]
  BY DEF Schedule, TimesType
<1>4. QED
  BY <1>1, <1>2, <1>3, OtherSideOK

(* Nothing changes for a step that leaves the clocks alone. *)
LEMMA IdleTime ==
  ASSUME Schedule, UNCHANGED <<phase, role, tries, timer, spent>>
  PROVE  Schedule'
  BY DEF Schedule, TimesType, OnSchedule, Closing, Remaining

(* Every step keeps the schedule. *)
LEMMA StepSchedule ==
  ASSUME Schedule, [Next]_vars
  PROVE  Schedule'
<1>1. ASSUME NEW p \in Sides, RecvInFin(p) PROVE Schedule'
  <2>1. phase[p] = "fin" /\ UNCHANGED <<role, tries, spent>>
        /\ (AfterFin(p, TRUE) \/ UNCHANGED <<phase, timer>>)
    BY <1>1 DEF RecvInFin
  <2>2. QED
    BY <2>1, AfterFinTime, IdleTime
<1>2. ASSUME NEW p \in Sides, FinTimeout(p) PROVE Schedule'
  <2>1. CASE AfterFin(p, FALSE) /\ UNCHANGED tries
    BY <1>2, <2>1, AfterFinTime DEF FinTimeout
  <2>2. CASE /\ ~LastAttempt(p)
             /\ tries' = [tries EXCEPT ![p] = @ + 1]
             /\ timer' = [timer EXCEPT ![p] = CloseTimeout]
             /\ UNCHANGED phase
    <3>1. phase[p] = "fin" /\ timer[p] = 0 /\ UNCHANGED <<role, spent>>
      BY <1>2 DEF FinTimeout
    <3>2. tries[p] \in 0 .. CloseRetries /\ tries[p] < CloseRetries /\ spent[p] \in Nat
      <4>1. tries[p] \in 0 .. CloseRetries /\ spent[p] \in Nat
        BY DEF Schedule, TimesType
      <4>2. QED
        BY <2>2, <4>1, TeardownAssumption DEF LastAttempt
    <3>3. /\ TimesType' /\ phase'[p] = "fin" /\ tries'[p] = tries[p] + 1
          /\ timer'[p] = CloseTimeout /\ spent'[p] = spent[p]
      BY <2>2, <3>1, <3>2, TeardownAssumption DEF Schedule, TimesType
    <3>4. spent[p] + (CloseRetries - tries[p]) * CloseTimeout + CloseTimeout + LingerTime
            <= CloseBound
      BY <3>1, <3>2, Attempts, TeardownAssumption
      DEF Schedule, OnSchedule, Closing, Remaining
    <3>5. spent[p] + (CloseTimeout + (CloseRetries - (tries[p] + 1)) * CloseTimeout
            + CloseTimeout + LingerTime) <= CloseBound
      BY <3>2, <3>4, Attempts, TeardownAssumption
    <3>6. SideOK(p)'
      BY <3>2, <3>3, <3>5, TeardownAssumption
      DEF SideOK, Closing, Remaining, CloseBound, Schedule, OnSchedule
    <3>7. \A q \in Sides : q # p => tries'[q] = tries[q] /\ timer'[q] = timer[q]
      BY <2>2 DEF Schedule, TimesType
    <3>8. QED
      BY <2>2, <3>1, <3>3, <3>6, <3>7, OtherSideOK
  <2>3. QED
    BY <1>2, <2>1, <2>2 DEF FinTimeout
<1>3. ASSUME NEW p \in Sides, RecvInAwait(p) \/ AwaitTimeout(p) PROVE Schedule'
  <2>1. phase[p] = "await" /\ UNCHANGED <<role, tries, spent>>
        /\ (Enter(p, "linger", LingerTime) \/ UNCHANGED <<phase, timer>>)
    BY <1>3 DEF RecvInAwait, AwaitTimeout
  <2>2. QED
    BY <2>1, EnterLingerTime, IdleTime
<1>4. ASSUME NEW p \in Sides, RecvInLinger(p) PROVE Schedule'
  <2>1. timer' = timer
    BY <1>4 DEF RecvInLinger, LingerLeft, Schedule, TimesType
  <2>2. QED
    BY <1>4, <2>1, IdleTime DEF RecvInLinger
<1>5. ASSUME NEW p \in Sides, LingerTimeout(p) PROVE Schedule'
  BY <1>5, LeaveTime DEF LingerTimeout, Unchanged
<1>6. CASE HangUp
  BY <1>6, StartFinTime DEF HangUp, Sides, Roles
<1>7. CASE RecvClose
  BY <1>7, StartFinTime DEF RecvClose, Sides, Roles
<1>8. CASE Interrupt
  BY <1>8, StartFinTime, LeaveTime DEF Interrupt, Unchanged, Sides, Roles
<1>9. CASE SilenceNoticed
  BY <1>9, LeaveTime DEF SilenceNoticed, Unchanged, Sides
<1>10. CASE RecvFirstLine \/ LoseLine \/ UNCHANGED vars
  BY <1>10, IdleTime DEF RecvFirstLine, LoseLine, vars
<1>11. CASE Tick
  <2>1. TimesType' /\ UNCHANGED <<phase, role, tries>>
    <3>1. UNCHANGED <<phase, role, tries>>
      BY <1>11 DEF Tick
    <3>2. /\ timer' = [p \in Sides |-> IF Closing(p) THEN timer[p] - 1 ELSE timer[p]]
          /\ spent' = [p \in Sides |-> IF Closing(p) THEN spent[p] + 1 ELSE spent[p]]
          /\ \A p \in Sides : Closing(p) => timer[p] > 0
      BY <1>11 DEF Tick
    <3>3. TimesType
      BY DEF Schedule
    <3>4. QED
      BY <3>1, <3>2, <3>3 DEF TimesType
  <2>2. ASSUME NEW p \in Sides PROVE SideOK(p)'
    <3>1. CASE ~Closing(p)
      BY <1>11, <2>1, <3>1 DEF Tick, Closing, SideOK, Schedule, OnSchedule
    <3>2. CASE Closing(p)
      <4>1. timer[p] > 0 /\ timer'[p] = timer[p] - 1 /\ spent'[p] = spent[p] + 1
        BY <1>11, <3>2 DEF Tick
      <4>2. spent[p] + Remaining(p) <= CloseBound
        BY <3>2 DEF Schedule, OnSchedule
      <4>3. /\ tries[p] \in 0 .. CloseRetries /\ timer[p] \in Nat /\ spent[p] \in Nat
            /\ (CloseRetries - tries[p]) * CloseTimeout \in Nat
        BY Attempts DEF Schedule, TimesType
      <4>4. Remaining(p)' = Remaining(p) - 1 /\ Remaining(p) \in Nat /\ Remaining(p) >= 1
        BY <2>1, <3>2, <4>1, <4>3, TeardownAssumption DEF Remaining, Closing
      <4>5. QED
        BY <2>1, <4>1, <4>2, <4>3, <4>4, TeardownAssumption, Attempts
        DEF SideOK, Closing, CloseBound, Schedule, OnSchedule
    <3>3. QED
      BY <3>1, <3>2
  <2>3. QED
    BY <2>1, <2>2 DEF Schedule, OnSchedule, SideOK
<1>12. QED
  BY <1>1, <1>2, <1>3, <1>4, <1>5, <1>6, <1>7, <1>8, <1>9, <1>10, <1>11
  DEF Next, Progress, SideStep

(* The first state is on schedule. *)
LEMMA InitSchedule == Init => Schedule
<1>1. SUFFICES ASSUME Init PROVE Schedule
  OBVIOUS
<1>2. TimesType
  <2>1. 0 \in 0 .. CloseRetries /\ 0 \in Nat
    BY TeardownAssumption
  <2>2. QED
    BY <1>1, <2>1 DEF Init, TimesType, Phases, Roles
<1>3. \A p \in Sides : phase[p] = "open" /\ spent[p] = 0
  BY <1>1 DEF Init
<1>4. CloseBound \in Nat
  BY Attempts, TeardownAssumption DEF CloseBound
<1>5. QED
  BY <1>2, <1>3, <1>4 DEF Schedule, OnSchedule, Closing

(* Teardown!EndsInTime: a side that began to close needs at most CLOSE_RETRIES *)
(* attempts, one wait and one linger, whatever the line loses: a lost CLOSE    *)
(* no longer strands it until its idle timeout.                                *)
THEOREM ClosingIsBounded == Spec => []EndsInTime
<1>1. Schedule /\ [Next]_vars => Schedule'
  BY StepSchedule
<1>2. Schedule => EndsInTime
  BY DEF Schedule, OnSchedule, EndsInTime
<1>3. QED
  BY InitSchedule, <1>1, <1>2, PTL DEF Spec

(* Teardown!TypeOK: in particular send_fin never sends more than             *)
(* CLOSE_RETRIES lines.                                                      *)
THEOREM TeardownTypes == Spec => []TypeOK
<1> DEFINE Rest == stray \in BOOLEAN /\ losses \in Nat
<1>1. Init => Answers /\ Schedule /\ Rest
  <2>1. Init => stray \in BOOLEAN
    BY Zenon DEF Init
  <2>2. Init => losses \in Nat
    <3>1. Init => losses = 0
      BY Zenon DEF Init
    <3>2. QED
      BY <3>1
  <2>3. QED
    BY <2>1, <2>2, InitSchedule, InitAnswers
<1>2. Rest /\ [Next]_vars => Rest'
  <2>1. SUFFICES ASSUME Rest, [Next]_vars PROVE Rest'
    OBVIOUS
  <2>2. CASE RecvFirstLine
    BY <2>1, <2>2 DEF RecvFirstLine
  <2>3. CASE LoseLine
    BY <2>1, <2>3 DEF LoseLine
  <2>4. ASSUME UNCHANGED <<stray, losses>> PROVE Rest'
    BY <2>1, <2>4
  <2>5. ASSUME NEW p \in Sides, SideStep(p) PROVE UNCHANGED <<stray, losses>>
    BY <2>5 DEF SideStep, RecvInFin, FinTimeout, RecvInAwait, AwaitTimeout, RecvInLinger,
                LingerTimeout, Unchanged
  <2>6. CASE HangUp \/ Interrupt \/ RecvClose \/ SilenceNoticed \/ Tick \/ UNCHANGED vars
    BY <2>4, <2>6 DEF HangUp, Interrupt, RecvClose, SilenceNoticed, Tick, Unchanged, vars
  <2>7. QED
    BY <2>1, <2>2, <2>3, <2>4, <2>5, <2>6 DEF Next, Progress
<1>3. Answers /\ Schedule /\ [Next]_vars => Answers' /\ Schedule'
  BY StepAnswers, StepSchedule
<1>4. Answers /\ Schedule /\ Rest => TypeOK
  BY DEF Answers, LinesType, Schedule, TimesType, TypeOK
<1>5. QED
  BY <1>1, <1>2, <1>3, <1>4, PTL DEF Spec

=============================================================================
