----------------------------- MODULE KeepAlive ------------------------------
(***************************************************************************)
(* The idle session: Link.recv_line with a KeepAlive, as serve_once calls  *)
(* it while it waits for a request, against InputAlive$ of PCUTP.BAS,      *)
(* which services the port while the user types.  BEACON and MARK, PING    *)
(* and PONG, AYT? and HERE, and what each side does when one or both       *)
(* directions of the cable go dead.                                        *)
(*                                                                         *)
(* Time is counted in seconds.  A line is read within Latency seconds of   *)
(* being sent; what is due is done before time passes.  Ages stop at the   *)
(* largest value the code compares them with.                              *)
(***************************************************************************)
EXTENDS Naturals, Sequences, FiniteSets

CONSTANTS
  Interval,        \* KeepAlive.interval
  Timeout,         \* KeepAlive.timeout
  Retries,         \* KeepAlive.retries
  BeaconIntervals, \* the values of KeepAlive.beacon_interval to choose from
  PicoBeacon,      \* BEACONMS of PCUTP.BAS, in seconds
  PicoTimeout,     \* KATMO of PCUTP.BAS, in seconds
  Latency,         \* bound: seconds a line may wait before it is read
  Echoes,          \* may the bridge echo what the server sends? a set of BOOLEAN
  Cuttable,        \* the directions that may go dead
  MaxLosses        \* bound: how many lines one behaviour loses

Directions == {"toU", "toP"}

ASSUME KeepAliveAssumption ==
  /\ {Interval, Timeout, Retries, PicoBeacon, PicoTimeout} \subseteq Nat \ {0}
  /\ BeaconIntervals \subseteq Nat \ {0} /\ BeaconIntervals # {}
  /\ Latency \in Nat /\ MaxLosses \in Nat
  /\ Echoes \subseteq BOOLEAN /\ Echoes # {} /\ Cuttable \subseteq Directions

None == 2      \* no probe outstanding, no beacon waiting
Bits == {0, 1}

ServerKinds == {"BEACON_U", "MARK_U", "PING", "PONG", "AYT?", "AYT-OK", "META", "ERR"}
PicoKinds   == {"BEACON_P", "MARK_P", "PONG", "HERE", "GET", "READY"}

VARIABLES
  sPhase,     \* the server: idle, get (META sent), lost, failed or over
  ages,       \* seconds since last_rx, last_ping, last_beacon, last_beacon_mark
  probe,      \* outstanding, probes_sent, beacon_waiting, marker_probes
  bits,       \* _ping_bit, _ayt_bit, _beacon_bit
  reason,     \* which path the LinkLostError names
  pPhase,     \* PCUTP.BAS: prompt, get (after GET), data (after READY), restarted
  pAges,      \* seconds since lastRx and beaconAt
  pending,    \* beaconPending
  pBit,       \* beaconBit
  toU, toP,   \* lines on their way: <<kind, bit, seconds>>
  every,      \* KeepAlive.beacon_interval
  echo,       \* the bridge echoes
  cut,        \* directions that are dead
  cutFor,     \* seconds since the first of them died
  strayHere,  \* HERE was read where send_file expects READY
  losses

serverVars == <<sPhase, ages, probe, bits, reason, strayHere>>
picoVars   == <<pPhase, pAges, pending, pBit>>
lineVars   == <<every, echo, cut, cutFor, losses>>
vars == <<serverVars, picoVars, toU, toP, lineVars>>

Least(a, b) == IF a < b THEN a ELSE b
Flip(bit) == 1 - bit
LongestWait == IF Timeout < Interval THEN Interval ELSE Timeout

-----------------------------------------------------------------------------
(* The line. *)

Sent(kind, bit) == <<kind, bit, 0>>

(* A server that reported an error discards its input. *)
ServerReading == sPhase \in {"idle", "get"}

(* The server has read until `rest` is left and sends `out`. *)
ServerSends(rest, out) ==
  /\ toP' = IF "toP" \in cut THEN toP ELSE toP \o out
  /\ toU' = IF echo THEN rest \o out ELSE rest

PicoSends(rest, out) ==
  /\ toP' = rest
  /\ toU' = IF "toU" \in cut \/ ~ServerReading THEN toU ELSE toU \o out

ServerReads(kind, bit) == toU # <<>> /\ Head(toU)[1] = kind /\ Head(toU)[2] = bit
PicoReads(kind, bit)   == toP # <<>> /\ Head(toP)[1] = kind /\ Head(toP)[2] = bit

-----------------------------------------------------------------------------
(* recv_line: what is read. *)

NoAges  == [rx |-> 0, ping |-> 0, beacon |-> 0, mark |-> 0]
NoProbe == [outstanding |-> None, sent |-> 0, waiting |-> None, marker |-> 0]

(* recv_line ends: its clocks and counters are local variables. *)
Leaves(phase) == sPhase' = phase /\ ages' = NoAges /\ probe' = NoProbe

Idle == sPhase = "idle" /\ UNCHANGED <<picoVars, lineVars, reason, strayHere>>

(* Mutant of BeaconProves: hearing the peer is taken for being heard by it. *)
BeaconIsReceipt == NoProbe
BeaconProves    == [probe EXCEPT !.sent = 0]

(* Only the peer's beacons count; they are answered with a receipt. *)
RecvBeacon(bit) ==
  /\ Idle /\ ServerReads("BEACON_P", bit)
  /\ ages' = [ages EXCEPT !.rx = 0]
  /\ probe' = BeaconProves
  /\ ServerSends(Tail(toU), <<Sent("MARK_U", bit)>>)
  /\ UNCHANGED <<sPhase, bits>>

RecvMark(bit) ==
  /\ Idle /\ ServerReads("MARK_P", bit)
  /\ IF bit = probe.waiting
     THEN /\ ages' = [ages EXCEPT !.rx = 0, !.mark = 0]
          /\ probe' = NoProbe
     ELSE /\ ages' = [ages EXCEPT !.rx = 0]
          /\ probe' = [probe EXCEPT !.sent = 0]
  /\ ServerSends(Tail(toU), <<>>)
  /\ UNCHANGED <<sPhase, bits>>

(* A PING with this side's own number is its echo. *)
FromPeer(bit) == bit # probe.outstanding

RecvPing(bit) ==
  /\ Idle /\ ServerReads("PING", bit)
  /\ IF FromPeer(bit)
     THEN /\ ages' = [ages EXCEPT !.rx = 0]
          /\ probe' = [probe EXCEPT !.sent = 0]
          /\ ServerSends(Tail(toU), <<Sent("PONG", bit)>>)
     ELSE ServerSends(Tail(toU), <<>>) /\ UNCHANGED <<ages, probe>>
  /\ UNCHANGED <<sPhase, bits>>

(* An answer to the outstanding probe proves both directions. *)
Confirmed ==
  /\ ages' = [ages EXCEPT !.rx = 0, !.mark = 0, !.beacon = 0]
  /\ bits' = [ping |-> 0, ayt |-> 0, beacon |-> 0]

RecvPong(bit) ==
  /\ Idle /\ ServerReads("PONG", bit)
  /\ IF bit = probe.outstanding
     THEN Confirmed /\ probe' = NoProbe
     ELSE UNCHANGED <<ages, bits, probe>>
  /\ ServerSends(Tail(toU), <<>>)
  /\ UNCHANGED sPhase

RecvHere(bit) ==
  /\ Idle /\ ServerReads("HERE", bit)
  /\ IF bit = probe.outstanding
     THEN /\ Confirmed /\ probe' = [NoProbe EXCEPT !.sent = probe.sent]
          /\ ServerSends(Tail(toU), <<Sent("AYT-OK", bit)>>)
     ELSE ServerSends(Tail(toU), <<>>) /\ UNCHANGED <<ages, bits, probe>>
  /\ UNCHANGED sPhase

(* The echo of a BEACON or MARK carries the wrong direction. *)
RecvOwn(bit) ==
  /\ Idle /\ (ServerReads("BEACON_U", bit) \/ ServerReads("MARK_U", bit))
  /\ ServerSends(Tail(toU), <<>>)
  /\ UNCHANGED <<sPhase, ages, probe, bits>>

(* Any other line ends the wait: GET is fetched and announced, the echo of *)
(* AYT? or AYT-OK is refused as a request.                                 *)
RecvRequest ==
  /\ Idle /\ toU # <<>>
  /\ \/ /\ Head(toU)[1] = "GET"
        /\ Leaves("get") /\ ServerSends(Tail(toU), <<Sent("META", 0)>>)
     \/ /\ Head(toU)[1] \in {"AYT?", "AYT-OK"}
        /\ Leaves("failed")
        /\ toU' = <<>> /\ toP' = IF "toP" \in cut THEN toP ELSE Append(toP, Sent("ERR", 0))
  /\ UNCHANGED bits

(* send_file waits for READY without a KeepAlive: beacons and receipts are *)
(* skipped, a PING is answered, and HERE is a reply like any other.        *)
Transparent == {"BEACON_U", "BEACON_P", "MARK_U", "MARK_P", "PING", "PONG"}

RecvReply ==
  /\ sPhase = "get" /\ toU # <<>>
  /\ LET kind == Head(toU)[1] bit == Head(toU)[2] IN
     /\ sPhase' = IF kind \in Transparent THEN "get" ELSE "over"
     /\ strayHere' = (kind = "HERE")
     /\ ServerSends(Tail(toU), IF kind = "PING" THEN <<Sent("PONG", bit)>> ELSE <<>>)
  /\ UNCHANGED <<ages, probe, bits, reason, picoVars, lineVars>>

-----------------------------------------------------------------------------
(* recv_line: what is due when nothing is read. *)

BeaconDue == probe.marker = 0 /\ probe.waiting = None /\ ages.beacon >= every

(* beacon_waiting after the first test of the pass. *)
WaitingNow == IF BeaconDue THEN bits.beacon ELSE probe.waiting
ProbeDue   == ages.ping >= Interval
Unmarked   == ProbeDue /\ WaitingNow # None /\ ages.mark >= Interval
Quiet      == ProbeDue /\ ages.rx >= Interval

(* Mutants of LastMarkerProbe: a limit that is one too low or one too high. *)
OneProbeLess    == probe.marker >= Retries
OneProbeMore    == probe.marker >= Retries + 2
LastMarkerProbe == probe.marker >= Retries + 1

(* Two PINGs, then AYT?. *)
OnePing    == probe.marker < 1                   \* mutant of PingsFirst
PingsFirst == probe.marker < 2

SameProbe == probe.marker                        \* mutant of NextProbe: never counted
NextProbe == probe.marker + 1

Beacon == IF BeaconDue THEN <<Sent("BEACON_U", bits.beacon)>> ELSE <<>>

(* No receipt for a beacon: diagnose the transmit direction. *)
Diagnose ==
  /\ Unmarked /\ ~LastMarkerProbe
  /\ LET number == IF PingsFirst THEN bits.ping ELSE bits.ayt
         kind   == IF PingsFirst THEN "PING" ELSE "AYT?"
     IN /\ probe' = [probe EXCEPT !.waiting = WaitingNow, !.outstanding = number, !.marker = NextProbe]
        /\ bits' = [ping   |-> IF PingsFirst THEN Flip(bits.ping) ELSE bits.ping,
                    ayt    |-> IF PingsFirst THEN bits.ayt ELSE Flip(bits.ayt),
                    beacon |-> IF BeaconDue THEN Flip(bits.beacon) ELSE bits.beacon]
        /\ ServerSends(toU, Beacon \o <<Sent(kind, number)>>)
  /\ ages' = [ages EXCEPT !.ping = 0, !.beacon = IF BeaconDue THEN 0 ELSE @]
  /\ UNCHANGED <<sPhase, reason>>

(* Nothing heard: probe the peer. *)
Ask ==
  /\ ~Unmarked /\ Quiet /\ probe.sent < Retries
  /\ probe' = [probe EXCEPT !.waiting = WaitingNow, !.outstanding = bits.ping, !.sent = @ + 1]
  /\ bits' = [bits EXCEPT !.ping = Flip(@), !.beacon = IF BeaconDue THEN Flip(@) ELSE @]
  /\ ServerSends(toU, Beacon \o <<Sent("PING", bits.ping)>>)
  /\ ages' = [ages EXCEPT !.ping = 0, !.beacon = IF BeaconDue THEN 0 ELSE @]
  /\ UNCHANGED <<sPhase, reason>>

BeaconOnly ==
  /\ BeaconDue /\ ~Unmarked /\ ~Quiet
  /\ probe' = [probe EXCEPT !.waiting = bits.beacon]
  /\ bits' = [bits EXCEPT !.beacon = Flip(@)]
  /\ ServerSends(toU, Beacon)
  /\ ages' = [ages EXCEPT !.beacon = 0]
  /\ UNCHANGED <<sPhase, reason>>

(* LinkLostError. *)
TxLost == Unmarked /\ LastMarkerProbe
RxLost == /\ ~Unmarked /\ ProbeDue /\ probe.sent >= Retries
          /\ ages.rx >= Timeout \/ ages.rx >= Interval

GiveUp ==
  /\ TxLost \/ RxLost
  /\ Leaves("lost")
  /\ reason' = IF TxLost THEN "tx" ELSE "rx"
  /\ toU' = <<>> /\ toP' = IF "toP" \in cut THEN toP ELSE toP \o Beacon
  /\ UNCHANGED bits

PassDue == BeaconDue \/ Unmarked \/ Quiet \/ RxLost

IdlePass ==
  /\ sPhase = "idle"
  /\ Diagnose \/ Ask \/ BeaconOnly \/ GiveUp
  /\ UNCHANGED <<strayHere, picoVars, lineVars>>

-----------------------------------------------------------------------------
(* PCUTP.BAS: InputAlive$, and RecvLine$ once GET was sent. *)

PicoRuns == pPhase \in {"prompt", "get", "data"}
PicoAnswers == PicoRuns /\ pAges' = [pAges EXCEPT !.rx = 0] /\ UNCHANGED <<serverVars, lineVars>>

Answer(kind, bit) ==
  IF kind = "PING" THEN <<Sent("PONG", bit)>>
  ELSE IF kind = "AYT?" THEN <<Sent("HERE", bit)>>
  ELSE IF kind = "BEACON_U" THEN <<Sent("MARK_P", bit)>>
  ELSE <<>>

PicoRecv ==
  /\ PicoAnswers /\ toP # <<>>
  /\ LET kind == Head(toP)[1] bit == Head(toP)[2] IN
     /\ kind # "META" \/ pPhase # "get"
     /\ PicoSends(Tail(toP), Answer(kind, bit))
     /\ pending' = IF kind = "MARK_U" /\ bit = pending THEN None ELSE pending
  /\ UNCHANGED <<pPhase, pBit>>

PicoRecvMeta ==
  /\ PicoAnswers /\ pPhase = "get" /\ PicoReads("META", 0)
  /\ pPhase' = "data"
  /\ PicoSends(Tail(toP), <<Sent("READY", 0)>>)
  /\ UNCHANGED <<pending, pBit>>

PicoBeaconDue == pPhase = "prompt" /\ pending = None /\ pAges.beacon >= PicoBeacon

SendPicoBeacon ==
  /\ PicoBeaconDue
  /\ pending' = pBit /\ pBit' = Flip(pBit)
  /\ pAges' = [pAges EXCEPT !.beacon = 0]
  /\ PicoSends(toP, <<Sent("BEACON_P", pBit)>>)
  /\ UNCHANGED <<pPhase, serverVars, lineVars>>

(* The user has typed a URL and a name. *)
Enter ==
  /\ pPhase = "prompt" /\ pPhase' = "get"
  /\ PicoSends(toP, <<Sent("GET", 0)>>)
  /\ UNCHANGED <<pAges, pending, pBit, serverVars, lineVars>>

PicoLost == PicoRuns /\ pAges.rx >= PicoTimeout

(* "Link lost": the program starts again. *)
PicoRestart ==
  /\ PicoLost
  /\ pPhase' = "restarted" /\ pAges' = [rx |-> 0, beacon |-> 0] /\ pending' = None /\ pBit' = 0
  /\ UNCHANGED <<serverVars, toU, toP, lineVars>>

-----------------------------------------------------------------------------
(* The world. *)

Older(lines) ==
  [i \in 1 .. Len(lines) |-> <<lines[i][1], lines[i][2], Least(lines[i][3] + 1, Latency)>>]
MayWait(lines) == \A i \in 1 .. Len(lines) : lines[i][3] < Latency

(* The longest the server and the program may take to notice. *)
ServerBound == (IF every < Interval THEN 0 ELSE every) + (Retries + 2) * Interval + Latency
PicoBound   == ServerBound - Interval + Latency + PicoTimeout

Tick ==
  /\ sPhase = "idle" \/ pPhase = "prompt"
  /\ ServerReading => MayWait(toU)
  /\ PicoRuns => MayWait(toP) /\ ~PicoLost
  /\ sPhase = "idle" => ~PassDue
  /\ ~PicoBeaconDue
  /\ ages' = IF sPhase # "idle" THEN ages ELSE
       [rx     |-> Least(ages.rx + 1, LongestWait),
        ping   |-> Least(ages.ping + 1, Interval),
        beacon |-> Least(ages.beacon + 1, every),
        mark   |-> Least(ages.mark + 1, Interval)]
  /\ pAges' = IF ~PicoRuns THEN pAges ELSE
       [rx |-> Least(pAges.rx + 1, PicoTimeout), beacon |-> Least(pAges.beacon + 1, PicoBeacon)]
  /\ toU' = Older(toU) /\ toP' = Older(toP)
  /\ cutFor' = IF cut = {} THEN 0 ELSE Least(cutFor + 1, PicoBound + 1)
  /\ UNCHANGED <<sPhase, probe, bits, reason, strayHere, pPhase, pending, pBit, every, echo, cut, losses>>

BothIdle == sPhase = "idle" /\ pPhase = "prompt"

Cut(d) ==
  /\ BothIdle /\ losses = 0 /\ d \in Cuttable \ cut /\ cut' = cut \union {d}
  /\ toU' = IF d = "toU" THEN <<>> ELSE toU
  /\ toP' = IF d = "toP" THEN <<>> ELSE toP
  /\ UNCHANGED <<serverVars, picoVars, every, echo, cutFor, losses>>

LoseLine ==
  /\ BothIdle /\ cut = {} /\ ~echo /\ losses < MaxLosses /\ losses' = losses + 1
  /\ \/ toU # <<>> /\ toU' = Tail(toU) /\ UNCHANGED toP
     \/ toP # <<>> /\ toP' = Tail(toP) /\ UNCHANGED toU
  /\ UNCHANGED <<serverVars, picoVars, every, echo, cut, cutFor>>

-----------------------------------------------------------------------------
Init ==
  /\ sPhase = "idle" /\ ages = NoAges /\ probe = NoProbe
  /\ bits = [ping |-> 0, ayt |-> 0, beacon |-> 0] /\ reason = "none" /\ strayHere = FALSE
  /\ pPhase = "prompt" /\ pAges = [rx |-> 0, beacon |-> 0] /\ pending = None /\ pBit = 0
  /\ toU = <<>> /\ toP = <<>> /\ every \in BeaconIntervals /\ echo \in Echoes
  /\ cut = {} /\ cutFor = 0 /\ losses = 0

ServerStep ==
  \/ \E bit \in Bits : \/ RecvBeacon(bit) \/ RecvMark(bit) \/ RecvPing(bit)
                       \/ RecvPong(bit) \/ RecvHere(bit) \/ RecvOwn(bit)
  \/ RecvRequest \/ RecvReply \/ IdlePass

PicoStep == PicoRecv \/ PicoRecvMeta \/ SendPicoBeacon \/ PicoRestart

Next == ServerStep \/ PicoStep \/ Enter \/ Tick \/ LoseLine \/ \E d \in Directions : Cut(d)

Spec == Init /\ [][Next]_vars

FairSpec == Spec /\ WF_vars(ServerStep) /\ WF_vars(PicoStep) /\ WF_vars(Tick)

-----------------------------------------------------------------------------
(* Properties. *)

(* Every variable has its type: no counter passes its limit, numbers have one *)
(* bit, and no line waits longer than Latency.                                *)
TypeOK ==
  /\ sPhase \in {"idle", "get", "lost", "failed", "over"}
  /\ ages \in [rx : 0 .. LongestWait, ping : 0 .. Interval, beacon : 0 .. every, mark : 0 .. Interval]
  /\ probe \in [outstanding : Bits \union {None}, sent : 0 .. Retries,
                waiting : Bits \union {None}, marker : 0 .. Retries + 1]
  /\ bits \in [ping : Bits, ayt : Bits, beacon : Bits]
  /\ reason \in {"none", "tx", "rx"} /\ strayHere \in BOOLEAN
  /\ pPhase \in {"prompt", "get", "data", "restarted"}
  /\ pAges \in [rx : 0 .. PicoTimeout, beacon : 0 .. PicoBeacon]
  /\ pending \in Bits \union {None} /\ pBit \in Bits
  /\ toU \in Seq((ServerKinds \union PicoKinds) \X Bits \X (0 .. Latency))
  /\ toP \in Seq(ServerKinds \X Bits \X (0 .. Latency))
  /\ every \in BeaconIntervals /\ echo \in Echoes /\ cut \subseteq Cuttable /\ cutFor \in 0 .. PicoBound + 1
  /\ losses \in 0 .. MaxLosses

(* The lines a session may lose before it is given up: a beacon, two PINGs   *)
(* and two AYT? when beacons come faster than probes, else its probes.       *)
Tolerated == IF every < Interval THEN Retries + 1 ELSE Retries

(* A link that works in both directions is never declared lost, by the idle   *)
(* loop of recv_line or by InputAlive$, for a few lost or slow lines.         *)
LiveLinkKept ==
  sPhase = "lost" \/ (pPhase = "restarted" /\ sPhase = "idle") => cut # {} \/ losses > Tolerated

(* When either direction dies, or both, the server leaves the idle loop       *)
(* within ServerBound seconds and the program its prompt within PicoBound,    *)
(* whatever still arrives from the living direction or as an echo.            *)
DeadLinkFound ==
  /\ sPhase = "idle" => cutFor <= ServerBound
  /\ pPhase = "prompt" => cutFor <= PicoBound

(* An answer to the idle diagnosis is read in place of READY only when three  *)
(* lines were lost before the request: until then no AYT? is sent.            *)
GetSurvives == strayHere => losses >= 3

(* "TX path failed" is reported only when what the server sends is not heard. *)
BlameIsRight == reason = "tx" => "toP" \in cut

(* A dead direction does not leave the server waiting for ever. *)
DeadLinkEnds == (cut # {}) ~> (sPhase # "idle")

=============================================================================
