-------------------------- MODULE KeepAliveProofs ---------------------------
(***************************************************************************)
(* Theorems about the idle session of KeepAlive, for every choice of the   *)
(* intervals, the timeouts, the number of probes and the losses: types,    *)
(* that no answer to the idle diagnosis is read as the reply to META       *)
(* before three lines were lost, that a dead direction is found in time by *)
(* both sides, and that a link that works is not declared lost for a few   *)
(* lost or slow lines.                                                     *)
(***************************************************************************)
EXTENDS KeepAlive, SequenceTheorems, TLAPS

ToULine == (ServerKinds \union PicoKinds) \X Bits \X (0 .. Latency)
ToPLine == ServerKinds \X Bits \X (0 .. Latency)

-----------------------------------------------------------------------------
(* Numbers and lines. *)

LEMMA Constants ==
  /\ Interval \in Nat \ {0} /\ Timeout \in Nat \ {0} /\ Retries \in Nat \ {0}
  /\ PicoBeacon \in Nat \ {0} /\ PicoTimeout \in Nat \ {0} /\ Latency \in Nat /\ MaxLosses \in Nat
  /\ \A e \in BeaconIntervals : e \in Nat \ {0}
  BY KeepAliveAssumption

LEMMA LeastType ==
  /\ \A a, n \in Nat : Least(a, n) \in 0 .. n /\ Least(a, n) <= a
  /\ \A a, n \in Nat : a <= n => Least(a, n) = a
  BY DEF Least

LEMMA FlipType == \A bit \in Bits : Flip(bit) \in Bits
  BY DEF Bits, Flip

LEMMA SentTypes ==
  ASSUME NEW bit \in Bits
  PROVE  /\ \A kind \in ServerKinds : Sent(kind, bit) \in ToPLine
         /\ \A kind \in PicoKinds : Sent(kind, bit) \in ToULine
  BY Constants DEF Sent, ToPLine, ToULine

(* Bytes one way, bytes the other. *)
LEMMA LinesType ==
  /\ \A s, t \in Seq(ToULine) : s \o t \in Seq(ToULine)
  /\ \A s, t \in Seq(ToPLine) : s \o t \in Seq(ToPLine)
  /\ \A s \in Seq(ToPLine) : s \in Seq(ToULine)
  /\ \A s \in Seq(ToULine) : s # <<>> => Tail(s) \in Seq(ToULine) /\ Head(s) \in ToULine
  /\ \A s \in Seq(ToPLine) : s # <<>> => Tail(s) \in Seq(ToPLine) /\ Head(s) \in ToPLine
<1>1. ToPLine \subseteq ToULine
  BY DEF ToPLine, ToULine
<1>2. QED
  BY <1>1, ConcatProperties, HeadTailProperties

LEMMA Regrouped == \A s, t, u \in Seq(ToULine) : (s \o t) \o u = s \o (t \o u)
<1>1. TAKE s, t, u \in Seq(ToULine)
<1>2. QED
  BY ConcatAssociative, SMTT(30)

LEMMA OnlyLine ==
  /\ \A q \in ToULine : <<q>> \in Seq(ToULine)
  /\ \A q \in ToPLine : <<q>> \in Seq(ToPLine)
  /\ <<>> \in Seq(ToPLine) /\ <<>> \in Seq(ToULine)
  OBVIOUS

LEMMA OlderType ==
  /\ \A s \in Seq(ToULine) : Older(s) \in Seq(ToULine)
  /\ \A s \in Seq(ToPLine) : Older(s) \in Seq(ToPLine)
<1>1. ASSUME NEW K, NEW s \in Seq(K \X Bits \X (0 .. Latency))
      PROVE  Older(s) \in Seq(K \X Bits \X (0 .. Latency))
  <2>1. Len(s) \in Nat /\ \A i \in 1 .. Len(s) : s[i] \in K \X Bits \X (0 .. Latency)
    BY <1>1, LenProperties, ElementOfSeq
  <2>2. ASSUME NEW i \in 1 .. Len(s)
        PROVE  <<s[i][1], s[i][2], Least(s[i][3] + 1, Latency)>> \in K \X Bits \X (0 .. Latency)
    <3>1. s[i][1] \in K /\ s[i][2] \in Bits /\ s[i][3] \in 0 .. Latency
      BY <2>1
    <3>2. Least(s[i][3] + 1, Latency) \in 0 .. Latency
      <4>1. s[i][3] + 1 \in Nat /\ Latency \in Nat
        BY <3>1, Constants
      <4>2. QED
        BY <4>1, LeastType
    <3>3. QED
      BY <3>1, <3>2
  <2>3. QED
    BY <2>1, <2>2 DEF Older
<1>2. QED
  BY <1>1 DEF ToULine, ToPLine

-----------------------------------------------------------------------------
(* Types. *)

ServerOK ==
  /\ sPhase \in {"idle", "get", "lost", "failed", "over"}
  /\ ages \in [rx : 0 .. LongestWait, ping : 0 .. Interval, beacon : 0 .. every, mark : 0 .. Interval]
  /\ probe \in [outstanding : Bits \union {None}, sent : 0 .. Retries,
                waiting : Bits \union {None}, marker : 0 .. Retries + 1]
  /\ bits \in [ping : Bits, ayt : Bits, beacon : Bits]
  /\ reason \in {"none", "tx", "rx"} /\ strayHere \in BOOLEAN
PicoOK ==
  /\ pPhase \in {"prompt", "get", "data", "restarted"}
  /\ pAges \in [rx : 0 .. PicoTimeout, beacon : 0 .. PicoBeacon]
  /\ pending \in Bits \union {None} /\ pBit \in Bits
ChannelsOK == toU \in Seq(ToULine) /\ toP \in Seq(ToPLine)
WorldOK ==
  /\ every \in BeaconIntervals /\ echo \in Echoes /\ cut \subseteq Cuttable
  /\ cutFor \in 0 .. PicoBound + 1 /\ losses \in 0 .. MaxLosses

LEMMA TypeParts == TypeOK <=> ServerOK /\ PicoOK /\ ChannelsOK /\ WorldOK
  BY DEF TypeOK, ServerOK, PicoOK, ChannelsOK, WorldOK, ToULine, ToPLine

LEMMA Bounds ==
  ASSUME every \in BeaconIntervals
  PROVE  /\ LongestWait \in Nat \ {0} /\ Interval <= LongestWait /\ Timeout <= LongestWait
         /\ every \in Nat \ {0} /\ ServerBound \in Nat /\ PicoBound \in Nat
<1>1. (Retries + 2) * Interval >= Interval /\ (Retries + 2) * Interval \in Nat
  <2>1. \A r, i \in Nat : (r + 2) * i >= i /\ (r + 2) * i \in Nat
    OBVIOUS
  <2>2. QED
    BY <2>1, Constants
<1>2. /\ LongestWait \in Nat \ {0} /\ Interval <= LongestWait /\ Timeout <= LongestWait
      /\ every \in Nat \ {0}
  BY Constants DEF LongestWait
<1>3. ServerBound \in Nat /\ ServerBound >= Interval
  <2> DEFINE probing == (Retries + 2) * Interval
  <2>1. probing \in Nat /\ probing >= Interval
    BY <1>1
  <2>2. ServerBound = (IF every < Interval THEN 0 ELSE every) + probing + Latency
    BY DEF ServerBound
  <2> HIDE DEF probing
  <2>3. QED
    BY <1>2, <2>1, <2>2, Constants
<1>4. QED
  BY <1>2, <1>3, Constants DEF PicoBound

LEMMA ServerSendsType ==
  ASSUME ChannelsOK, NEW rest \in Seq(ToULine), NEW out \in Seq(ToPLine), ServerSends(rest, out)
  PROVE  ChannelsOK'
  BY LinesType DEF ChannelsOK, ServerSends

LEMMA PicoSendsType ==
  ASSUME ChannelsOK, NEW rest \in Seq(ToPLine), NEW out \in Seq(ToULine), PicoSends(rest, out)
  PROVE  ChannelsOK'
  BY LinesType DEF ChannelsOK, PicoSends

LEMMA FreshTypes ==
  ASSUME ServerOK, every \in BeaconIntervals
  PROVE  /\ NoAges \in [rx : 0 .. LongestWait, ping : 0 .. Interval, beacon : 0 .. every, mark : 0 .. Interval]
         /\ NoProbe \in [outstanding : Bits \union {None}, sent : 0 .. Retries,
                         waiting : Bits \union {None}, marker : 0 .. Retries + 1]
  BY Constants, Bounds DEF NoAges, NoProbe

(* What recv_line reads. *)
LEMMA ServerReadsType ==
  ASSUME TypeOK,
         \/ \E bit \in Bits : \/ RecvBeacon(bit) \/ RecvMark(bit) \/ RecvPing(bit)
                              \/ RecvPong(bit) \/ RecvHere(bit) \/ RecvOwn(bit)
         \/ RecvRequest
  PROVE  TypeOK'
<1>1. ServerOK /\ PicoOK /\ ChannelsOK /\ WorldOK /\ every \in BeaconIntervals
  BY TypeParts DEF WorldOK
<1>2. Idle /\ PicoOK' /\ WorldOK' /\ UNCHANGED <<every, reason, strayHere>>
  BY <1>1 DEF RecvBeacon, RecvMark, RecvPing, RecvPong, RecvHere, RecvOwn, RecvRequest, Idle,
              picoVars, lineVars, PicoOK, WorldOK, PicoBound, ServerBound
<1>3. toU # <<>> => Tail(toU) \in Seq(ToULine)
  BY <1>1, LinesType DEF ChannelsOK
<1>4. /\ LongestWait \in Nat /\ every \in Nat /\ Interval \in Nat /\ Retries \in Nat
  BY <1>1, Bounds, Constants
<1>5. CASE \E bit \in Bits : \/ RecvBeacon(bit) \/ RecvMark(bit) \/ RecvPing(bit)
                             \/ RecvPong(bit) \/ RecvHere(bit) \/ RecvOwn(bit)
  <2>1. PICK bit \in Bits : \/ RecvBeacon(bit) \/ RecvMark(bit) \/ RecvPing(bit)
                            \/ RecvPong(bit) \/ RecvHere(bit) \/ RecvOwn(bit)
    BY <1>5
  <2>2. toU # <<>> /\ \E out \in Seq(ToPLine) : ServerSends(Tail(toU), out)
    <3>1. \A kind \in ServerKinds : <<Sent(kind, bit)>> \in Seq(ToPLine)
      BY SentTypes, OnlyLine
    <3>2. <<>> \in Seq(ToPLine) /\ {"MARK_U", "PONG", "AYT-OK"} \subseteq ServerKinds
      BY OnlyLine DEF ServerKinds
    <3>3. CASE RecvBeacon(bit)
      BY <3>1, <3>2, <3>3 DEF RecvBeacon, ServerReads
    <3>4. CASE RecvPing(bit)
      BY <3>1, <3>2, <3>4 DEF RecvPing, ServerReads
    <3>5. CASE RecvHere(bit)
      BY <3>1, <3>2, <3>5 DEF RecvHere, ServerReads
    <3>6. CASE RecvMark(bit) \/ RecvPong(bit) \/ RecvOwn(bit)
      BY <3>2, <3>6 DEF RecvMark, RecvPong, RecvOwn, ServerReads
    <3>7. QED
      BY <2>1, <3>3, <3>4, <3>5, <3>6
  <2>3. ChannelsOK'
    BY <1>1, <1>3, <2>2, ServerSendsType
  <2>4. ServerOK'
    <3>1. /\ LongestWait' = LongestWait /\ 0 \in 0 .. LongestWait /\ 0 \in 0 .. every
          /\ 0 \in 0 .. Interval /\ 0 \in 0 .. Retries /\ 0 \in 0 .. Retries + 1 /\ 0 \in Bits
      BY <1>4 DEF LongestWait, Bits
    <3>2. \/ UNCHANGED ages \/ ages' = [ages EXCEPT !.rx = 0]
          \/ ages' = [ages EXCEPT !.rx = 0, !.mark = 0]
          \/ ages' = [ages EXCEPT !.rx = 0, !.mark = 0, !.beacon = 0]
      BY <2>1 DEF RecvBeacon, RecvMark, RecvPing, RecvPong, RecvHere, RecvOwn, Confirmed
    <3>3. \/ UNCHANGED probe \/ probe' = [probe EXCEPT !.sent = 0] \/ probe' = NoProbe
          \/ probe' = [NoProbe EXCEPT !.sent = probe.sent]
      BY <2>1 DEF RecvBeacon, RecvMark, RecvPing, RecvPong, RecvHere, RecvOwn, BeaconProves
    <3>4. /\ UNCHANGED sPhase
          /\ UNCHANGED bits \/ bits' = [ping |-> 0, ayt |-> 0, beacon |-> 0]
      BY <2>1 DEF RecvBeacon, RecvMark, RecvPing, RecvPong, RecvHere, RecvOwn, Confirmed
    <3>5. ages' \in [rx : 0 .. LongestWait, ping : 0 .. Interval, beacon : 0 .. every, mark : 0 .. Interval]
      <4>1. ages \in [rx : 0 .. LongestWait, ping : 0 .. Interval, beacon : 0 .. every, mark : 0 .. Interval]
        BY <1>1 DEF ServerOK
      <4>2. CASE UNCHANGED ages
        BY <4>1, <4>2
      <4>3. CASE ages' = [ages EXCEPT !.rx = 0]
        BY <3>1, <4>1, <4>3
      <4>4. CASE ages' = [ages EXCEPT !.rx = 0, !.mark = 0]
        BY <3>1, <4>1, <4>4
      <4>5. CASE ages' = [ages EXCEPT !.rx = 0, !.mark = 0, !.beacon = 0]
        BY <3>1, <4>1, <4>5
      <4>6. QED
        BY <3>2, <4>2, <4>3, <4>4, <4>5
    <3>6. probe' \in [outstanding : Bits \union {None}, sent : 0 .. Retries,
                      waiting : Bits \union {None}, marker : 0 .. Retries + 1]
      BY <1>1, <3>1, <3>3 DEF ServerOK, NoProbe
    <3>7. QED
      BY <1>1, <1>2, <3>1, <3>4, <3>5, <3>6 DEF ServerOK
  <2>5. QED
    BY <1>2, <2>3, <2>4 DEF TypeOK, ServerOK, PicoOK, ChannelsOK, WorldOK, ToULine, ToPLine
<1>6. CASE RecvRequest
  <2>1. ChannelsOK'
    <3>1. \A kind \in {"META", "ERR"} : <<Sent(kind, 0)>> \in Seq(ToPLine)
      BY SentTypes, OnlyLine DEF ServerKinds, Bits
    <3>2. CASE ServerSends(Tail(toU), <<Sent("META", 0)>>) /\ toU # <<>>
      BY <1>1, <1>3, <3>1, <3>2, ServerSendsType
    <3>3. CASE toU' = <<>> /\ toP' = IF "toP" \in cut THEN toP ELSE Append(toP, Sent("ERR", 0))
      <4>1. Sent("ERR", 0) \in ToPLine
        BY SentTypes DEF ServerKinds, Bits
      <4>2. QED
        BY <1>1, <3>3, <4>1, AppendProperties DEF ChannelsOK
    <3>4. QED
      BY <1>6, <3>2, <3>3 DEF RecvRequest
  <2>2. ServerOK'
    BY <1>1, <1>2, <1>6, FreshTypes DEF RecvRequest, Leaves, ServerOK, LongestWait
  <2>3. QED
    BY <1>2, <2>1, <2>2 DEF TypeOK, ServerOK, PicoOK, ChannelsOK, WorldOK, ToULine, ToPLine
<1>7. QED
  BY <1>5, <1>6

(* send_file's wait for READY. *)
LEMMA ReplyType ==
  ASSUME TypeOK, RecvReply
  PROVE  TypeOK'
<1>1. ServerOK /\ PicoOK /\ ChannelsOK /\ WorldOK
  BY TypeParts
<1>2. /\ UNCHANGED <<ages, probe, bits, reason, picoVars, lineVars>>
      /\ toU # <<>> /\ sPhase' \in {"get", "over"} /\ strayHere' \in BOOLEAN
  BY DEF RecvReply
<1>3. Tail(toU) \in Seq(ToULine) /\ Head(toU)[2] \in Bits
  BY <1>1, <1>2, LinesType DEF ChannelsOK, ToULine
<1>4. \E out \in Seq(ToPLine) : ServerSends(Tail(toU), out)
  <2>1. <<Sent("PONG", Head(toU)[2])>> \in Seq(ToPLine) /\ <<>> \in Seq(ToPLine)
    BY <1>3, SentTypes, OnlyLine DEF ServerKinds
  <2>2. QED
    BY <2>1 DEF RecvReply
<1>5. ChannelsOK'
  BY <1>1, <1>3, <1>4, ServerSendsType
<1>6. ServerOK' /\ PicoOK' /\ WorldOK'
  BY <1>1, <1>2 DEF ServerOK, PicoOK, WorldOK, picoVars, lineVars, LongestWait, PicoBound, ServerBound
<1>7. QED
  BY <1>5, <1>6 DEF TypeOK, ServerOK, PicoOK, ChannelsOK, WorldOK, ToULine, ToPLine

(* What recv_line does when nothing is read. *)
LEMMA PassType ==
  ASSUME TypeOK, IdlePass
  PROVE  TypeOK'
<1>1. ServerOK /\ PicoOK /\ ChannelsOK /\ WorldOK
  BY TypeParts
<1>2. UNCHANGED <<strayHere, picoVars, lineVars>> /\ sPhase = "idle"
  BY DEF IdlePass
<1>3. /\ LongestWait \in Nat /\ every \in Nat /\ Interval \in Nat /\ Retries \in Nat
  BY <1>1, Bounds, Constants DEF WorldOK
<1>4. /\ bits.ping \in Bits /\ bits.ayt \in Bits /\ bits.beacon \in Bits
      /\ Flip(bits.ping) \in Bits /\ Flip(bits.ayt) \in Bits /\ Flip(bits.beacon) \in Bits
  BY <1>1, FlipType DEF ServerOK
<1>5. Beacon \in Seq(ToPLine) /\ WaitingNow \in Bits \union {None}
  <2>1. <<Sent("BEACON_U", bits.beacon)>> \in Seq(ToPLine) /\ <<>> \in Seq(ToPLine)
    BY <1>4, SentTypes, OnlyLine DEF ServerKinds
  <2>2. QED
    BY <1>1, <1>4, <2>1 DEF Beacon, WaitingNow, ServerOK
<1>6. ages.ping \in 0 .. Interval /\ [ages EXCEPT !.ping = 0, !.beacon = IF BeaconDue THEN 0 ELSE @]
        \in [rx : 0 .. LongestWait, ping : 0 .. Interval, beacon : 0 .. every, mark : 0 .. Interval]
  <2>1. /\ ages \in [rx : 0 .. LongestWait, ping : 0 .. Interval, beacon : 0 .. every, mark : 0 .. Interval]
        /\ 0 \in 0 .. Interval /\ 0 \in 0 .. every
    BY <1>1, <1>3 DEF ServerOK
  <2>2. CASE BeaconDue
    BY <2>1, <2>2
  <2>3. CASE ~BeaconDue
    BY <2>1, <2>3
  <2>4. QED
    BY <2>2, <2>3
<1>7. UNCHANGED <<strayHere, every>> /\ LongestWait' = LongestWait
  BY <1>2 DEF lineVars, LongestWait
<1>8. PicoOK' /\ WorldOK'
  BY <1>1, <1>2 DEF PicoOK, WorldOK, picoVars, lineVars, PicoBound, ServerBound
<1>9. CASE Diagnose
  <2>1. probe.marker \in 0 .. Retries + 1 /\ ~(probe.marker >= Retries + 1)
    BY <1>1, <1>9 DEF Diagnose, LastMarkerProbe, ServerOK
  <2>2. NextProbe \in 0 .. Retries + 1
    BY <1>3, <2>1 DEF NextProbe
  <2>3. PICK kind \in {"PING", "AYT?"}, number \in Bits :
          /\ ServerSends(toU, Beacon \o <<Sent(kind, number)>>)
          /\ probe' = [probe EXCEPT !.waiting = WaitingNow, !.outstanding = number, !.marker = NextProbe]
    BY <1>4, <1>9, Zenon DEF Diagnose
  <2>4. Beacon \o <<Sent(kind, number)>> \in Seq(ToPLine)
    <3>1. <<Sent(kind, number)>> \in Seq(ToPLine)
      BY SentTypes, OnlyLine DEF ServerKinds
    <3>2. QED
      BY <1>5, <3>1, LinesType
  <2>5. ChannelsOK'
    BY <1>1, <2>3, <2>4, ServerSendsType DEF ChannelsOK
  <2>6. bits' \in [ping : Bits, ayt : Bits, beacon : Bits]
    <3>1. /\ bits' = [ping   |-> IF PingsFirst THEN Flip(bits.ping) ELSE bits.ping,
                      ayt    |-> IF PingsFirst THEN bits.ayt ELSE Flip(bits.ayt),
                      beacon |-> IF BeaconDue THEN Flip(bits.beacon) ELSE bits.beacon]
      BY <1>9 DEF Diagnose
    <3>2. QED
      BY <1>4, <3>1
  <2>7. probe' \in [outstanding : Bits \union {None}, sent : 0 .. Retries,
                    waiting : Bits \union {None}, marker : 0 .. Retries + 1]
    BY <1>1, <1>5, <2>2, <2>3 DEF ServerOK
  <2>8. UNCHANGED <<sPhase, reason>> /\ ages' = [ages EXCEPT !.ping = 0, !.beacon = IF BeaconDue THEN 0 ELSE @]
    BY <1>9 DEF Diagnose
  <2>9. ServerOK'
    BY <1>1, <1>6, <1>7, <2>6, <2>7, <2>8 DEF ServerOK
  <2>10. QED
    BY <1>8, <2>5, <2>9 DEF TypeOK, ServerOK, PicoOK, ChannelsOK, WorldOK, ToULine, ToPLine
<1>10. CASE Ask
  <2>1. probe.sent + 1 \in 0 .. Retries
    BY <1>1, <1>3, <1>10 DEF Ask, ServerOK
  <2>2. ChannelsOK'
    <3>1. <<Sent("PING", bits.ping)>> \in Seq(ToPLine)
      BY <1>4, SentTypes, OnlyLine DEF ServerKinds
    <3>2. Beacon \o <<Sent("PING", bits.ping)>> \in Seq(ToPLine)
      BY <1>5, <3>1, LinesType
    <3>3. QED
      BY <1>1, <1>10, <3>2, ServerSendsType DEF Ask, ChannelsOK
  <2>3. ServerOK'
    BY <1>1, <1>4, <1>5, <1>6, <1>7, <1>10, <2>1 DEF Ask, ServerOK
  <2>4. QED
    BY <1>8, <2>2, <2>3 DEF TypeOK, ServerOK, PicoOK, ChannelsOK, WorldOK, ToULine, ToPLine
<1>11. CASE BeaconOnly
  <2>1. ChannelsOK'
    BY <1>1, <1>5, <1>11, ServerSendsType DEF BeaconOnly, ChannelsOK
  <2>2. ServerOK'
    BY <1>1, <1>3, <1>4, <1>7, <1>11 DEF BeaconOnly, ServerOK
  <2>3. QED
    BY <1>8, <2>1, <2>2 DEF TypeOK, ServerOK, PicoOK, ChannelsOK, WorldOK, ToULine, ToPLine
<1>12. CASE GiveUp
  <2>1. ChannelsOK'
    BY <1>1, <1>5, <1>12, LinesType, OnlyLine DEF GiveUp, ChannelsOK
  <2>2. NoAges \in [rx : 0 .. LongestWait, ping : 0 .. Interval, beacon : 0 .. every, mark : 0 .. Interval]
        /\ NoProbe \in [outstanding : Bits \union {None}, sent : 0 .. Retries,
                        waiting : Bits \union {None}, marker : 0 .. Retries + 1]
    BY <1>1, FreshTypes DEF WorldOK
  <2>3. ServerOK'
    BY <1>1, <1>7, <1>12, <2>2 DEF GiveUp, Leaves, ServerOK
  <2>4. QED
    BY <1>8, <2>1, <2>3 DEF TypeOK, ServerOK, PicoOK, ChannelsOK, WorldOK, ToULine, ToPLine
<1>13. QED
  BY <1>9, <1>10, <1>11, <1>12 DEF IdlePass

(* The program on the PicoCalc, its user, and the line. *)
LEMMA PicoType ==
  ASSUME TypeOK, PicoStep \/ Enter
  PROVE  TypeOK'
<1>1. ServerOK /\ PicoOK /\ ChannelsOK /\ WorldOK
  BY TypeParts
<1>2. UNCHANGED <<serverVars, lineVars>>
  BY DEF PicoStep, Enter, PicoRecv, PicoRecvMeta, SendPicoBeacon, PicoRestart, PicoAnswers
<1>3. ServerOK' /\ WorldOK'
  BY <1>1, <1>2 DEF ServerOK, WorldOK, serverVars, lineVars, LongestWait, PicoBound, ServerBound
<1>4. /\ toP \in Seq(ToPLine) /\ <<>> \in Seq(ToULine)
      /\ toP # <<>> => Tail(toP) \in Seq(ToPLine) /\ Head(toP)[2] \in Bits
  BY <1>1, LinesType, OnlyLine DEF ChannelsOK, ToPLine
<1>5. /\ \A bit \in Bits : \A kind \in PicoKinds : <<Sent(kind, bit)>> \in Seq(ToULine)
      /\ {"PONG", "HERE", "MARK_P", "READY", "BEACON_P", "GET"} \subseteq PicoKinds /\ 0 \in Bits
  BY SentTypes, OnlyLine DEF PicoKinds, Bits
<1>6. PicoTimeout \in Nat /\ PicoBeacon \in Nat
  BY Constants
<1>7. \/ PicoRestart \/ \E rest \in Seq(ToPLine), out \in Seq(ToULine) : PicoSends(rest, out)
  <2>1. CASE PicoRecv
    <3>1. \E out \in Seq(ToULine) : PicoSends(Tail(toP), out)
      BY <1>4, <1>5, <2>1 DEF PicoRecv, Answer
    <3>2. QED
      BY <1>4, <2>1, <3>1 DEF PicoRecv
  <2>2. CASE PicoRecvMeta
    <3>1. PicoSends(Tail(toP), <<Sent("READY", 0)>>) /\ toP # <<>>
      BY <2>2 DEF PicoRecvMeta, PicoReads
    <3>2. QED
      BY <1>4, <1>5, <3>1
  <2>3. CASE SendPicoBeacon
    <3>1. PicoSends(toP, <<Sent("BEACON_P", pBit)>>) /\ pBit \in Bits
      BY <1>1, <2>3 DEF SendPicoBeacon, PicoOK
    <3>2. QED
      BY <1>4, <1>5, <3>1
  <2>4. CASE Enter
    <3>1. PicoSends(toP, <<Sent("GET", 0)>>)
      BY <2>4 DEF Enter
    <3>2. QED
      BY <1>4, <1>5, <3>1
  <2>5. QED
    BY <2>1, <2>2, <2>3, <2>4 DEF PicoStep
<1>8. ChannelsOK'
  BY <1>1, <1>7, PicoSendsType DEF PicoRestart, ChannelsOK
<1>9. PicoOK'
  <2>1. Flip(pBit) \in Bits
    BY <1>1, FlipType DEF PicoOK
  <2>8. 0 \in 0 .. PicoTimeout /\ 0 \in 0 .. PicoBeacon
    BY <1>6
  <2>9. /\ [pAges EXCEPT !.rx = 0] \in [rx : 0 .. PicoTimeout, beacon : 0 .. PicoBeacon]
        /\ [pAges EXCEPT !.beacon = 0] \in [rx : 0 .. PicoTimeout, beacon : 0 .. PicoBeacon]
        /\ [rx |-> 0, beacon |-> 0] \in [rx : 0 .. PicoTimeout, beacon : 0 .. PicoBeacon]
    BY <1>1, <2>8 DEF PicoOK
  <2>2. CASE PicoRecv
    <3>1. /\ pAges' = [pAges EXCEPT !.rx = 0] /\ UNCHANGED <<pPhase, pBit>>
          /\ pending' \in {None, pending}
      BY <2>2 DEF PicoRecv, PicoAnswers
    <3>2. QED
      BY <1>1, <2>9, <3>1 DEF PicoOK
  <2>3. CASE PicoRecvMeta
    BY <1>1, <1>6, <2>3 DEF PicoRecvMeta, PicoAnswers, PicoOK
  <2>4. CASE SendPicoBeacon
    BY <1>1, <2>1, <2>4, <2>9 DEF SendPicoBeacon, PicoOK
  <2>5. CASE PicoRestart
    BY <1>1, <1>5, <2>5, <2>9 DEF PicoRestart, PicoOK
  <2>6. CASE Enter
    BY <1>1, <2>6 DEF Enter, PicoOK
  <2>7. QED
    BY <2>2, <2>3, <2>4, <2>5, <2>6 DEF PicoStep
<1>10. QED
  BY <1>3, <1>8, <1>9 DEF TypeOK, ServerOK, PicoOK, ChannelsOK, WorldOK, ToULine, ToPLine

LEMMA WorldType ==
  ASSUME TypeOK, Tick \/ LoseLine \/ \E d \in Directions : Cut(d)
  PROVE  TypeOK'
<1>1. ServerOK /\ PicoOK /\ ChannelsOK /\ WorldOK
  BY TypeParts
<1>2. /\ Interval \in Nat /\ PicoTimeout \in Nat /\ PicoBeacon \in Nat /\ MaxLosses \in Nat
      /\ LongestWait \in Nat /\ every \in Nat /\ PicoBound \in Nat
  BY <1>1, Bounds, Constants DEF WorldOK
<1>3. CASE Tick
  <2>1. \A a \in Nat, n \in Nat : Least(a + 1, n) \in 0 .. n
    BY LeastType
  <2>2. /\ ages.rx \in Nat /\ ages.ping \in Nat /\ ages.beacon \in Nat /\ ages.mark \in Nat
        /\ pAges.rx \in Nat /\ pAges.beacon \in Nat /\ cutFor \in Nat
    BY <1>1 DEF ServerOK, PicoOK, WorldOK
  <2>3. ages' \in [rx : 0 .. LongestWait, ping : 0 .. Interval, beacon : 0 .. every, mark : 0 .. Interval]
    <3>1. /\ Least(ages.rx + 1, LongestWait) \in 0 .. LongestWait
          /\ Least(ages.ping + 1, Interval) \in 0 .. Interval
          /\ Least(ages.beacon + 1, every) \in 0 .. every
          /\ Least(ages.mark + 1, Interval) \in 0 .. Interval
      BY <1>2, <2>1, <2>2
    <3>2. QED
      BY <1>1, <1>3, <3>1 DEF Tick, ServerOK
  <2>4. pAges' \in [rx : 0 .. PicoTimeout, beacon : 0 .. PicoBeacon]
    <3>1. /\ Least(pAges.rx + 1, PicoTimeout) \in 0 .. PicoTimeout
          /\ Least(pAges.beacon + 1, PicoBeacon) \in 0 .. PicoBeacon
      BY <1>2, <2>1, <2>2
    <3>2. QED
      BY <1>1, <1>3, <3>1 DEF Tick, PicoOK
  <2>5. cutFor' \in 0 .. PicoBound + 1
    <3>1. Least(cutFor + 1, PicoBound + 1) \in 0 .. PicoBound + 1 /\ 0 \in 0 .. PicoBound + 1
      BY <1>2, <2>1, <2>2
    <3>2. QED
      BY <1>3, <3>1 DEF Tick
  <2>6. ChannelsOK'
    BY <1>1, <1>3, OlderType DEF Tick, ChannelsOK
  <2>7. /\ UNCHANGED <<sPhase, probe, bits, reason, strayHere, pPhase, pending, pBit, every, echo, cut, losses>>
        /\ LongestWait' = LongestWait /\ PicoBound' = PicoBound
    BY <1>3 DEF Tick, LongestWait, PicoBound, ServerBound
  <2>8. ServerOK' /\ PicoOK' /\ WorldOK'
    BY <1>1, <2>3, <2>4, <2>5, <2>7 DEF ServerOK, PicoOK, WorldOK
  <2>9. QED
    BY <2>6, <2>8 DEF TypeOK, ServerOK, PicoOK, ChannelsOK, WorldOK, ToULine, ToPLine
<1>4. CASE LoseLine \/ \E d \in Directions : Cut(d)
  <2>1. /\ UNCHANGED <<serverVars, picoVars, every, echo, cutFor>> /\ cut' \subseteq Cuttable
        /\ losses' \in 0 .. MaxLosses
    BY <1>1, <1>2, <1>4 DEF LoseLine, Cut, WorldOK
  <2>2. ServerOK' /\ PicoOK' /\ WorldOK'
    BY <1>1, <2>1 DEF ServerOK, PicoOK, WorldOK, serverVars, picoVars, LongestWait, PicoBound, ServerBound
  <2>3. ChannelsOK'
    BY <1>1, <1>4, LinesType, OnlyLine DEF LoseLine, Cut, ChannelsOK
  <2>4. QED
    BY <2>2, <2>3 DEF TypeOK, ServerOK, PicoOK, ChannelsOK, WorldOK, ToULine, ToPLine
<1>5. QED
  BY <1>3, <1>4

LEMMA InitType == ASSUME Init PROVE TypeOK
<1>2. every \in BeaconIntervals /\ echo \in Echoes
  BY DEF Init
<1>3. ServerOK
  <2>1. /\ LongestWait \in Nat /\ every \in Nat /\ Interval \in Nat /\ Retries \in Nat /\ 0 \in Bits
    BY <1>2, Bounds, Constants DEF Bits
  <2>2. /\ NoAges \in [rx : 0 .. LongestWait, ping : 0 .. Interval, beacon : 0 .. every, mark : 0 .. Interval]
        /\ NoProbe \in [outstanding : Bits \union {None}, sent : 0 .. Retries,
                       waiting : Bits \union {None}, marker : 0 .. Retries + 1]
    BY <2>1 DEF NoAges, NoProbe
  <2>3. QED
    BY <2>1, <2>2 DEF Init, ServerOK
<1>4. PicoOK /\ ChannelsOK /\ WorldOK
  BY <1>2, Bounds, Constants, OnlyLine DEF Init, PicoOK, ChannelsOK, WorldOK, Bits
<1>5. QED
  BY <1>3, <1>4, TypeParts

(* Every variable has its type: no counter of recv_line passes its limit,   *)
(* and its toggling numbers have one bit.                                   *)
THEOREM IdleTypes == Spec => []TypeOK
<1>1. Init => TypeOK
  BY InitType
<1>2. TypeOK /\ [Next]_vars => TypeOK'
  <2>1. CASE UNCHANGED vars
    BY <2>1 DEF vars, serverVars, picoVars, lineVars, TypeOK, LongestWait, PicoBound, ServerBound
  <2>2. CASE Next /\ TypeOK
    BY <2>2, ServerReadsType, ReplyType, PassType, PicoType, WorldType DEF Next, ServerStep
  <2>3. QED
    BY <2>1, <2>2
<1>3. QED
  BY <1>1, <1>2, PTL DEF Spec

-----------------------------------------------------------------------------
(* The idle diagnosis.  GetSurvives is not inductive.  ProbeInv adds the    *)
(* account of the diagnosis: a beacon without a receipt and each PING       *)
(* without a PONG is either under way or a lost line, and when the next     *)
(* probe is due, an Interval after the last one, nothing is under way any   *)
(* more.  So the first AYT?, which follows a beacon and two PINGs, costs    *)
(* three losses.                                                            *)

(* A question and its answer take less than the time between two probes.   *)
QuickAnswers == 2 * Latency < Interval

(* Some line is of this kind and number and `since` seconds old, or up to  *)
(* `slack` seconds younger.                                                *)
Carries(lines, kind, bit, since, slack) ==
  \E i \in 1 .. Len(lines) :
    lines[i][1] = kind /\ lines[i][2] = bit /\ since <= lines[i][3] + slack
Has(lines, kind) == \E i \in 1 .. Len(lines) : lines[i][1] = kind

(* Seconds since the last probe of a diagnosis. *)
Since == IF probe.marker >= 1 THEN ages.ping ELSE 0

UnderAt(question, answer, bit, n) ==
  Carries(toP, question, bit, n, 0) \/ Carries(toU, answer, bit, n, Latency)
Under(question, answer, bit) == UnderAt(question, answer, bit, Since)
BeaconUnder == Under("BEACON_U", "MARK_P", probe.waiting)
PingUnder   == Under("PING", "PONG", probe.outstanding)

Accounted ==
  /\ probe.marker >= 1 => probe.waiting # None /\ ages.mark >= Interval
  /\ probe.marker = 0 /\ probe.waiting # None => BeaconUnder \/ losses >= 1
  /\ probe.marker = 1 => \/ BeaconUnder /\ PingUnder
                         \/ losses >= 1 /\ (BeaconUnder \/ PingUnder)
                         \/ losses >= 2
  /\ probe.marker = 2 => (losses >= 2 /\ PingUnder) \/ losses >= 3
  /\ probe.marker >= 3 => losses >= 3

Diagnosing == sPhase = "idle" /\ PicoRuns /\ cut = {}

ProbeInv ==
  /\ cut \subseteq Directions
  /\ Diagnosing => Accounted
  /\ PicoRuns /\ Has(toP, "AYT?") => losses >= 3 \/ "toU" \in cut
  /\ Has(toU, "HERE") \/ strayHere => losses >= 3

(* What becomes of a line. *)
LEMMA CarriedLine ==
  ASSUME NEW s \in Seq(ToULine), NEW i \in 1 .. Len(s)
  PROVE  Len(s) \in Nat /\ s[i][3] \in 0 .. Latency /\ Latency \in Nat
  BY LenProperties, ElementOfSeq, Constants DEF ToULine

LEMMA CarriedYounger ==
  ASSUME NEW s \in Seq(ToULine), NEW kind, NEW bit, NEW since \in Nat, NEW slack \in Nat,
         Carries(s, kind, bit, since, slack), NEW n \in Nat, n <= since
  PROVE  Carries(s, kind, bit, n, slack)
<1>1. PICK i \in 1 .. Len(s) : s[i][1] = kind /\ s[i][2] = bit /\ since <= s[i][3] + slack
  BY DEF Carries
<1>2. n <= s[i][3] + slack
  BY <1>1, CarriedLine
<1>3. QED
  BY <1>1, <1>2 DEF Carries

LEMMA CarriedInTime ==
  ASSUME NEW s \in Seq(ToULine), NEW kind, NEW bit, NEW since \in Nat, NEW slack \in Nat,
         Carries(s, kind, bit, since, slack)
  PROVE  since <= Latency + slack
  BY CarriedLine DEF Carries

LEMMA CarriedBehind ==
  ASSUME NEW s \in Seq(ToULine), NEW t \in Seq(ToULine), NEW kind, NEW bit, NEW since, NEW slack,
         Carries(s, kind, bit, since, slack)
  PROVE  Carries(s \o t, kind, bit, since, slack)
<1>1. PICK i \in 1 .. Len(s) : s[i][1] = kind /\ s[i][2] = bit /\ since <= s[i][3] + slack
  BY DEF Carries
<1>2. i \in 1 .. Len(s \o t) /\ (s \o t)[i] = s[i]
  BY ConcatProperties, LenProperties
<1>3. QED
  BY <1>1, <1>2 DEF Carries

LEMMA CarriedAhead ==
  ASSUME NEW s \in Seq(ToULine), NEW kind, NEW bit, NEW since, NEW slack, s # <<>>,
         Carries(s, kind, bit, since, slack)
  PROVE  \/ Head(s)[1] = kind /\ Head(s)[2] = bit /\ since <= Head(s)[3] + slack
         \/ Carries(Tail(s), kind, bit, since, slack)
<1>1. PICK i \in 1 .. Len(s) : s[i][1] = kind /\ s[i][2] = bit /\ since <= s[i][3] + slack
  BY DEF Carries
<1>2. CASE i = 1
  <2>1. Head(s) = s[1]
    BY HeadTailProperties
  <2>2. QED
    BY <1>1, <1>2, <2>1
<1>3. CASE i # 1
  <2>1. i - 1 \in 1 .. Len(Tail(s)) /\ Tail(s)[i - 1] = s[i]
    BY <1>3, HeadTailProperties, CarriedLine
  <2>2. QED
    BY <1>1, <2>1 DEF Carries
<1>4. QED
  BY <1>2, <1>3

LEMMA CarriedOlder ==
  ASSUME NEW s \in Seq(ToULine), NEW kind, NEW bit, NEW since \in Nat, NEW slack \in Nat,
         Carries(s, kind, bit, since, slack), MayWait(s), NEW n \in Nat, n <= since + 1
  PROVE  Carries(Older(s), kind, bit, n, slack)
<1>1. PICK i \in 1 .. Len(s) : s[i][1] = kind /\ s[i][2] = bit /\ since <= s[i][3] + slack
  BY DEF Carries
<1>2. Len(s) \in Nat /\ s[i][3] \in 0 .. Latency /\ Latency \in Nat
  BY CarriedLine
<1>3. /\ Older(s) \in Seq(ToULine) /\ Len(Older(s)) = Len(s)
      /\ Older(s)[i] = <<s[i][1], s[i][2], Least(s[i][3] + 1, Latency)>>
  BY <1>2, OlderType DEF Older
<1>4. Least(s[i][3] + 1, Latency) = s[i][3] + 1
  <2>1. s[i][3] + 1 \in Nat /\ s[i][3] + 1 <= Latency
    BY <1>2 DEF MayWait
  <2>2. QED
    BY <1>2, <2>1, LeastType
<1>5. n <= (s[i][3] + 1) + slack
  <2>1. PICK a \in Nat : a = s[i][3]
    BY <1>2
  <2>2. n <= since + 1 /\ since <= a + slack
    BY <1>1, <2>1
  <2>3. n <= (a + 1) + slack
    BY <2>2
  <2>4. QED
    BY <2>1, <2>3
<1>6. QED
  BY <1>1, <1>3, <1>4, <1>5 DEF Carries

(* A line just sent. *)
LEMMA CarriedNew ==
  ASSUME NEW s \in Seq(ToULine), NEW kind, NEW bit, Sent(kind, bit) \in ToULine,
         NEW since \in Nat, NEW slack \in Nat, since <= slack
  PROVE  Carries(s \o <<Sent(kind, bit)>>, kind, bit, since, slack)
<1>1. Len(s) \in Nat /\ <<Sent(kind, bit)>> \in Seq(ToULine)
      /\ Len(<<Sent(kind, bit)>>) = 1 /\ <<Sent(kind, bit)>>[1] = Sent(kind, bit)
  BY LenProperties, OnlyLine
<1>2. /\ Len(s) + 1 \in 1 .. Len(s \o <<Sent(kind, bit)>>)
      /\ (s \o <<Sent(kind, bit)>>)[Len(s) + 1] = Sent(kind, bit)
  BY <1>1, ConcatProperties
<1>3. QED
  BY <1>2 DEF Carries, Sent

LEMMA HadBefore ==
  ASSUME NEW s \in Seq(ToULine), NEW kind
  PROVE  /\ \A t \in Seq(ToULine) : Has(s \o t, kind) => Has(s, kind) \/ Has(t, kind)
         /\ s # <<>> => /\ Has(Tail(s), kind) => Has(s, kind)
                        /\ Head(s)[1] = kind => Has(s, kind)
         /\ Has(Older(s), kind) => Has(s, kind)
         /\ ~Has(<<>>, kind)
         /\ \A q : Has(<<q>>, kind) => q[1] = kind
<1>1. Len(s) \in Nat
  BY LenProperties
<1>2. ASSUME NEW t \in Seq(ToULine), Has(s \o t, kind) PROVE Has(s, kind) \/ Has(t, kind)
  <2>1. PICK i \in 1 .. Len(s \o t) : (s \o t)[i][1] = kind
    BY <1>2 DEF Has
  <2>2. Len(t) \in Nat /\ Len(s \o t) = Len(s) + Len(t)
    BY LenProperties, ConcatProperties
  <2>3. CASE i <= Len(s)
    BY <1>1, <2>1, <2>2, <2>3, ConcatProperties DEF Has
  <2>4. CASE i > Len(s)
    <3>1. i - Len(s) \in 1 .. Len(t) /\ (s \o t)[i] = t[i - Len(s)]
      BY <1>1, <2>1, <2>2, <2>4, ConcatProperties
    <3>2. QED
      BY <2>1, <3>1 DEF Has
  <2>5. QED
    BY <1>1, <2>1, <2>2, <2>3, <2>4
<1>3. ASSUME s # <<>>
      PROVE  /\ Has(Tail(s), kind) => Has(s, kind)
             /\ Head(s)[1] = kind => Has(s, kind)
  <2>1. /\ Len(Tail(s)) = Len(s) - 1 /\ Head(s) = s[1] /\ 1 \in 1 .. Len(s)
        /\ \A i \in 1 .. Len(Tail(s)) : Tail(s)[i] = s[i + 1] /\ i + 1 \in 1 .. Len(s)
    BY <1>1, <1>3, HeadTailProperties, EmptySeq
  <2>2. QED
    BY <2>1 DEF Has
<1>4. Has(Older(s), kind) => Has(s, kind)
  <2>1. Len(Older(s)) = Len(s) /\ \A i \in 1 .. Len(s) : Older(s)[i][1] = s[i][1]
    BY <1>1, OlderType, LenProperties DEF Older
  <2>2. QED
    BY <2>1 DEF Has
<1>5. ~Has(<<>>, kind) /\ \A q : Has(<<q>>, kind) => q[1] = kind
  BY DEF Has
<1>6. QED
  BY <1>2, <1>3, <1>4, <1>5

LEMMA SinceType ==
  ASSUME TypeOK
  PROVE  /\ Since \in Nat /\ (Since = 0 \/ Since = ages.ping)
         /\ toU \in Seq(ToULine) /\ toP \in Seq(ToULine) /\ toP \in Seq(ToPLine)
         /\ toU # <<>> => Tail(toU) \in Seq(ToULine) /\ Head(toU) \in ToULine
         /\ toP # <<>> => Tail(toP) \in Seq(ToPLine) /\ Head(toP) \in ToPLine
         /\ probe.marker \in Nat /\ probe.marker <= Retries + 1 /\ ages.ping \in Nat
         /\ losses \in Nat /\ ages.mark \in Nat /\ Latency \in Nat
         /\ probe.waiting \in Bits \union {None} /\ probe.outstanding \in Bits \union {None}
         /\ bits.ping \in Bits /\ bits.ayt \in Bits /\ bits.beacon \in Bits
<1>1. ServerOK /\ ChannelsOK /\ WorldOK
  BY TypeParts
<1>2. QED
  BY <1>1, LinesType, Constants DEF Since, ServerOK, ChannelsOK, WorldOK

LEMMA NoOlder == \A n, l \in Nat : \A m \in 0 .. l : n <= m + 0 => n <= l
  OBVIOUS

(* The server reads and sends: a question and its answer stay under way. *)
LEMMA ServerKeepsUnderAt ==
  ASSUME TypeOK, NEW q, NEW a, NEW bit, cut = {}, NEW n \in Nat, NEW m \in Nat, m <= n,
         NEW rest, NEW out \in Seq(ToPLine), ServerSends(rest, out),
         \/ rest = toU
         \/ /\ toU # <<>> /\ rest = Tail(toU)
            /\ ~(Head(toU)[1] = a /\ Head(toU)[2] = bit),
         UnderAt(q, a, bit, n)
  PROVE  UnderAt(q, a, bit, m)'
<1>1. toP' = toP \o out /\ (toU' = rest \/ toU' = rest \o out)
  BY DEF ServerSends
<1>2. out \in Seq(ToULine) /\ rest \in Seq(ToULine)
  BY LinesType, SinceType
<1>3. CASE Carries(toP, q, bit, n, 0)
  <2>1. Carries(toP, q, bit, m, 0)
    BY <1>3, SinceType, CarriedYounger
  <2>3. Carries(toP', q, bit, m, 0)
    BY <1>1, <1>2, <2>1, SinceType, CarriedBehind
  <2>2. QED
    BY <2>3 DEF UnderAt
<1>4. CASE Carries(toU, a, bit, n, Latency)
  <2>1. Carries(rest, a, bit, m, Latency)
    <3>1. Carries(toU, a, bit, m, Latency)
      BY <1>4, SinceType, CarriedYounger
    <3>2. CASE rest # toU
      BY <3>1, <3>2, SinceType, CarriedAhead
    <3>3. QED
      BY <3>1, <3>2
  <2>2. Carries(toU', a, bit, m, Latency)
    BY <1>1, <1>2, <2>1, CarriedBehind
  <2>3. QED
    BY <2>2 DEF UnderAt
<1>5. QED
  BY <1>3, <1>4 DEF UnderAt

LEMMA ServerKeepsUnder ==
  ASSUME TypeOK, NEW q, NEW a, NEW bit, cut = {}, Since' \in Nat, Since' <= Since,
         NEW rest, NEW out \in Seq(ToPLine), ServerSends(rest, out),
         \/ rest = toU
         \/ /\ toU # <<>> /\ rest = Tail(toU)
            /\ ~(Head(toU)[1] = a /\ Head(toU)[2] = bit),
         Under(q, a, bit)
  PROVE  Under(q, a, bit)'
<1>1. PICK n \in Nat, m \in Nat : n = Since /\ m = Since'
  BY SinceType
<1>2. UnderAt(q, a, bit, n) /\ m <= n
  BY <1>1 DEF Under
<1>3. UnderAt(q, a, bit, m)'
  BY <1>2, ServerKeepsUnderAt
<1>4. QED
  BY <1>1, <1>3 DEF Under

(* So does the program, which answers the question when it reads it. *)
Questions == {<<"BEACON_U", "MARK_P">>, <<"PING", "PONG">>, <<"AYT?", "HERE">>}

LEMMA PicoKeepsUnderAt ==
  ASSUME TypeOK, NEW q, NEW a, NEW bit, cut = {}, sPhase = "idle", <<q, a>> \in Questions, NEW n \in Nat,
         PicoRecv \/ PicoRecvMeta \/ SendPicoBeacon \/ Enter, UnderAt(q, a, bit, n)
  PROVE  UnderAt(q, a, bit, n)'
<1>2. \A rest, out : PicoSends(rest, out) => toP' = rest /\ toU' = toU \o out
  BY DEF PicoSends, ServerReading
<1>3. /\ toU \in Seq(ToULine) /\ toP \in Seq(ToULine) /\ Latency \in Nat /\ 0 \in Nat
      /\ \A b \in Bits : \A kind \in PicoKinds : Sent(kind, b) \in ToULine /\ <<Sent(kind, b)>> \in Seq(ToULine)
      /\ <<>> \in Seq(ToULine) /\ {"PONG", "HERE", "MARK_P", "READY", "BEACON_P", "GET"} \subseteq PicoKinds
      /\ 0 \in Bits /\ pBit \in Bits
  BY SinceType, SentTypes, OnlyLine, TypeParts, Constants DEF PicoKinds, Bits, PicoOK
<1>4. ASSUME NEW out \in Seq(ToULine), toU' = toU \o out, Carries(toU, a, bit, n, Latency)
      PROVE  UnderAt(q, a, bit, n)'
  <2>1. Carries(toU', a, bit, n, Latency)
    BY <1>3, <1>4, CarriedBehind
  <2>2. QED
    BY <2>1 DEF UnderAt
<1>5. CASE SendPicoBeacon \/ Enter
  <2>1. toP' = toP /\ \E out \in Seq(ToULine) : toU' = toU \o out
    BY <1>2, <1>3, <1>5 DEF SendPicoBeacon, Enter
  <2>2. CASE Carries(toP, q, bit, n, 0)
    BY <2>1, <2>2 DEF UnderAt
  <2>3. QED
    BY <1>4, <2>1, <2>2 DEF UnderAt
<1>6. CASE PicoRecv \/ PicoRecvMeta
  <2>1. PICK kind \in ServerKinds, b \in Bits :
          toP # <<>> /\ Head(toP)[1] = kind /\ Head(toP)[2] = b /\ Head(toP)[3] \in 0 .. Latency
    BY <1>6, SinceType DEF PicoRecv, PicoRecvMeta, PicoReads, ToPLine
  <2>2. \E out \in Seq(ToULine) : /\ toP' = Tail(toP) /\ toU' = toU \o out
                                  /\ kind = "BEACON_U" => out = <<Sent("MARK_P", b)>>
                                  /\ kind = "PING" => out = <<Sent("PONG", b)>>
                                  /\ kind = "AYT?" => out = <<Sent("HERE", b)>>
    <3>1. CASE PicoRecv
      <4>1. Answer(kind, b) \in Seq(ToULine)
        BY <1>3 DEF Answer
      <4>2. toP' = Tail(toP) /\ toU' = toU \o Answer(kind, b)
        BY <1>2, <2>1, <3>1 DEF PicoRecv
      <4>3. QED
        BY <4>1, <4>2 DEF Answer
    <3>2. CASE PicoRecvMeta
      <4>1. toP' = Tail(toP) /\ toU' = toU \o <<Sent("READY", 0)>> /\ kind = "META"
        BY <1>2, <2>1, <3>2 DEF PicoRecvMeta, PicoReads
      <4>2. QED
        BY <1>3, <4>1
    <3>3. QED
      BY <1>6, <3>1, <3>2
  <2>3. CASE Carries(toU, a, bit, n, Latency)
    BY <1>4, <2>2, <2>3
  <2>4. CASE Carries(toP, q, bit, n, 0)
    <3>1. \/ kind = q /\ b = bit /\ n <= Head(toP)[3] + 0
          \/ Carries(Tail(toP), q, bit, n, 0)
      BY <1>3, <2>1, <2>4, CarriedAhead
    <3>2. CASE kind = q /\ b = bit /\ n <= Head(toP)[3] + 0
      <4>1. n <= Latency
        BY <1>3, <2>1, <3>2, NoOlder, Zenon
      <4>2. toU' = toU \o <<Sent(a, bit)>> /\ Sent(a, bit) \in ToULine
        BY <1>3, <2>2, <3>2 DEF Questions
      <4>3. Carries(toU', a, bit, n, Latency)
        BY <1>3, <4>1, <4>2, CarriedNew
      <4>4. QED
        BY <4>3 DEF UnderAt
    <3>3. CASE Carries(Tail(toP), q, bit, n, 0)
      BY <2>2, <3>3 DEF UnderAt
    <3>4. QED
      BY <3>1, <3>2, <3>3
  <2>5. QED
    BY <2>3, <2>4 DEF UnderAt
<1>7. QED
  BY <1>5, <1>6

LEMMA PicoKeepsUnder ==
  ASSUME TypeOK, NEW q, NEW a, NEW bit, cut = {}, sPhase = "idle", <<q, a>> \in Questions,
         PicoRecv \/ PicoRecvMeta \/ SendPicoBeacon \/ Enter, Under(q, a, bit)
  PROVE  Under(q, a, bit)'
<1>1. UNCHANGED <<ages, probe>> /\ Since' = Since
  BY DEF PicoRecv, PicoRecvMeta, SendPicoBeacon, Enter, PicoAnswers, serverVars, Since
<1>2. PICK n \in Nat : n = Since
  BY SinceType
<1>3. UnderAt(q, a, bit, n)'
  BY <1>2, PicoKeepsUnderAt DEF Under
<1>4. QED
  BY <1>1, <1>2, <1>3 DEF Under

(* A second passes. *)
LEMMA TickKeepsUnderAt ==
  ASSUME TypeOK, NEW q, NEW a, NEW bit, sPhase = "idle", PicoRuns, Tick,
         NEW n \in Nat, NEW m \in Nat, m <= n + 1, UnderAt(q, a, bit, n)
  PROVE  UnderAt(q, a, bit, m)'
<1>1. MayWait(toU) /\ MayWait(toP) /\ toU' = Older(toU) /\ toP' = Older(toP)
  BY DEF Tick, ServerReading
<1>2. QED
  BY <1>1, SinceType, CarriedOlder DEF UnderAt

LEMMA PingGrows == ASSUME TypeOK, sPhase = "idle", Tick PROVE ages'.ping \in Nat /\ ages'.ping <= ages.ping + 1
<1>1. ages'.ping = Least(ages.ping + 1, Interval)
  BY DEF Tick
<1>2. ages.ping + 1 \in Nat /\ Interval \in Nat
  BY SinceType, Constants
<1>3. QED
  BY <1>1, <1>2, LeastType

LEMMA TickKeepsUnder ==
  ASSUME TypeOK, NEW q, NEW a, NEW bit, sPhase = "idle", PicoRuns, Tick, Under(q, a, bit)
  PROVE  Under(q, a, bit)'
<1>1. UNCHANGED probe
  BY DEF Tick
<1>2. Since' \in Nat /\ Since' <= Since + 1
  BY <1>1, PingGrows, SinceType DEF Since
<1>3. PICK n \in Nat, m \in Nat : n = Since /\ m = Since'
  BY <1>2, SinceType
<1>4. UnderAt(q, a, bit, m)'
  BY <1>2, <1>3, TickKeepsUnderAt DEF Under
<1>5. QED
  BY <1>3, <1>4 DEF Under

(* A line is lost: not both of two kinds. *)
LEMMA LossKeepsUnder ==
  ASSUME TypeOK, LoseLine, NEW q, NEW a, NEW bit, NEW r, NEW b, NEW other, {q, a} \cap {r, b} = {}
  PROVE  /\ Under(q, a, bit) => Under(q, a, bit)' \/ losses' = losses + 1
         /\ Under(q, a, bit) /\ Under(r, b, other) => Under(q, a, bit)' \/ Under(r, b, other)'
<1>1. losses' = losses + 1 /\ UNCHANGED <<ages, probe>> /\ Since' = Since
  BY DEF LoseLine, serverVars, Since
<1>2. CASE toU # <<>> /\ toU' = Tail(toU) /\ UNCHANGED toP
  <2>1. Under(q, a, bit) => Under(q, a, bit)' \/ Head(toU)[1] = a
    BY <1>1, <1>2, SinceType, CarriedAhead DEF Under, UnderAt
  <2>2. Under(r, b, other) => Under(r, b, other)' \/ Head(toU)[1] = b
    BY <1>1, <1>2, SinceType, CarriedAhead DEF Under, UnderAt
  <2>3. QED
    BY <1>1, <2>1, <2>2
<1>3. CASE toP # <<>> /\ toP' = Tail(toP) /\ UNCHANGED toU
  <2>1. Under(q, a, bit) => Under(q, a, bit)' \/ Head(toP)[1] = q
    BY <1>1, <1>3, SinceType, CarriedAhead DEF Under, UnderAt
  <2>2. Under(r, b, other) => Under(r, b, other)' \/ Head(toP)[1] = r
    BY <1>1, <1>3, SinceType, CarriedAhead DEF Under, UnderAt
  <2>3. QED
    BY <1>1, <2>1, <2>2
<1>4. QED
  BY <1>2, <1>3 DEF LoseLine

(* The account when its counters stand and every question stays under way. *)
LEMMA AccountStands ==
  ASSUME TypeOK, Accounted, UNCHANGED <<probe, losses>>, ages'.mark >= Interval \/ ages'.mark = ages.mark,
         BeaconUnder => BeaconUnder', PingUnder => PingUnder'
  PROVE  Accounted'
  BY DEF Accounted

(* A clean slate. *)
LEMMA NothingAsked ==
  ASSUME probe'.marker = 0, probe'.waiting = None
  PROVE  Accounted'
  BY DEF Accounted

LEMMA AccountOfReading ==
  ASSUME TypeOK, Diagnosing, Accounted, Diagnosing',
         \/ \E bit \in Bits : \/ RecvBeacon(bit) \/ RecvMark(bit) \/ RecvPing(bit)
                              \/ RecvPong(bit) \/ RecvHere(bit) \/ RecvOwn(bit)
         \/ RecvRequest \/ RecvReply
  PROVE  Accounted'
<1>1. PICK bit \in Bits : \/ RecvBeacon(bit) \/ RecvMark(bit) \/ RecvPing(bit)
                          \/ RecvPong(bit) \/ RecvHere(bit) \/ RecvOwn(bit)
  BY DEF Diagnosing, RecvRequest, RecvReply, Leaves
<1>2. UNCHANGED losses /\ cut = {}
  BY <1>1 DEF RecvBeacon, RecvMark, RecvPing, RecvPong, RecvHere, RecvOwn, Idle, lineVars, Diagnosing
<1>3. NoProbe.marker = 0 /\ NoProbe.waiting = None
      /\ [NoProbe EXCEPT !.sent = probe.sent].marker = 0
      /\ [NoProbe EXCEPT !.sent = probe.sent].waiting = None
  BY DEF NoProbe
<1>4. CASE probe' = NoProbe \/ probe' = [NoProbe EXCEPT !.sent = probe.sent]
  BY <1>3, <1>4, NothingAsked
<1>5. CASE ~(probe' = NoProbe \/ probe' = [NoProbe EXCEPT !.sent = probe.sent])
  <2>1. /\ toU # <<>> /\ \E out \in Seq(ToPLine) : ServerSends(Tail(toU), out)
        /\ ~(Head(toU)[1] = "MARK_P" /\ Head(toU)[2] = probe.waiting)
        /\ ~(Head(toU)[1] = "PONG" /\ Head(toU)[2] = probe.outstanding)
    <3>1. /\ <<>> \in Seq(ToPLine) /\ <<Sent("MARK_U", bit)>> \in Seq(ToPLine)
          /\ <<Sent("PONG", bit)>> \in Seq(ToPLine) /\ <<Sent("AYT-OK", bit)>> \in Seq(ToPLine)
      BY SentTypes, OnlyLine DEF ServerKinds
    <3>2. CASE RecvBeacon(bit)
      BY <3>1, <3>2 DEF RecvBeacon, ServerReads
    <3>3. CASE RecvMark(bit)
      BY <1>5, <3>1, <3>3 DEF RecvMark, ServerReads
    <3>4. CASE RecvPing(bit)
      BY <3>1, <3>4 DEF RecvPing, ServerReads
    <3>5. CASE RecvPong(bit)
      BY <1>5, <3>1, <3>5 DEF RecvPong, ServerReads
    <3>6. CASE RecvHere(bit)
      BY <1>5, <3>1, <3>6 DEF RecvHere, ServerReads
    <3>7. CASE RecvOwn(bit)
      BY <3>1, <3>7 DEF RecvOwn, ServerReads
    <3>8. QED
      BY <1>1, <3>2, <3>3, <3>4, <3>5, <3>6, <3>7
  <2>2. /\ probe' = probe \/ probe' = [probe EXCEPT !.sent = 0]
        /\ ages' = ages \/ ages' = [ages EXCEPT !.rx = 0]
    BY <1>1, <1>5 DEF RecvBeacon, RecvMark, RecvPing, RecvPong, RecvHere, RecvOwn, BeaconProves
  <2>3. /\ probe'.marker = probe.marker /\ probe'.waiting = probe.waiting
        /\ probe'.outstanding = probe.outstanding /\ ages'.ping = ages.ping /\ ages'.mark = ages.mark
    BY <2>2, TypeParts DEF ServerOK
  <2>4. Since' = Since /\ Since \in Nat
    BY <2>3, SinceType DEF Since
  <2>5. PICK w, o : w = probe.waiting /\ o = probe.outstanding
    OBVIOUS
  <2>6. /\ Under("BEACON_U", "MARK_P", w) => Under("BEACON_U", "MARK_P", w)'
        /\ Under("PING", "PONG", o) => Under("PING", "PONG", o)'
    <3>1. PICK out \in Seq(ToPLine) : ServerSends(Tail(toU), out)
      BY <2>1
    <3>2. Since' \in Nat /\ Since' <= Since
      BY <2>4
    <3>3. Under("BEACON_U", "MARK_P", w) => Under("BEACON_U", "MARK_P", w)'
      BY <1>2, <2>1, <2>5, <3>1, <3>2, ServerKeepsUnder
    <3>4. Under("PING", "PONG", o) => Under("PING", "PONG", o)'
      BY <1>2, <2>1, <2>5, <3>1, <3>2, ServerKeepsUnder
    <3>5. QED
      BY <3>3, <3>4
  <2>7. (BeaconUnder => BeaconUnder') /\ (PingUnder => PingUnder')
    BY <2>3, <2>5, <2>6 DEF BeaconUnder, PingUnder
  <2>8. QED
    BY <1>2, <2>3, <2>7 DEF Accounted
<1>6. QED
  BY <1>4, <1>5

(* When a probe is due, nothing of the last one is under way. *)
LEMMA NothingUnder ==
  ASSUME TypeOK, QuickAnswers, ProbeDue, probe.marker >= 1
  PROVE  ~BeaconUnder /\ ~PingUnder
<1>1. Since = ages.ping /\ Since > Latency + Latency
  BY SinceType, Constants DEF Since, ProbeDue, QuickAnswers
<1>2. ASSUME NEW q, NEW a, NEW bit, Under(q, a, bit) PROVE FALSE
  <2>1. Since <= Latency + Latency \/ Since <= Latency + 0
    BY <1>2, SinceType, CarriedInTime DEF Under, UnderAt
  <2>2. QED
    BY <1>1, <2>1, SinceType
<1>3. QED
  BY <1>2 DEF BeaconUnder, PingUnder

LEMMA AccountOfPass ==
  ASSUME TypeOK, QuickAnswers, Diagnosing, Accounted, Diagnosing', IdlePass
  PROVE  Accounted'
<1>1. UNCHANGED losses /\ cut = {} /\ ~GiveUp /\ TypeOK'
  BY PassType DEF IdlePass, lineVars, Diagnosing, GiveUp, Leaves
<1>2. /\ Beacon \in Seq(ToPLine)
      /\ \A bit \in Bits : \A kind \in {"PING", "AYT?", "BEACON_U"} :
           Sent(kind, bit) \in ToULine /\ Sent(kind, bit) \in ToPLine /\ <<Sent(kind, bit)>> \in Seq(ToPLine)
      /\ bits.ping \in Bits /\ bits.ayt \in Bits /\ bits.beacon \in Bits /\ toP \in Seq(ToULine)
  <2>1. \A bit \in Bits : \A kind \in {"PING", "AYT?", "BEACON_U"} :
          Sent(kind, bit) \in ToULine /\ Sent(kind, bit) \in ToPLine /\ <<Sent(kind, bit)>> \in Seq(ToPLine)
    <3>1. ToPLine \subseteq ToULine
      BY DEF ToPLine, ToULine
    <3>2. QED
      BY <3>1, SentTypes, OnlyLine DEF ServerKinds
  <2>2. QED
    BY <2>1, SinceType, OnlyLine DEF Beacon
<1>3. BeaconDue => probe.marker = 0 /\ probe.waiting = None
  BY DEF BeaconDue
<1>4. Since \in Nat /\ 0 <= Since /\ 0 <= 0 /\ 0 \in Nat /\ <<>> \in Seq(ToPLine)
  BY SinceType, OnlyLine
<1>5. ASSUME NEW out \in Seq(ToPLine), ServerSends(toU, out), Since' = 0, BeaconDue => \E t \in Seq(ToPLine) : out = Beacon \o t,
             probe'.waiting = WaitingNow, WaitingNow # None
      PROVE  BeaconUnder' \/ losses >= 1 \/ (probe.marker >= 1 /\ ~BeaconUnder)
  <2>1. CASE BeaconDue
    <3>1. PICK t \in Seq(ToPLine) : toP' = toP \o (<<Sent("BEACON_U", bits.beacon)>> \o t)
      BY <1>1, <1>5, <2>1 DEF Beacon, ServerSends
    <3>2. toP' = (toP \o <<Sent("BEACON_U", bits.beacon)>>) \o t /\ t \in Seq(ToULine)
          /\ toP \o <<Sent("BEACON_U", bits.beacon)>> \in Seq(ToULine)
      <4>1. t \in Seq(ToULine) /\ <<Sent("BEACON_U", bits.beacon)>> \in Seq(ToULine) /\ toP \in Seq(ToULine)
        BY <1>2, LinesType
      <4>4. PICK x \in Seq(ToULine) : x = <<Sent("BEACON_U", bits.beacon)>>
        BY <4>1
      <4>6. (toP \o x) \o t = toP \o (x \o t)
        BY <4>1, Regrouped
      <4>5. (toP \o x) \o t = toP \o (x \o t) /\ toP \o x \in Seq(ToULine)
        BY <4>1, <4>6, LinesType
      <4>2. /\ (toP \o <<Sent("BEACON_U", bits.beacon)>>) \o t = toP \o (<<Sent("BEACON_U", bits.beacon)>> \o t)
            /\ toP \o <<Sent("BEACON_U", bits.beacon)>> \in Seq(ToULine)
        BY <4>4, <4>5
      <4>3. QED
        BY <3>1, <4>1, <4>2
    <3>3. Carries(toP \o <<Sent("BEACON_U", bits.beacon)>>, "BEACON_U", bits.beacon, 0, 0)
      BY <1>2, <1>4, CarriedNew
    <3>4. Carries(toP', "BEACON_U", bits.beacon, 0, 0)
      BY <3>2, <3>3, CarriedBehind
    <3>5. QED
      BY <1>5, <2>1, <3>4 DEF BeaconUnder, Under, UnderAt, WaitingNow
  <2>2. CASE ~BeaconDue
    <3>1. probe'.waiting = probe.waiting /\ probe.waiting # None
      BY <1>5, <2>2 DEF WaitingNow
    <3>2. PICK w : w = probe.waiting
      OBVIOUS
    <3>3. Under("BEACON_U", "MARK_P", w) => Under("BEACON_U", "MARK_P", w)'
      BY <1>1, <1>4, <1>5, ServerKeepsUnder
    <3>4. BeaconUnder => BeaconUnder'
      BY <3>1, <3>2, <3>3 DEF BeaconUnder
    <3>5. probe.marker = 0 \/ probe.marker >= 1
      BY SinceType
    <3>6. QED
      BY <3>1, <3>4, <3>5 DEF Accounted
  <2>3. QED
    BY <2>1, <2>2
<1>6. CASE Diagnose
  <2>1. /\ WaitingNow # None /\ ages.mark >= Interval /\ ages.ping >= Interval /\ ProbeDue
        /\ ages' = [ages EXCEPT !.ping = 0, !.beacon = IF BeaconDue THEN 0 ELSE @]
    BY <1>6 DEF Diagnose, Unmarked, ProbeDue
  <2>2. ages'.ping = 0 /\ ages'.mark = ages.mark /\ Since' = 0
    BY <2>1, TypeParts DEF ServerOK, Since
  <2>3. PICK kind \in {"PING", "AYT?"}, number \in Bits :
          /\ ServerSends(toU, Beacon \o <<Sent(kind, number)>>)
          /\ probe' = [probe EXCEPT !.waiting = WaitingNow, !.outstanding = number, !.marker = NextProbe]
          /\ PingsFirst => kind = "PING"
    BY <1>2, <1>6, Zenon DEF Diagnose
  <2>4. probe'.waiting = WaitingNow /\ probe'.outstanding = number /\ probe'.marker = probe.marker + 1
    BY <2>3, TypeParts DEF ServerOK, NextProbe
  <2>5. Beacon \o <<Sent(kind, number)>> \in Seq(ToPLine)
    BY <1>2, LinesType
  <2>6. BeaconUnder' \/ losses >= 1 \/ (probe.marker >= 1 /\ ~BeaconUnder)
    BY <1>2, <1>5, <2>1, <2>2, <2>3, <2>4, <2>5
  <2>7. PingsFirst => PingUnder'
    <3>1. SUFFICES ASSUME PingsFirst PROVE PingUnder'
      OBVIOUS
    <3>2. toP' = toP \o (Beacon \o <<Sent("PING", number)>>)
      BY <1>1, <2>3, <3>1 DEF ServerSends
    <3>3. toP' = (toP \o Beacon) \o <<Sent("PING", number)>> /\ toP \o Beacon \in Seq(ToULine)
      <4>1. <<Sent("PING", number)>> \in Seq(ToULine) /\ Beacon \in Seq(ToULine) /\ toP \in Seq(ToULine)
        BY <1>2, LinesType
      <4>2. QED
        BY <3>2, <4>1, LinesType, Regrouped
    <3>4. Carries(toP', "PING", number, 0, 0)
      BY <1>2, <1>4, <3>3, CarriedNew
    <3>5. QED
      BY <2>2, <2>4, <3>4 DEF PingUnder, Under, UnderAt
  <2>8. probe.marker >= 1 => ~BeaconUnder /\ ~PingUnder
    BY <2>1, NothingUnder
  <2>9. CASE probe.marker = 0
    <3>1. PingUnder' /\ (BeaconUnder' \/ losses >= 1) /\ probe'.marker = 1
      BY <2>4, <2>6, <2>7, <2>9 DEF PingsFirst
    <3>2. QED
      BY <1>1, <2>1, <2>2, <2>4, <3>1, SinceType DEF Accounted
  <2>10. CASE probe.marker = 1
    <3>1. losses >= 2 /\ PingUnder' /\ probe'.marker = 2
      BY <2>4, <2>7, <2>8, <2>10 DEF PingsFirst, Accounted
    <3>2. QED
      BY <1>1, <2>1, <2>2, <2>4, <3>1, SinceType DEF Accounted
  <2>11. CASE probe.marker >= 2
    <3>1. losses >= 3 /\ probe'.marker >= 3
      <4>1. probe.marker = 2 \/ probe.marker >= 3
        BY <2>11, SinceType
      <4>2. QED
        BY <2>4, <2>8, <2>11, <4>1, SinceType DEF Accounted
    <3>2. QED
      BY <1>1, <2>1, <2>2, <2>4, <3>1, SinceType DEF Accounted
  <2>12. QED
    BY <2>9, <2>10, <2>11, SinceType
<1>7. CASE Ask \/ BeaconOnly
  <2>1. probe.marker = 0
    <3>1. CASE BeaconDue
      BY <3>1 DEF BeaconDue
    <3>2. CASE Ask /\ ~BeaconDue
      BY <3>2, SinceType DEF Ask, Quiet, Unmarked, WaitingNow, Accounted
    <3>3. QED
      BY <1>7, <3>1, <3>2 DEF BeaconOnly
  <2>2. probe'.marker = 0 /\ probe'.waiting = WaitingNow
    BY <1>7, <2>1, TypeParts DEF Ask, BeaconOnly, ServerOK, WaitingNow
  <2>3. Since' = 0
    BY <2>2 DEF Since
  <2>4. PICK out \in Seq(ToPLine) : /\ ServerSends(toU, out)
                                    /\ \E t \in Seq(ToPLine) : out = Beacon \o t
    <3>1. CASE Ask
      BY <1>2, <3>1, LinesType DEF Ask
    <3>2. CASE BeaconOnly
      <4>1. Beacon \o <<>> = Beacon
        BY <1>2, ConcatEmptySeq
      <4>2. QED
        BY <1>2, <1>4, <3>2, <4>1 DEF BeaconOnly
    <3>3. QED
      BY <1>7, <3>1, <3>2
  <2>5. WaitingNow # None => BeaconUnder' \/ losses >= 1
    <3>1. WaitingNow # None => BeaconUnder' \/ losses >= 1 \/ (probe.marker >= 1 /\ ~BeaconUnder)
      BY <1>5, <2>2, <2>3, <2>4, Zenon
    <3>2. ~(probe.marker >= 1)
      BY <2>1
    <3>3. QED
      BY <3>1, <3>2
  <2>6. QED
    BY <1>1, <2>2, <2>5 DEF Accounted
<1>8. QED
  BY <1>1, <1>6, <1>7 DEF IdlePass

LEMMA AccountOfOthers ==
  ASSUME TypeOK, Diagnosing, Accounted, Diagnosing',
         PicoStep \/ Enter \/ Tick \/ LoseLine \/ \E d \in Directions : Cut(d)
  PROVE  Accounted'
<1>1. PICK w, o : w = probe.waiting /\ o = probe.outstanding
  OBVIOUS
<1> DEFINE beacon == Under("BEACON_U", "MARK_P", w)
           ping   == Under("PING", "PONG", o)
<1>2. UNCHANGED probe /\ cut = {} /\ sPhase = "idle" /\ PicoRuns
  BY DEF Diagnosing, PicoStep, PicoRecv, PicoRecvMeta, SendPicoBeacon, PicoRestart, Enter, PicoAnswers,
         Tick, LoseLine, Cut, serverVars
<1>3. /\ BeaconUnder = beacon /\ BeaconUnder' = beacon'
      /\ PingUnder = ping /\ PingUnder' = ping'
  BY <1>1, <1>2 DEF BeaconUnder, PingUnder
<1>4. CASE PicoRecv \/ PicoRecvMeta \/ SendPicoBeacon \/ Enter
  <2>1. UNCHANGED <<ages, losses>>
    BY <1>4 DEF PicoRecv, PicoRecvMeta, SendPicoBeacon, Enter, PicoAnswers, serverVars, lineVars
  <2>2. (beacon => beacon') /\ (ping => ping')
    BY <1>2, <1>4, PicoKeepsUnder DEF Questions
  <2>3. QED
    BY <1>2, <1>3, <2>1, <2>2, AccountStands
<1>5. CASE Tick
  <2>1. (beacon => beacon') /\ (ping => ping')
    BY <1>2, <1>5, TickKeepsUnder
  <2>2. UNCHANGED losses /\ ages'.mark = Least(ages.mark + 1, Interval)
    BY <1>2, <1>5 DEF Tick
  <2>3. Least(ages.mark + 1, Interval) >= Interval \/ ages.mark < Interval
    <3>1. ages.mark \in Nat /\ Interval \in Nat
      BY SinceType, Constants
    <3>2. QED
      BY <3>1 DEF Least
  <2>4. ages'.mark >= Interval \/ ~(ages.mark >= Interval)
    <3>1. ages.mark \in Nat /\ Interval \in Nat
      BY SinceType, Constants
    <3>2. QED
      BY <2>2, <2>3, <3>1
  <2>5. QED
    BY <1>2, <1>3, <2>1, <2>2, <2>4 DEF Accounted
<1>6. CASE LoseLine
  <2>1. /\ losses' = losses + 1 /\ UNCHANGED ages /\ losses \in Nat
        /\ probe.marker \in Nat
    BY <1>6, SinceType DEF LoseLine, serverVars
  <2>2. {"BEACON_U", "MARK_P"} \cap {"PING", "PONG"} = {}
    OBVIOUS
  <2>3. /\ (beacon => beacon' \/ losses' = losses + 1)
        /\ beacon /\ ping => beacon' \/ ping'
    BY <1>6, <2>2, LossKeepsUnder
  <2>4. /\ losses >= 1 => losses' >= 2
        /\ losses >= 2 => losses' >= 3
        /\ losses >= 3 => losses' >= 3
        /\ losses' >= 1
    BY <2>1
  <2> HIDE DEF beacon, ping
  <2>5. CASE probe.marker = 0
    BY <1>2, <1>3, <2>1, <2>3, <2>4, <2>5 DEF Accounted
  <2>6. CASE probe.marker = 1
    <3>1. (beacon /\ ping) \/ (losses >= 1 /\ (beacon \/ ping)) \/ losses >= 2
      BY <1>3, <2>6 DEF Accounted
    <3>2. (losses' >= 1 /\ (beacon' \/ ping')) \/ losses' >= 2
      BY <2>1, <2>3, <2>4, <3>1
    <3>3. QED
      BY <1>2, <1>3, <2>1, <2>6, <3>2 DEF Accounted
  <2>7. CASE probe.marker >= 2
    <3>1. losses' >= 3
      <4>1. losses >= 2
        BY <2>1, <2>7 DEF Accounted
      <4>2. QED
        BY <2>4, <4>1
    <3>2. QED
      BY <1>2, <2>1, <2>7, <3>1 DEF Accounted
  <2>8. QED
    BY <2>1, <2>5, <2>6, <2>7
<1>7. CASE PicoRestart
  BY <1>7 DEF PicoRestart, Diagnosing, PicoRuns
<1>8. CASE \E d \in Directions : Cut(d)
  BY <1>8 DEF Cut, Diagnosing
<1>9. QED
  BY <1>4, <1>5, <1>6, <1>7, <1>8 DEF PicoStep

(* The account is kept. *)
LEMMA AccountKept ==
  ASSUME TypeOK, QuickAnswers, ProbeInv, [Next]_vars, Diagnosing'
  PROVE  Accounted'
<1>1. CASE UNCHANGED vars
  BY <1>1 DEF vars, serverVars, picoVars, lineVars, ProbeInv, Diagnosing, PicoRuns, Accounted, BeaconUnder,
              PingUnder, Under, UnderAt, Since
<1>2. CASE ServerStep
  <2>1. Diagnosing \/ sPhase = "get"
    BY <1>2 DEF ServerStep, RecvBeacon, RecvMark, RecvPing, RecvPong, RecvHere, RecvOwn, RecvRequest,
                RecvReply, IdlePass, Idle, picoVars, lineVars, Diagnosing, PicoRuns
  <2>2. Diagnosing
    BY <1>2, <2>1 DEF ServerStep, RecvBeacon, RecvMark, RecvPing, RecvPong, RecvHere, RecvOwn, RecvRequest,
                RecvReply, IdlePass, Idle, Diagnosing
  <2>3. QED
    BY <1>2, <2>2, AccountOfReading, AccountOfPass DEF ServerStep, ProbeInv
<1>3. CASE PicoStep \/ Enter \/ Tick \/ LoseLine \/ \E d \in Directions : Cut(d)
  <2>1. Diagnosing
    BY <1>3 DEF PicoStep, PicoRecv, PicoRecvMeta, SendPicoBeacon, PicoRestart, Enter, PicoAnswers,
                PicoBeaconDue, PicoLost, Tick, LoseLine, Cut, serverVars, picoVars, lineVars, Diagnosing, PicoRuns
  <2>2. QED
    BY <1>3, <2>1, AccountOfOthers DEF ProbeInv
<1>4. QED
  BY <1>1, <1>2, <1>3 DEF Next

(* Losses are counted, a dead direction stays dead, a program that has     *)
(* restarted stays out of the session.                                     *)
LEMMA OnlyGrows ==
  ASSUME [Next]_vars
  PROVE  /\ losses' = losses \/ losses' = losses + 1
         /\ cut \subseteq cut' /\ (PicoRuns' => PicoRuns)
<1>1. CASE ServerStep
  BY <1>1 DEF ServerStep, RecvBeacon, RecvMark, RecvPing, RecvPong, RecvHere, RecvOwn, RecvRequest,
              RecvReply, IdlePass, Idle, picoVars, lineVars, PicoRuns
<1>2. CASE PicoStep \/ Enter
  BY <1>2 DEF PicoStep, PicoRecv, PicoRecvMeta, SendPicoBeacon, PicoRestart, Enter, PicoAnswers,
              PicoBeaconDue, PicoLost, lineVars, PicoRuns
<1>3. CASE Tick \/ LoseLine \/ (\E d \in Directions : Cut(d)) \/ UNCHANGED vars
  BY <1>3 DEF Tick, LoseLine, Cut, picoVars, lineVars, vars, PicoRuns
<1>4. QED
  BY <1>1, <1>2, <1>3 DEF Next

(* An AYT? is sent only on a line that lost three lines or a direction.    *)
LEMMA AskedLate ==
  ASSUME TypeOK, QuickAnswers, ProbeInv, [Next]_vars, PicoRuns', Has(toP', "AYT?")
  PROVE  losses' >= 3 \/ "toU" \in cut'
<1>1. losses \in Nat /\ toP \in Seq(ToULine)
  BY SinceType
<1>2. /\ losses' = losses \/ losses' = losses + 1
      /\ cut \subseteq cut' /\ PicoRuns
  BY OnlyGrows
<1>3. CASE Has(toP, "AYT?")
  <2>1. losses >= 3 \/ "toU" \in cut
    BY <1>2, <1>3 DEF ProbeInv
  <2>2. QED
    BY <1>1, <1>2, <2>1
<1>4. CASE ~Has(toP, "AYT?")
  <2>1. ASSUME NEW rest, NEW out \in Seq(ToULine), ServerSends(rest, out), ~Has(out, "AYT?") PROVE FALSE
    BY <1>1, <1>4, <2>1, HadBefore DEF ServerSends
  <2>2. ASSUME NEW kind, NEW bit, kind # "AYT?", Sent(kind, bit) \in ToULine
        PROVE  /\ <<Sent(kind, bit)>> \in Seq(ToULine) /\ ~Has(<<Sent(kind, bit)>>, "AYT?")
    BY <1>1, <2>2, HadBefore, OnlyLine DEF Sent
  <2>3. /\ <<>> \in Seq(ToULine) /\ ~Has(<<>>, "AYT?")
        /\ \A bit \in Bits : \A kind \in ServerKinds : Sent(kind, bit) \in ToULine
        /\ 0 \in Bits /\ bits.beacon \in Bits /\ bits.ping \in Bits
        /\ toU # <<>> => Head(toU)[2] \in Bits
    <3>1. ToPLine \subseteq ToULine
      BY DEF ToPLine, ToULine
    <3>2. QED
      BY <1>1, <3>1, HadBefore, OnlyLine, SentTypes, SinceType DEF Bits, ToULine
  <2>4. /\ \A bit \in Bits : \A kind \in {"MARK_U", "PONG", "AYT-OK", "META", "ERR", "PING", "BEACON_U"} :
             /\ <<Sent(kind, bit)>> \in Seq(ToULine) /\ ~Has(<<Sent(kind, bit)>>, "AYT?")
        /\ Beacon \in Seq(ToULine) /\ ~Has(Beacon, "AYT?")
    <3>1. \A bit \in Bits : \A kind \in {"MARK_U", "PONG", "AYT-OK", "META", "ERR", "PING", "BEACON_U"} :
             /\ <<Sent(kind, bit)>> \in Seq(ToULine) /\ ~Has(<<Sent(kind, bit)>>, "AYT?")
      BY <2>2, <2>3 DEF ServerKinds
    <3>2. QED
      BY <2>3, <3>1 DEF Beacon
  <2>5. CASE \E bit \in Bits : \/ RecvBeacon(bit) \/ RecvMark(bit) \/ RecvPing(bit)
                               \/ RecvPong(bit) \/ RecvHere(bit) \/ RecvOwn(bit)
    BY <2>1, <2>3, <2>4, <2>5 DEF RecvBeacon, RecvMark, RecvPing, RecvPong, RecvHere, RecvOwn
  <2>6. CASE RecvRequest
    <3>1. toP' = toP \/ toP' = toP \o <<Sent("ERR", 0)>> \/ ServerSends(Tail(toU), <<Sent("META", 0)>>)
      <4>1. Append(toP, Sent("ERR", 0)) = toP \o <<Sent("ERR", 0)>>
        BY <1>1, <2>3, AppendIsConcat DEF ServerKinds
      <4>2. QED
        BY <2>6, <4>1 DEF RecvRequest
    <3>2. QED
      <4>1. /\ <<Sent("META", 0)>> \in Seq(ToULine) /\ ~Has(<<Sent("META", 0)>>, "AYT?")
            /\ <<Sent("ERR", 0)>> \in Seq(ToULine) /\ ~Has(<<Sent("ERR", 0)>>, "AYT?")
        BY <2>3, <2>4
      <4>2. CASE ServerSends(Tail(toU), <<Sent("META", 0)>>)
        BY <2>1, <4>1, <4>2
      <4>3. CASE toP' = toP \/ toP' = toP \o <<Sent("ERR", 0)>>
        <5>1. ~Has(toP \o <<Sent("ERR", 0)>>, "AYT?")
          BY <1>1, <1>4, <4>1, HadBefore
        <5>2. QED
          BY <1>4, <4>3, <5>1
      <4>4. QED
        BY <3>1, <4>2, <4>3
  <2>7. CASE RecvReply
    BY <2>1, <2>3, <2>4, <2>7 DEF RecvReply
  <2>8. CASE IdlePass /\ ~(Diagnose /\ ~PingsFirst)
    <3>1. ASSUME NEW bit \in Bits
          PROVE  /\ Beacon \o <<Sent("PING", bit)>> \in Seq(ToULine)
                 /\ ~Has(Beacon \o <<Sent("PING", bit)>>, "AYT?")
      BY <2>4, HadBefore, LinesType
    <3>2. CASE Diagnose /\ PingsFirst
      BY <2>1, <2>3, <3>1, <3>2 DEF Diagnose
    <3>3. CASE Ask
      BY <2>1, <2>3, <3>1, <3>3 DEF Ask
    <3>4. CASE BeaconOnly
      BY <2>1, <2>4, <3>4 DEF BeaconOnly
    <3>5. CASE GiveUp
      <4>1. toP' = toP \/ toP' = toP \o Beacon
        BY <3>5 DEF GiveUp
      <4>2. QED
        <5>1. \A t \in Seq(ToULine) : ~Has(t, "AYT?") => ~Has(toP \o t, "AYT?")
          BY <1>1, <1>4, HadBefore
        <5>2. Beacon \in Seq(ToULine) /\ ~Has(Beacon, "AYT?")
          BY <2>4
        <5>3. ~Has(toP \o Beacon, "AYT?")
          BY <5>1, <5>2
        <5>4. QED
          BY <1>4, <4>1, <5>3
    <3>6. QED
      BY <2>8, <3>2, <3>3, <3>4, <3>5 DEF IdlePass
  <2>9. CASE IdlePass /\ Diagnose /\ ~PingsFirst
    <3>1. UNCHANGED <<cut, losses, pPhase, sPhase>> /\ sPhase = "idle" /\ probe'.marker >= 3
      <4>1. probe'.marker = probe.marker + 1 /\ ~(probe.marker < 2)
        BY <2>9, TypeParts DEF Diagnose, ServerOK, NextProbe, PingsFirst
      <4>2. QED
        BY <2>9, <4>1, SinceType DEF IdlePass, Diagnose, picoVars, lineVars
    <3>2. CASE cut = {}
      <4>1. Diagnosing'
        BY <1>2, <3>1, <3>2 DEF Diagnosing, PicoRuns
      <4>2. QED
        BY <3>1, <4>1, AccountKept DEF Accounted
    <3>3. CASE "toP" \in cut
      BY <1>4, <2>9, <3>3 DEF Diagnose, ServerSends
    <3>4. QED
      BY <3>1, <3>2, <3>3 DEF ProbeInv, Directions
  <2>10. CASE PicoStep \/ Enter
    <3>1. toP' = toP \/ (toP # <<>> /\ toP' = Tail(toP))
      BY <2>10 DEF PicoStep, PicoRecv, PicoRecvMeta, SendPicoBeacon, PicoRestart, Enter, PicoSends, PicoReads
    <3>2. QED
      <4>1. toP # <<>> => ~Has(Tail(toP), "AYT?")
        BY <1>1, <1>4, HadBefore
      <4>2. QED
        BY <1>4, <3>1, <4>1
  <2>11. CASE Tick \/ LoseLine \/ (\E d \in Directions : Cut(d)) \/ UNCHANGED vars
    <3>1. \/ toP' = toP \/ toP' = Older(toP) \/ toP' = <<>>
          \/ toP # <<>> /\ toP' = Tail(toP)
      BY <2>11 DEF Tick, LoseLine, Cut, vars
    <3>2. QED
      <4>1. /\ ~Has(Older(toP), "AYT?") /\ ~Has(<<>>, "AYT?")
            /\ toP # <<>> => ~Has(Tail(toP), "AYT?")
        BY <1>1, <1>4, HadBefore
      <4>2. QED
        BY <1>4, <3>1, <4>1
  <2>12. QED
    BY <2>5, <2>6, <2>7, <2>8, <2>9, <2>10, <2>11 DEF Next, ServerStep
<1>5. QED
  BY <1>3, <1>4

(* A HERE is an answer to such an AYT?. *)
LEMMA AnsweredLate ==
  ASSUME TypeOK, ProbeInv, [Next]_vars, Has(toU', "HERE") \/ strayHere'
  PROVE  losses' >= 3
<1>1. losses \in Nat /\ toU \in Seq(ToULine) /\ toP \in Seq(ToULine)
  BY SinceType
<1>2. losses' = losses \/ losses' = losses + 1
  BY OnlyGrows
<1>3. losses >= 3 => losses' >= 3
  BY <1>1, <1>2
<1>4. CASE Has(toU, "HERE") \/ strayHere
  BY <1>3, <1>4 DEF ProbeInv
<1>5. CASE ~(Has(toU, "HERE") \/ strayHere)
  <2>1. \A out \in Seq(ToPLine) : ~Has(out, "HERE")
    <3>1. ASSUME NEW out \in Seq(ToPLine), NEW i \in 1 .. Len(out) PROVE out[i][1] # "HERE"
      <4>1. out[i] \in ToPLine
        BY ElementOfSeq
      <4>2. QED
        BY <4>1 DEF ToPLine, ServerKinds
    <3>2. QED
      BY <3>1 DEF Has
  <2>2. ASSUME NEW rest \in Seq(ToULine), NEW out \in Seq(ToPLine), ServerSends(rest, out), ~Has(rest, "HERE")
        PROVE  ~Has(toU', "HERE")
    <3>1. toU' = rest \/ toU' = rest \o out
      BY <2>2 DEF ServerSends
    <3>2. QED
      BY <2>1, <2>2, <3>1, HadBefore, LinesType
  <2>3. /\ \A bit \in Bits : \A kind \in ServerKinds : <<Sent(kind, bit)>> \in Seq(ToPLine)
        /\ <<>> \in Seq(ToPLine) /\ 0 \in Bits
        /\ bits.ping \in Bits /\ bits.ayt \in Bits /\ bits.beacon \in Bits
        /\ {"MARK_U", "PONG", "AYT-OK", "META", "BEACON_U", "PING", "AYT?"} \subseteq ServerKinds
    BY SentTypes, OnlyLine, SinceType DEF ServerKinds, Bits
  <2>4. toU # <<>> => /\ Tail(toU) \in Seq(ToULine) /\ ~Has(Tail(toU), "HERE")
                      /\ Head(toU)[1] # "HERE" /\ Head(toU)[2] \in Bits
    BY <1>1, <1>5, HadBefore, SinceType DEF ToULine
  <2>5. CASE RecvReply
    <3>1. ~strayHere'
      BY <2>4, <2>5 DEF RecvReply
    <3>2. toU # <<>> /\ \E out \in Seq(ToPLine) : ServerSends(Tail(toU), out)
      BY <2>3, <2>4, <2>5 DEF RecvReply
    <3>3. QED
      BY <2>2, <2>4, <3>1, <3>2
  <2>6. CASE \/ \E bit \in Bits : \/ RecvBeacon(bit) \/ RecvMark(bit) \/ RecvPing(bit)
                                  \/ RecvPong(bit) \/ RecvHere(bit) \/ RecvOwn(bit)
             \/ RecvRequest
    <3>1. UNCHANGED strayHere
      BY <2>6 DEF RecvBeacon, RecvMark, RecvPing, RecvPong, RecvHere, RecvOwn, RecvRequest, Idle
    <3>2. \/ toU' = <<>>
          \/ toU # <<>> /\ \E out \in Seq(ToPLine) : ServerSends(Tail(toU), out)
      BY <2>3, <2>6 DEF RecvBeacon, RecvMark, RecvPing, RecvPong, RecvHere, RecvOwn, RecvRequest, ServerReads
    <3>3. QED
      BY <1>1, <1>5, <2>2, <2>4, <3>1, <3>2, HadBefore
  <2>7. CASE IdlePass
    <3>1. UNCHANGED strayHere
      BY <2>7 DEF IdlePass
    <3>2. Beacon \in Seq(ToPLine)
      BY <2>3 DEF Beacon
    <3>3. toU' = <<>> \/ \E out \in Seq(ToPLine) : ServerSends(toU, out)
      <4>1. \A bit \in Bits : \A kind \in {"PING", "AYT?"} : Beacon \o <<Sent(kind, bit)>> \in Seq(ToPLine)
        BY <2>3, <3>2, LinesType
      <4>2. CASE Diagnose
        BY <2>3, <4>1, <4>2 DEF Diagnose
      <4>3. CASE Ask
        BY <2>3, <4>1, <4>3 DEF Ask
      <4>4. CASE BeaconOnly \/ GiveUp
        BY <3>2, <4>4 DEF BeaconOnly, GiveUp
      <4>5. QED
        BY <2>7, <4>2, <4>3, <4>4 DEF IdlePass
    <3>4. QED
      BY <1>1, <1>5, <2>2, <3>1, <3>3, HadBefore
  <2>8. CASE PicoStep \/ Enter
    <3>1. UNCHANGED <<strayHere, losses, cut>>
      BY <2>8 DEF PicoStep, PicoRecv, PicoRecvMeta, SendPicoBeacon, PicoRestart, Enter, PicoAnswers,
                  serverVars, lineVars
    <3>2. /\ \A bit \in Bits : \A kind \in {"MARK_P", "PONG", "READY", "BEACON_P", "GET"} :
               <<Sent(kind, bit)>> \in Seq(ToULine) /\ ~Has(<<Sent(kind, bit)>>, "HERE")
          /\ <<>> \in Seq(ToULine) /\ ~Has(<<>>, "HERE") /\ pBit \in Bits /\ 0 \in Bits
      <4>1. ASSUME NEW bit \in Bits, NEW kind \in {"MARK_P", "PONG", "READY", "BEACON_P", "GET"}
            PROVE  <<Sent(kind, bit)>> \in Seq(ToULine) /\ ~Has(<<Sent(kind, bit)>>, "HERE")
        <5>1. <<Sent(kind, bit)>> \in Seq(ToULine) /\ Sent(kind, bit)[1] # "HERE"
          BY SentTypes, OnlyLine DEF PicoKinds, Sent
        <5>2. QED
          BY <1>1, <5>1, HadBefore
      <4>2. QED
        BY <1>1, <4>1, HadBefore, OnlyLine, TypeParts DEF PicoOK, Bits
    <3>3. CASE toU' = toU
      BY <1>5, <3>1, <3>3
    <3>4. CASE \E out \in Seq(ToULine) : ~Has(out, "HERE") /\ toU' = toU \o out
      BY <1>1, <1>5, <3>1, <3>4, HadBefore
    <3>5. CASE PicoRestart \/ PicoRecvMeta \/ SendPicoBeacon \/ Enter
      BY <3>2, <3>3, <3>4, <3>5 DEF PicoRestart, PicoRecvMeta, SendPicoBeacon, Enter, PicoSends
    <3>6. CASE PicoRecv /\ "toU" \in cut
      BY <3>3, <3>6 DEF PicoRecv, PicoSends
    <3>7. CASE PicoRecv /\ "toU" \notin cut
      <4>1. toP # <<>> /\ Head(toP)[2] \in Bits /\ PicoRuns
        BY <1>1, <3>7, LinesType DEF PicoRecv, PicoAnswers, ToULine
      <4>2. CASE Head(toP)[1] = "AYT?"
        <5>1. Has(toP, "AYT?")
          BY <1>1, <4>1, <4>2, HadBefore
        <5>2. QED
          BY <1>3, <3>7, <4>1, <5>1 DEF ProbeInv
      <4>3. CASE Head(toP)[1] # "AYT?"
        <5>1. /\ Answer(Head(toP)[1], Head(toP)[2]) \in Seq(ToULine)
              /\ ~Has(Answer(Head(toP)[1], Head(toP)[2]), "HERE")
          BY <3>2, <4>1, <4>3 DEF Answer
        <5>2. QED
          BY <3>3, <3>4, <3>7, <5>1 DEF PicoRecv, PicoSends
      <4>4. QED
        BY <4>2, <4>3
    <3>8. QED
      BY <2>8, <3>5, <3>6, <3>7 DEF PicoStep
  <2>9. CASE Tick \/ LoseLine \/ (\E d \in Directions : Cut(d)) \/ UNCHANGED vars
    <3>1. /\ UNCHANGED strayHere
          /\ \/ toU' = toU \/ toU' = Older(toU) \/ toU' = <<>>
             \/ toU # <<>> /\ toU' = Tail(toU)
      BY <2>9 DEF Tick, LoseLine, Cut, vars, serverVars
    <3>2. QED
      <4>1. /\ ~Has(Older(toU), "HERE") /\ ~Has(<<>>, "HERE")
            /\ toU # <<>> => ~Has(Tail(toU), "HERE")
        BY <1>1, <1>5, HadBefore
      <4>2. QED
        BY <1>5, <3>1, <4>1
  <2>10. QED
    BY <2>5, <2>6, <2>7, <2>8, <2>9 DEF Next, ServerStep
<1>6. QED
  BY <1>4, <1>5

(* The account of the diagnosis is kept. *)
LEMMA ProbesAccounted == QuickAnswers => (Spec => []ProbeInv)
<1>1. SUFFICES ASSUME QuickAnswers PROVE Spec => []ProbeInv
  OBVIOUS
<1>2. Init => ProbeInv
  <2>1. ~Has(<<>>, "AYT?") /\ ~Has(<<>>, "HERE")
    BY DEF Has
  <2>2. QED
    BY <2>1 DEF Init, ProbeInv, Accounted, NoProbe
<1>3. TypeOK /\ ProbeInv /\ [Next]_vars => ProbeInv'
  <2>1. SUFFICES ASSUME TypeOK, ProbeInv, [Next]_vars PROVE ProbeInv'
    OBVIOUS
  <2>2. cut' \subseteq Directions
    BY <2>1 DEF ProbeInv, Next, ServerStep, RecvBeacon, RecvMark, RecvPing, RecvPong, RecvHere, RecvOwn,
                RecvRequest, RecvReply, IdlePass, Idle, PicoStep, PicoRecv, PicoRecvMeta, SendPicoBeacon,
                PicoRestart, Enter, PicoAnswers, Tick, LoseLine, Cut, lineVars, vars
  <2>3. Diagnosing' => Accounted'
    BY <1>1, <2>1, AccountKept
  <2>4. PicoRuns' /\ Has(toP', "AYT?") => losses' >= 3 \/ "toU" \in cut'
    BY <1>1, <2>1, AskedLate
  <2>5. Has(toU', "HERE") \/ strayHere' => losses' >= 3
    BY <2>1, AnsweredLate
  <2>6. QED
    BY <2>2, <2>3, <2>4, <2>5 DEF ProbeInv
<1>4. QED
  BY <1>2, <1>3, IdleTypes, PTL DEF Spec

(* An answer to the idle diagnosis of recv_line, a HERE, is read in place   *)
(* of READY only when three lines were lost before the request, whatever    *)
(* the intervals, the echo of the bridge and the direction that goes dead,  *)
(* as long as a question and its answer take less than an interval.         *)
THEOREM RequestSurvivesProbes == QuickAnswers => (Spec => []GetSurvives)
<1>1. ProbeInv => GetSurvives
  BY DEF ProbeInv, GetSurvives
<1>2. QED
  BY <1>1, ProbesAccounted, PTL

-----------------------------------------------------------------------------
(* Dead directions.  DeadLinkFound is not inductive.  DeadInv says which    *)
(* clocks of recv_line ran since the cut: the beacon's until the first      *)
(* beacon without a receipt, then the probe's, once for each marker probe.  *)
(* They start again only for a line the peer sent before it was cut off,    *)
(* which is at most Latency old, never for an echo.                         *)

LinesOn(lines) == {lines[i] : i \in 1 .. Len(lines)}

(* The wait for the first beacon that goes unanswered. *)
FirstBeacon == IF every < Interval THEN 0 ELSE every

(* A last answer may come late, except when its own direction is cut. *)
Slack == IF cut = {"toU"} THEN 0 ELSE Latency

(* The clocks of recv_line: a receipt is also a line, and a beacon goes out *)
(* with or after the receipt of the one before it.                          *)
Order ==
  /\ probe.marker >= 1 => probe.waiting # None /\ ages.mark >= Interval
  /\ ages.mark >= Interval \/ ages.rx <= ages.mark
  /\ probe.waiting = None => ages.beacon >= every \/ ages.mark <= ages.beacon
  /\ every < Interval /\ probe.marker = 0 => ages.mark <= ages.ping

(* Has the first beacon after the cut been sent, or is it sent with the    *)
(* probe?                                                                   *)
Beaconed == probe.waiting # None \/ every < Interval

Clock ==
  /\ probe.marker >= 1 => cutFor <= FirstBeacon + Slack + probe.marker * Interval + ages.ping
  /\ probe.marker = 0 /\ Beaconed =>
       cutFor <= FirstBeacon + Slack + ages.mark /\ cutFor <= FirstBeacon + Slack + ages.ping
  /\ probe.marker = 0 /\ ~Beaconed => cutFor <= Slack + ages.beacon

(* What a line on its way to the server can prove.  Receipts and HERE are  *)
(* the peer's own; a PONG may be the echo of the server's answer to its     *)
(* own PING, but never to the outstanding one.                              *)
Heard(m) ==
  /\ m[1] \in {"MARK_P", "HERE"} => cutFor <= m[3]
  /\ m[1] = "PONG" => cutFor <= m[3] \/ (m[2] # probe.outstanding /\ ages.ping <= m[3] + Latency)
  /\ m[1] \in {"PING", "AYT?"} => ages.ping <= m[3]
  /\ "toU" \in cut => /\ m[1] \in {"BEACON_U", "PING", "AYT?"}
                      /\ m[1] = "PING" => m[2] = probe.outstanding

(* The latest the server may still send to the program. *)
LastWord == FirstBeacon + (Retries + 1) * Interval + Latency

AtPrompt ==
  /\ sPhase \notin {"get", "over"} /\ ~Has(toU, "GET")
  /\ cutFor <= LastWord + Latency + pAges.rx
  /\ \A m \in LinesOn(toP) : cutFor <= LastWord + m[3]

DeadInv ==
  /\ cut \subseteq Directions
  /\ cut = {} => cutFor = 0
  /\ "toP" \in cut => toP = <<>>
  /\ sPhase = "idle" => Order /\ Clock /\ \A m \in LinesOn(toU) : Heard(m)
  /\ pPhase = "prompt" => AtPrompt

(* The lines of a channel. *)
LEMMA LinesOnType == \A s \in Seq(ToULine) : LinesOn(s) \subseteq ToULine
<1>1. ASSUME NEW s \in Seq(ToULine), NEW i \in 1 .. Len(s) PROVE s[i] \in ToULine
  BY ElementOfSeq
<1>2. QED
  BY <1>1 DEF LinesOn

LEMMA LinesOnBoth ==
  ASSUME NEW s \in Seq(ToULine), NEW t \in Seq(ToULine)
  PROVE  LinesOn(s \o t) \subseteq LinesOn(s) \union LinesOn(t)
<1>1. Len(s) \in Nat /\ Len(t) \in Nat /\ Len(s \o t) = Len(s) + Len(t)
  BY LenProperties, ConcatProperties
<1>2. ASSUME NEW i \in 1 .. Len(s \o t) PROVE (s \o t)[i] \in LinesOn(s) \union LinesOn(t)
  <2>1. CASE i <= Len(s)
    BY <1>1, <2>1, ConcatProperties DEF LinesOn
  <2>2. CASE i > Len(s)
    <3>1. i - Len(s) \in 1 .. Len(t) /\ (s \o t)[i] = t[i - Len(s)]
      BY <1>1, <2>2, ConcatProperties
    <3>2. QED
      BY <3>1 DEF LinesOn
  <2>3. QED
    BY <1>1, <2>1, <2>2
<1>3. QED
  BY <1>2 DEF LinesOn

LEMMA LinesOnParts ==
  /\ \A s \in Seq(ToULine) : s # <<>> => LinesOn(Tail(s)) \subseteq LinesOn(s) /\ Head(s) \in LinesOn(s)
  /\ LinesOn(<<>>) = {} /\ \A q : LinesOn(<<q>>) = {q}
<1>1. ASSUME NEW s \in Seq(ToULine), s # <<>>
      PROVE  LinesOn(Tail(s)) \subseteq LinesOn(s) /\ Head(s) \in LinesOn(s)
  <2>1. Len(s) \in Nat
    BY LenProperties
  <2>2. /\ Len(Tail(s)) = Len(s) - 1 /\ Head(s) = s[1] /\ 1 \in 1 .. Len(s)
        /\ \A i \in 1 .. Len(Tail(s)) : Tail(s)[i] = s[i + 1] /\ i + 1 \in 1 .. Len(s)
    BY <1>1, <2>1, HeadTailProperties, EmptySeq
  <2>3. QED
    BY <2>2 DEF LinesOn
<1>2. LinesOn(<<>>) = {} /\ \A q : LinesOn(<<q>>) = {q}
  BY DEF LinesOn
<1>3. QED
  BY <1>1, <1>2

LEMMA LinesOnOlder ==
  ASSUME NEW s \in Seq(ToULine), MayWait(s), NEW n \in LinesOn(Older(s))
  PROVE  \E m \in LinesOn(s) : n[1] = m[1] /\ n[2] = m[2] /\ n[3] = m[3] + 1
<1>1. PICK i \in 1 .. Len(s) : n = <<s[i][1], s[i][2], Least(s[i][3] + 1, Latency)>>
  <2>1. Len(s) \in Nat /\ Len(Older(s)) = Len(s)
    BY OlderType, LenProperties DEF Older
  <2>2. QED
    BY <2>1 DEF LinesOn, Older
<1>2. s[i][3] \in 0 .. Latency /\ Latency \in Nat /\ s[i][3] < Latency
  BY CarriedLine DEF MayWait
<1>3. Least(s[i][3] + 1, Latency) = s[i][3] + 1
  <2>1. s[i][3] + 1 \in Nat /\ s[i][3] + 1 <= Latency
    BY <1>2
  <2>2. QED
    BY <1>2, <2>1, LeastType
<1>4. QED
  BY <1>1, <1>3 DEF LinesOn

(* What the server's sending adds. *)
LEMMA LinesOnSent ==
  ASSUME TypeOK, NEW rest \in Seq(ToULine), NEW out \in Seq(ToPLine), ServerSends(rest, out)
  PROVE  /\ LinesOn(toU') \subseteq LinesOn(rest) \union LinesOn(out)
         /\ LinesOn(toP') \subseteq LinesOn(toP) \union LinesOn(out)
         /\ "toP" \in cut => toP' = toP
<1>1. out \in Seq(ToULine) /\ toP \in Seq(ToULine)
  BY LinesType, SinceType
<1>2. QED
  BY <1>1, LinesOnBoth DEF ServerSends

(* The numbers of DeadInv. *)
LEMMA Products ==
  /\ \A k, i \in Nat : k * i \in Nat /\ (k + 1) * i = k * i + i /\ (k + 2) * i = (k + 1) * i + i
  /\ \A k, n, i \in Nat : k <= n => k * i <= n * i
  OBVIOUS

LEMMA DeadTypes ==
  ASSUME TypeOK
  PROVE  /\ cutFor \in Nat /\ Latency \in Nat /\ Interval \in Nat /\ Interval >= 1 /\ Retries \in Nat
         /\ every \in Nat /\ FirstBeacon \in Nat /\ Slack \in Nat /\ Slack <= Latency /\ LastWord \in Nat
         /\ ages.rx \in Nat /\ ages.ping \in Nat /\ ages.beacon \in Nat /\ ages.mark \in Nat
         /\ ages.ping <= Interval /\ ages.beacon <= every /\ ages.mark <= Interval
         /\ probe.marker \in Nat /\ probe.marker <= Retries + 1 /\ probe.marker * Interval \in Nat
         /\ pAges.rx \in Nat /\ pAges.rx <= PicoTimeout /\ PicoTimeout \in Nat
<1>1. ServerOK /\ PicoOK /\ WorldOK
  BY TypeParts
<1>2. /\ LongestWait \in Nat /\ every \in Nat /\ PicoBound \in Nat
      /\ Latency \in Nat /\ Interval \in Nat /\ Interval >= 1 /\ Retries \in Nat /\ PicoTimeout \in Nat
  BY <1>1, Bounds, Constants DEF WorldOK
<1>3. /\ ages.rx \in Nat /\ ages.ping \in Nat /\ ages.beacon \in Nat /\ ages.mark \in Nat
      /\ ages.ping <= Interval /\ ages.beacon <= every /\ ages.mark <= Interval
      /\ probe.marker \in Nat /\ probe.marker <= Retries + 1
  BY <1>1, <1>2 DEF ServerOK
<1>4. pAges.rx \in Nat /\ pAges.rx <= PicoTimeout /\ cutFor \in Nat
  BY <1>1, <1>2 DEF PicoOK, WorldOK
<1>5. probe.marker * Interval \in Nat /\ (Retries + 1) * Interval \in Nat
  BY <1>2, <1>3, Products
<1>6. FirstBeacon \in Nat /\ Slack \in Nat /\ Slack <= Latency
  BY <1>2 DEF FirstBeacon, Slack
<1>7. LastWord \in Nat
  BY <1>2, <1>5, <1>6 DEF LastWord
<1>8. QED
  BY <1>2, <1>3, <1>4, <1>5, <1>6, <1>7

-----------------------------------------------------------------------------
(* The server may speak to the program until LastWord. *)
LEMMA SpokenInTime ==
  ASSUME TypeOK, Clock, \/ probe.marker <= Retries
                        \/ ages.ping <= Latency /\ Slack = 0
  PROVE  cutFor <= LastWord
<1>1. /\ (Retries + 1) * Interval \in Nat /\ (Retries + 1) * Interval >= Interval
      /\ probe.marker * Interval <= (Retries + 1) * Interval
      /\ probe.marker <= Retries => probe.marker * Interval + Interval <= (Retries + 1) * Interval
  <2>1. \A k, n, i \in Nat : /\ (n + 1) * i \in Nat /\ (n + 1) * i >= i
                             /\ k <= n + 1 => k * i <= (n + 1) * i
                             /\ k <= n => k * i + i <= (n + 1) * i
    <3>1. ASSUME NEW k \in Nat, NEW n \in Nat, NEW i \in Nat
          PROVE  /\ (n + 1) * i \in Nat /\ (n + 1) * i >= i
                 /\ k <= n + 1 => k * i <= (n + 1) * i
                 /\ k <= n => k * i + i <= (n + 1) * i
      <4>1. n + 1 \in Nat /\ n * i \in Nat /\ (n + 1) * i = n * i + i
        BY Products
      <4>2. k * i \in Nat /\ (k <= n => k * i <= n * i) /\ (k <= n + 1 => k * i <= (n + 1) * i)
        BY <4>1, Products
      <4>3. QED
        BY <4>1, <4>2
    <3>2. QED
      BY <3>1
  <2>2. QED
    BY <2>1, DeadTypes, Zenon
<1>2. every >= Interval => FirstBeacon = every
  BY DeadTypes DEF FirstBeacon
<1>3. CASE probe.marker = 0
  <2>1. CASE Beaconed
    BY <1>1, <1>3, <2>1, DeadTypes DEF Clock, LastWord
  <2>2. CASE ~Beaconed
    <3>1. FirstBeacon = every
      BY <1>2, <2>2, DeadTypes DEF Beaconed
    <3>2. QED
      BY <1>1, <1>3, <2>2, <3>1, DeadTypes DEF Clock, LastWord
  <2>3. QED
    BY <2>1, <2>2
<1>4. CASE probe.marker >= 1
  <2> DEFINE spent == probe.marker * Interval
             whole == (Retries + 1) * Interval
  <2>1. cutFor <= FirstBeacon + Slack + spent + ages.ping /\ LastWord = FirstBeacon + whole + Latency
    BY <1>4 DEF Clock, LastWord
  <2>2. /\ spent \in Nat /\ whole \in Nat /\ spent <= whole
        /\ probe.marker <= Retries => spent + Interval <= whole
    BY <1>1, DeadTypes
  <2> HIDE DEF spent, whole
  <2>3. QED
    BY <2>1, <2>2, DeadTypes
<1>5. QED
  BY <1>3, <1>4, DeadTypes

(* What was heard since, or is heard now: the clocks start again. *)
LEMMA ClocksRestart ==
  ASSUME TypeOK, "toU" \notin cut, UNCHANGED <<cut, cutFor, every>>, cutFor <= Latency,
         probe'.marker = 0, probe'.waiting = None, probe'.outstanding = None,
         ages'.rx = 0, ages'.mark = 0, ages'.ping = ages.ping,
         ages'.beacon = 0 \/ ages'.beacon = ages.beacon
  PROVE  Order' /\ Clock' /\ \A m \in ToULine : Heard(m) => Heard(m)'
<1>1. Slack' = Latency /\ FirstBeacon' = FirstBeacon /\ ages'.beacon \in Nat
  BY DeadTypes DEF Slack, FirstBeacon
<1>2. Order' /\ Clock'
  BY <1>1, DeadTypes DEF Order, Clock, Beaconed
<1>3. ASSUME NEW m \in ToULine, Heard(m) PROVE Heard(m)'
  <2>1. m[2] # probe'.outstanding
    BY <1>3 DEF ToULine, Bits, None
  <2>2. CASE m[1] = "PONG"
    BY <1>3, <2>1, <2>2, DeadTypes DEF Heard
  <2>3. CASE m[1] # "PONG"
    BY <1>3, <2>3 DEF Heard
  <2>4. QED
    BY <2>2, <2>3
<1>4. QED
  BY <1>2, <1>3

(* A line that says nothing about the link. *)
LEMMA ClocksRun ==
  ASSUME TypeOK, Order, Clock, UNCHANGED <<cut, cutFor, every>>,
         probe'.marker = probe.marker, probe'.waiting = probe.waiting,
         probe'.outstanding = probe.outstanding,
         ages'.rx = 0 \/ ages'.rx = ages.rx,
         ages'.mark = ages.mark, ages'.ping = ages.ping, ages'.beacon = ages.beacon
  PROVE  Order' /\ Clock' /\ \A m \in ToULine : Heard(m) => Heard(m)'
<1>1. Slack' = Slack /\ FirstBeacon' = FirstBeacon
  BY DEF Slack, FirstBeacon
<1>2. Order' /\ Clock'
  BY <1>1, DeadTypes DEF Order, Clock, Beaconed
<1>3. \A m \in ToULine : Heard(m) => Heard(m)'
  BY DEF Heard
<1>4. QED
  BY <1>2, <1>3

(* A line read in the idle loop. *)
LEMMA DeadReading ==
  ASSUME TypeOK, DeadInv,
         NEW bit \in Bits,
         \/ RecvBeacon(bit) \/ RecvMark(bit) \/ RecvPing(bit)
         \/ RecvPong(bit) \/ RecvHere(bit) \/ RecvOwn(bit)
  PROVE  Order' /\ Clock' /\ \A m \in LinesOn(toU') : Heard(m)'
<1>1. /\ Idle /\ toU # <<>> /\ Head(toU)[2] = bit /\ Head(toU) \in LinesOn(toU)
      /\ UNCHANGED <<cut, cutFor, every>> /\ Head(toU) \in ToULine /\ Tail(toU) \in Seq(ToULine)
      /\ LinesOn(Tail(toU)) \subseteq LinesOn(toU) /\ LinesOn(toU) \subseteq ToULine
  <2>1. Idle /\ toU # <<>> /\ Head(toU)[2] = bit
    BY DEF RecvBeacon, RecvMark, RecvPing, RecvPong, RecvHere, RecvOwn, ServerReads
  <2>2. QED
    BY <2>1, SinceType, LinesOnParts, LinesOnType DEF Idle, lineVars
<1>2. Order /\ Clock /\ Heard(Head(toU)) /\ \A m \in LinesOn(Tail(toU)) : m \in ToULine /\ Heard(m)
  BY <1>1 DEF DeadInv, Idle
<1>3. Head(toU)[3] \in Nat /\ Head(toU)[3] <= Latency
  BY <1>1, Constants DEF ToULine
<1>4. /\ \A kind \in ServerKinds : <<Sent(kind, bit)>> \in Seq(ToPLine) /\ Sent(kind, bit) \in ToULine
      /\ <<>> \in Seq(ToPLine) /\ {"MARK_U", "PONG", "AYT-OK"} \subseteq ServerKinds
  BY SentTypes, OnlyLine DEF ServerKinds, ToPLine, ToULine
<1>5. probe.outstanding \in Bits \union {None} /\ bit # None
  BY SinceType DEF Bits, None
<1>5a. /\ ages = [rx |-> ages.rx, ping |-> ages.ping, beacon |-> ages.beacon, mark |-> ages.mark]
       /\ probe = [outstanding |-> probe.outstanding, sent |-> probe.sent, waiting |-> probe.waiting,
                   marker |-> probe.marker]
  BY TypeParts DEF ServerOK
<1>5b. ASSUME Head(toU)[1] \in {"MARK_P", "HERE"} \/ (Head(toU)[1] = "PONG" /\ bit = probe.outstanding)
       PROVE  "toU" \notin cut /\ "toU" \notin cut' /\ cutFor <= Latency
  <2>1. "toU" \notin cut /\ cutFor <= Head(toU)[3]
    BY <1>1, <1>2, <1>5b DEF Heard
  <2>2. QED
    <3>1. "toU" \notin cut'
      BY <1>1, <2>1
    <3>2. PICK c \in Nat, h \in Nat, l \in Nat : c = cutFor /\ h = Head(toU)[3] /\ l = Latency
      BY <1>3, DeadTypes
    <3>3. c <= h /\ h <= l
      BY <1>3, <2>1, <3>2
    <3>4. c <= l
      BY <3>3
    <3>5. QED
      BY <2>1, <3>1, <3>2, <3>4
<1>6. ASSUME NEW q \in ToULine, Heard(q)', Order', Clock', \A m \in ToULine : Heard(m) => Heard(m)',
             \A m \in LinesOn(toU') : m \in LinesOn(Tail(toU)) \/ m = q
      PROVE  Order' /\ Clock' /\ \A m \in LinesOn(toU') : Heard(m)'
  BY <1>2, <1>6
<1>7. ASSUME Order', Clock', \A m \in ToULine : Heard(m) => Heard(m)', ServerSends(Tail(toU), <<>>)
      PROVE  Order' /\ Clock' /\ \A m \in LinesOn(toU') : Heard(m)'
  <2>1. LinesOn(toU') \subseteq LinesOn(Tail(toU))
    BY <1>1, <1>4, <1>7, LinesOnSent, LinesOnParts
  <2>2. QED
    BY <1>2, <1>7, <2>1
<1>8. ASSUME NEW kind \in ServerKinds, ServerSends(Tail(toU), <<Sent(kind, bit)>>)
      PROVE  \A m \in LinesOn(toU') : m \in LinesOn(Tail(toU)) \/ m = Sent(kind, bit)
  <2>1. <<Sent(kind, bit)>> \in Seq(ToPLine)
    BY <1>4, <1>8
  <2>2. LinesOn(toU') \subseteq LinesOn(Tail(toU)) \union LinesOn(<<Sent(kind, bit)>>)
    BY <1>1, <1>8, <2>1, LinesOnSent
  <2>3. QED
    BY <2>2, LinesOnParts
<1>9. CASE RecvBeacon(bit)
  <2>1. /\ "toU" \notin cut /\ "toU" \notin cut'
    BY <1>1, <1>2, <1>9 DEF RecvBeacon, ServerReads, Heard
  <2>2. Order' /\ Clock' /\ \A m \in ToULine : Heard(m) => Heard(m)'
    BY <1>1, <1>2, <1>9, <1>5a, ClocksRun DEF RecvBeacon, BeaconProves
  <2>3. Heard(Sent("MARK_U", bit))'
    BY <2>1 DEF Heard, Sent
  <2>4. QED
    BY <1>4, <1>6, <1>8, <1>9, <2>2, <2>3 DEF RecvBeacon
<1>10. CASE RecvMark(bit)
  <2>1. "toU" \notin cut /\ cutFor <= Latency
    BY <1>10, <1>5b DEF RecvMark, ServerReads
  <2>2. Order' /\ Clock' /\ \A m \in ToULine : Heard(m) => Heard(m)'
    <3>1. CASE bit = probe.waiting
      <4>1. ages' = [ages EXCEPT !.rx = 0, !.mark = 0] /\ probe' = NoProbe
        BY <1>10, <3>1 DEF RecvMark
      <4>2. /\ ages'.rx = 0 /\ ages'.mark = 0 /\ ages'.ping = ages.ping /\ ages'.beacon = ages.beacon
            /\ probe'.marker = 0 /\ probe'.waiting = None /\ probe'.outstanding = None
        BY <1>5a, <4>1 DEF NoProbe
      <4>3. QED
        BY <1>1, <2>1, <4>2, ClocksRestart
    <3>2. CASE bit # probe.waiting
      BY <1>1, <1>2, <1>10, <3>2, <1>5a, ClocksRun DEF RecvMark
    <3>3. QED
      BY <3>1, <3>2
  <2>3. QED
    BY <1>7, <1>10, <2>2 DEF RecvMark
<1>11. CASE RecvPing(bit)
  <2>1. CASE FromPeer(bit)
    <3>1. "toU" \notin cut /\ "toU" \notin cut' /\ ages.ping <= Latency
      <4>1. "toU" \notin cut /\ ages.ping <= Head(toU)[3]
        BY <1>1, <1>2, <1>11, <2>1 DEF RecvPing, ServerReads, Heard, FromPeer
      <4>2. QED
        <5>1. "toU" \notin cut'
          BY <1>1, <4>1
        <5>2. PICK p \in Nat, h \in Nat, l \in Nat : p = ages.ping /\ h = Head(toU)[3] /\ l = Latency
          BY <1>3, DeadTypes
        <5>3. p <= h /\ h <= l
          BY <1>3, <4>1, <5>2
        <5>4. p <= l
          BY <5>3
        <5>5. QED
          BY <4>1, <5>1, <5>2, <5>4
    <3>2. Order' /\ Clock' /\ \A m \in ToULine : Heard(m) => Heard(m)'
      BY <1>1, <1>2, <1>11, <2>1, <1>5a, ClocksRun DEF RecvPing
    <3>3. Heard(Sent("PONG", bit))'
      <4>1. ages'.ping <= 0 + Latency /\ bit # probe'.outstanding
        <5>1. ages'.ping = ages.ping /\ probe'.outstanding = probe.outstanding
          BY <1>11, <1>5a, <2>1 DEF RecvPing
        <5>2. QED
          BY <2>1, <3>1, <5>1, DeadTypes DEF FromPeer
      <4>2. QED
        BY <3>1, <4>1 DEF Heard, Sent
    <3>4. QED
      BY <1>4, <1>6, <1>8, <1>11, <2>1, <3>2, <3>3 DEF RecvPing
  <2>2. CASE ~FromPeer(bit)
    <3>1. Order' /\ Clock' /\ \A m \in ToULine : Heard(m) => Heard(m)'
      BY <1>1, <1>2, <1>11, <2>2, <1>5a, ClocksRun DEF RecvPing
    <3>2. QED
      BY <1>7, <1>11, <2>2, <3>1 DEF RecvPing
  <2>3. QED
    BY <2>1, <2>2
<1>12. CASE RecvPong(bit)
  <2>1. Order' /\ Clock' /\ \A m \in ToULine : Heard(m) => Heard(m)'
    <3>1. CASE bit = probe.outstanding
      <4>1. "toU" \notin cut /\ cutFor <= Latency
        BY <1>12, <1>5b, <3>1 DEF RecvPong, ServerReads
      <4>2. QED
        <5>1. /\ ages' = [ages EXCEPT !.rx = 0, !.mark = 0, !.beacon = 0] /\ probe' = NoProbe
          BY <1>12, <3>1 DEF RecvPong, Confirmed
        <5>2. /\ ages'.rx = 0 /\ ages'.mark = 0 /\ ages'.ping = ages.ping /\ ages'.beacon = 0
              /\ probe'.marker = 0 /\ probe'.waiting = None /\ probe'.outstanding = None
          BY <1>5a, <5>1 DEF NoProbe
        <5>3. QED
          BY <1>1, <4>1, <5>2, ClocksRestart
    <3>2. CASE bit # probe.outstanding
      BY <1>1, <1>2, <1>12, <3>2, <1>5a, ClocksRun DEF RecvPong
    <3>3. QED
      BY <3>1, <3>2
  <2>2. QED
    BY <1>7, <1>12, <2>1 DEF RecvPong
<1>13. CASE RecvHere(bit)
  <2>1. "toU" \notin cut /\ "toU" \notin cut' /\ cutFor <= Latency
    BY <1>13, <1>5b DEF RecvHere, ServerReads
  <2>2. CASE bit = probe.outstanding
    <3>1. Order' /\ Clock' /\ \A m \in ToULine : Heard(m) => Heard(m)'
      BY <1>1, <1>13, <2>1, <2>2, <1>5a, ClocksRestart DEF RecvHere, NoProbe, Confirmed
    <3>2. Heard(Sent("AYT-OK", bit))'
      BY <2>1 DEF Heard, Sent
    <3>3. QED
      BY <1>4, <1>6, <1>8, <1>13, <2>2, <3>1, <3>2 DEF RecvHere
  <2>3. CASE bit # probe.outstanding
    <3>1. Order' /\ Clock' /\ \A m \in ToULine : Heard(m) => Heard(m)'
      BY <1>1, <1>2, <1>13, <2>3, <1>5a, ClocksRun DEF RecvHere
    <3>2. QED
      BY <1>7, <1>13, <2>3, <3>1 DEF RecvHere
  <2>4. QED
    BY <2>2, <2>3
<1>14. CASE RecvOwn(bit)
  <2>1. Order' /\ Clock' /\ \A m \in ToULine : Heard(m) => Heard(m)'
    BY <1>1, <1>2, <1>14, <1>5a, ClocksRun DEF RecvOwn
  <2>2. QED
    BY <1>7, <1>14, <2>1 DEF RecvOwn
<1>15. QED
  BY <1>9, <1>10, <1>11, <1>12, <1>13, <1>14

(* A pass in which nothing was read. *)
LEMMA DeadPass ==
  ASSUME TypeOK, QuickAnswers, DeadInv, IdlePass, sPhase' = "idle"
  PROVE  Order' /\ Clock' /\ \A m \in LinesOn(toU') : Heard(m)'
<1>1. Order /\ Clock /\ UNCHANGED <<cut, cutFor, every>> /\ \A m \in LinesOn(toU) : Heard(m)
  BY DEF IdlePass, DeadInv, lineVars
<1>2. /\ ages = [rx |-> ages.rx, ping |-> ages.ping, beacon |-> ages.beacon, mark |-> ages.mark]
      /\ probe = [outstanding |-> probe.outstanding, sent |-> probe.sent, waiting |-> probe.waiting,
                  marker |-> probe.marker]
  BY TypeParts DEF ServerOK
<1>3. Slack' = Slack /\ FirstBeacon' = FirstBeacon /\ (every >= Interval => FirstBeacon = every)
  BY <1>1, DeadTypes DEF Slack, FirstBeacon
<1>4. LinesOn(toU) \subseteq ToULine
  BY SinceType, LinesOnType
<1>5. /\ \A kind \in {"BEACON_U", "PING", "AYT?"}, b \in Bits : <<Sent(kind, b)>> \in Seq(ToPLine)
      /\ Beacon \in Seq(ToPLine) /\ \A m \in LinesOn(Beacon) : m[1] = "BEACON_U"
      /\ bits.beacon # None
  <2>1. /\ \A kind \in {"BEACON_U", "PING", "AYT?"}, b \in Bits : <<Sent(kind, b)>> \in Seq(ToPLine)
        /\ <<>> \in Seq(ToPLine) /\ bits.beacon \in Bits
    BY SentTypes, OnlyLine, SinceType DEF ServerKinds
  <2>2. Beacon \in Seq(ToPLine) /\ bits.beacon # None
    <3>1. <<Sent("BEACON_U", bits.beacon)>> \in Seq(ToPLine)
      BY <2>1
    <3>2. Beacon \in Seq(ToPLine)
      BY <2>1, <3>1 DEF Beacon
    <3>3. \A b \in Bits : b # None
      BY DEF Bits, None
    <3>4. QED
      BY <2>1, <3>2, <3>3
  <2>3. \A m \in LinesOn(Beacon) : m[1] = "BEACON_U"
    <3>1. LinesOn(Beacon) \subseteq {Sent("BEACON_U", bits.beacon)}
      BY LinesOnParts DEF Beacon
    <3>2. Sent("BEACON_U", bits.beacon)[1] = "BEACON_U"
      BY DEF Sent
    <3>3. QED
      BY <3>1, <3>2
  <2>4. QED
    BY <2>1, <2>2, <2>3
<1>6. ASSUME ages.ping >= Interval, ages'.ping = 0, NEW kind \in {"PING", "AYT?"}, NEW number \in Bits,
             ServerSends(toU, Beacon \o <<Sent(kind, number)>>), probe'.outstanding = number
      PROVE  \A m \in LinesOn(toU') : Heard(m)'
  <2>1. ASSUME NEW m \in LinesOn(toU) PROVE Heard(m)'
    <3>1. Heard(m) /\ m[3] \in Nat /\ m[3] <= Latency
      BY <1>1, <1>4, <2>1, Constants DEF ToULine
    <3>2. m[1] \notin {"PING", "AYT?"}
      <4>1. ~(ages.ping <= m[3])
        BY <1>6, <3>1, DeadTypes DEF QuickAnswers
      <4>2. QED
        BY <3>1, <4>1 DEF Heard
    <3>3. m[1] = "PONG" => cutFor <= m[3]
      <4>1. ~(ages.ping <= m[3] + Latency)
        BY <1>6, <3>1, DeadTypes DEF QuickAnswers
      <4>2. QED
        BY <3>1, <4>1 DEF Heard
    <3>4. QED
      BY <1>1, <3>1, <3>2, <3>3 DEF Heard
  <2>2. ASSUME NEW m, m[1] = "BEACON_U" PROVE Heard(m)'
    BY <2>2 DEF Heard
  <2>3. ASSUME NEW m, m[1] = kind, m[2] = number, m[3] = 0 PROVE Heard(m)'
    <3>1. ages'.ping <= m[3] /\ m[2] = probe'.outstanding /\ m[1] \in {"PING", "AYT?"}
      BY <1>6, <2>3
    <3>2. QED
      BY <3>1 DEF Heard
  <2>4. LinesOn(toU') \subseteq LinesOn(toU) \union LinesOn(Beacon) \union LinesOn(<<Sent(kind, number)>>)
    <3>1. /\ <<Sent(kind, number)>> \in Seq(ToPLine) /\ <<Sent(kind, number)>> \in Seq(ToULine)
          /\ Beacon \in Seq(ToPLine) /\ Beacon \in Seq(ToULine)
      BY <1>5, <1>6, LinesType
    <3>2. Beacon \o <<Sent(kind, number)>> \in Seq(ToPLine)
      BY <3>1, LinesType
    <3>3. LinesOn(toU') \subseteq LinesOn(toU) \union LinesOn(Beacon \o <<Sent(kind, number)>>)
      BY <1>6, <3>2, SinceType, LinesOnSent
    <3>4. LinesOn(Beacon \o <<Sent(kind, number)>>) \subseteq LinesOn(Beacon) \union LinesOn(<<Sent(kind, number)>>)
      BY <3>1, LinesOnBoth
    <3>5. QED
      BY <3>3, <3>4
  <2>5. ASSUME NEW m \in LinesOn(<<Sent(kind, number)>>) PROVE m[1] = kind /\ m[2] = number /\ m[3] = 0
    BY <2>5, LinesOnParts DEF Sent
  <2>6. QED
    BY <1>5, <2>1, <2>2, <2>3, <2>4, <2>5
<1>7. /\ BeaconDue => probe.marker = 0 /\ probe.waiting = None /\ ages.beacon >= every
      /\ ~BeaconDue => WaitingNow = probe.waiting
  BY DEF BeaconDue, WaitingNow
<1>8. CASE Diagnose
  <2>1. /\ ages.ping >= Interval /\ WaitingNow # None /\ ages.mark >= Interval /\ probe.marker <= Retries
        /\ ages' = [ages EXCEPT !.ping = 0, !.beacon = IF BeaconDue THEN 0 ELSE @]
        /\ \E number \in Bits, kind \in {"PING", "AYT?"} :
             /\ ServerSends(toU, Beacon \o <<Sent(kind, number)>>)
             /\ probe' = [probe EXCEPT !.waiting = WaitingNow, !.outstanding = number, !.marker = probe.marker + 1]
    <3>1. probe.marker <= Retries
      BY <1>8, DeadTypes DEF Diagnose, LastMarkerProbe
    <3>2. ages.ping >= Interval /\ WaitingNow # None /\ ages.mark >= Interval
      BY <1>8 DEF Diagnose, Unmarked, ProbeDue
    <3>3. \E number \in Bits, kind \in {"PING", "AYT?"} :
            /\ ServerSends(toU, Beacon \o <<Sent(kind, number)>>)
            /\ probe' = [probe EXCEPT !.waiting = WaitingNow, !.outstanding = number, !.marker = probe.marker + 1]
      BY <1>8, SinceType, Zenon DEF Diagnose, NextProbe
    <3>4. QED
      BY <1>8, <3>1, <3>2, <3>3, Zenon DEF Diagnose
  <2>2. /\ ages'.ping = 0 /\ ages'.rx = ages.rx /\ ages'.mark = ages.mark
        /\ probe'.marker = probe.marker + 1 /\ probe'.waiting = WaitingNow
    BY <1>2, <2>1
  <2>3. Order'
    <3>1. probe'.marker # 0
      BY <2>2, DeadTypes
    <3>2. QED
      BY <1>1, <2>1, <2>2, <3>1 DEF Order
  <2>4. Clock'
    <3>1. cutFor <= FirstBeacon + Slack + (probe.marker + 1) * Interval
      <4>1. CASE probe.marker >= 1
        <5>1. (probe.marker + 1) * Interval = probe.marker * Interval + Interval
          BY Products, DeadTypes
        <5>2. cutFor <= FirstBeacon + Slack + probe.marker * Interval + ages.ping
          BY <1>1, <4>1 DEF Clock
        <5> DEFINE spent == probe.marker * Interval
        <5>3. spent \in Nat
          BY DeadTypes
        <5> HIDE DEF spent
        <5>4. cutFor <= FirstBeacon + Slack + (spent + Interval)
          BY <5>2, <5>3, DeadTypes DEF spent
        <5>5. QED
          BY <5>1, <5>4 DEF spent
      <4>2. CASE probe.marker = 0
        <5>1. (probe.marker + 1) * Interval = Interval
          BY <4>2, DeadTypes
        <5>2. CASE Beaconed
          BY <1>1, <4>2, <5>1, <5>2, DeadTypes DEF Clock
        <5>3. CASE ~Beaconed
          BY <1>1, <1>3, <4>2, <5>1, <5>3, DeadTypes DEF Clock, Beaconed
        <5>4. QED
          BY <5>2, <5>3
      <4>3. QED
        BY <4>1, <4>2, DeadTypes
    <3>2. FirstBeacon + Slack + (probe.marker + 1) * Interval + 0 = FirstBeacon + Slack + (probe.marker + 1) * Interval
      <4>1. (probe.marker + 1) * Interval \in Nat
        BY Products, DeadTypes
      <4>2. QED
        BY <4>1, DeadTypes
    <3>3. probe'.marker # 0
      BY <2>2, DeadTypes
    <3>4. QED
      BY <1>1, <1>3, <2>2, <3>1, <3>2, <3>3 DEF Clock
  <2>5. \A m \in LinesOn(toU') : Heard(m)'
    <3>1. PICK number \in Bits, kind \in {"PING", "AYT?"} :
             /\ ServerSends(toU, Beacon \o <<Sent(kind, number)>>)
             /\ probe' = [probe EXCEPT !.waiting = WaitingNow, !.outstanding = number, !.marker = probe.marker + 1]
      BY <2>1, Zenon
    <3>2. probe'.outstanding = number
      BY <1>2, <3>1
    <3>3. QED
      BY <1>6, <2>1, <2>2, <3>1, <3>2
  <2>6. QED
    BY <2>3, <2>4, <2>5
<1>9. CASE Ask
  <2>1. /\ ages.ping >= Interval /\ ages.rx >= Interval /\ ~Unmarked
        /\ ages' = [ages EXCEPT !.ping = 0, !.beacon = IF BeaconDue THEN 0 ELSE @]
        /\ probe' = [probe EXCEPT !.waiting = WaitingNow, !.outstanding = bits.ping, !.sent = @ + 1]
        /\ ServerSends(toU, Beacon \o <<Sent("PING", bits.ping)>>)
    BY <1>9 DEF Ask, Quiet, ProbeDue
  <2>2. ages.mark >= Interval
    BY <1>1, <2>1, DeadTypes DEF Order
  <2>3. WaitingNow = None
    BY <2>1, <2>2 DEF Unmarked, ProbeDue
  <2>4. ~BeaconDue /\ probe.waiting = None /\ probe.marker = 0
    <3>1. ~BeaconDue
      BY <1>5, <2>3 DEF WaitingNow
    <3>2. QED
      BY <1>1, <1>7, <2>3, <3>1, DeadTypes DEF Order
  <2>5. every >= Interval
    BY <1>1, <2>2, <2>4, DeadTypes DEF Order, BeaconDue
  <2>6. /\ ages'.ping = 0 /\ ages'.rx = ages.rx /\ ages'.mark = ages.mark /\ ages'.beacon = ages.beacon
        /\ probe'.marker = 0 /\ probe'.waiting = None /\ probe'.outstanding = bits.ping
    BY <1>2, <2>1, <2>3, <2>4
  <2>7. Order' /\ Clock'
    BY <1>1, <1>3, <2>4, <2>5, <2>6, DeadTypes DEF Order, Clock, Beaconed
  <2>8. \A m \in LinesOn(toU') : Heard(m)'
    <3>1. bits.ping \in Bits
      BY SinceType
    <3>2. QED
      BY <1>6, <2>1, <2>6, <3>1
  <2>9. QED
    BY <2>7, <2>8
<1>10. CASE BeaconOnly
  <2>1. /\ BeaconDue /\ probe' = [probe EXCEPT !.waiting = bits.beacon]
        /\ ServerSends(toU, Beacon) /\ ages' = [ages EXCEPT !.beacon = 0]
    BY <1>10 DEF BeaconOnly
  <2>2. /\ ages'.ping = ages.ping /\ ages'.rx = ages.rx /\ ages'.mark = ages.mark /\ ages'.beacon = 0
        /\ probe'.marker = 0 /\ probe.marker = 0 /\ probe'.waiting = bits.beacon /\ probe.waiting = None
        /\ probe'.outstanding = probe.outstanding
    BY <1>2, <1>7, <2>1
  <2>3. Order'
    BY <1>1, <1>5, <2>2 DEF Order
  <2>4. Clock'
    <3>1. cutFor <= FirstBeacon + Slack + ages.mark /\ cutFor <= FirstBeacon + Slack + ages.ping
      <4>1. CASE Beaconed
        BY <1>1, <2>2, <4>1 DEF Clock
      <4>2. CASE ~Beaconed
        <5>1. cutFor <= Slack + ages.beacon /\ FirstBeacon = every
          BY <1>1, <1>3, <2>2, <4>2, DeadTypes DEF Clock, Beaconed
        <5>2. QED
          BY <5>1, DeadTypes
      <4>3. QED
        BY <4>1, <4>2
    <3>2. QED
      BY <1>1, <1>3, <1>5, <2>2, <3>1 DEF Clock, Beaconed
  <2>5. \A m \in LinesOn(toU') : Heard(m)'
    <3>1. ASSUME NEW m \in LinesOn(toU) PROVE Heard(m)'
      BY <1>1, <2>2, <3>1 DEF Heard
    <3>2. ASSUME NEW m, m[1] = "BEACON_U" PROVE Heard(m)'
      BY <3>2 DEF Heard
    <3>3. LinesOn(toU') \subseteq LinesOn(toU) \union LinesOn(Beacon)
      BY <1>5, <2>1, SinceType, LinesOnSent
    <3>4. QED
      BY <1>5, <3>1, <3>2, <3>3
  <2>6. QED
    BY <2>3, <2>4, <2>5
<1>11. CASE GiveUp
  BY <1>11 DEF GiveUp, Leaves
<1>12. QED
  BY <1>8, <1>9, <1>10, <1>11 DEF IdlePass

(* The program speaks only while both directions work. *)
LEMMA DeadAnswers ==
  ASSUME TypeOK, DeadInv, sPhase = "idle", PicoRecv \/ PicoRecvMeta \/ SendPicoBeacon \/ Enter
  PROVE  Order' /\ Clock' /\ \A m \in LinesOn(toU') : Heard(m)'
<1>1. UNCHANGED <<ages, probe, every, cut, cutFor>>
  BY DEF PicoRecv, PicoRecvMeta, SendPicoBeacon, Enter, PicoAnswers, serverVars, lineVars
<1>2. Order' /\ Clock' /\ \A m \in LinesOn(toU) : Heard(m)'
  BY <1>1 DEF DeadInv, Order, Clock, Beaconed, Slack, FirstBeacon, Heard
<1>2a. cut = {} => cutFor' <= 0
  <2>1. cut = {} => cutFor = 0
    BY DEF DeadInv
  <2>2. cutFor' = cutFor /\ cutFor \in Nat
    BY <1>1, DeadTypes
  <2>3. QED
    BY <2>1, <2>2
<1>3. /\ \A b \in Bits : \A kind \in {"MARK_P", "PONG", "HERE", "READY", "BEACON_P", "GET"} :
           <<Sent(kind, b)>> \in Seq(ToULine)
      /\ <<>> \in Seq(ToULine) /\ 0 \in Bits /\ pBit \in Bits
  BY SentTypes, OnlyLine, TypeParts DEF PicoKinds, Bits, PicoOK
<1>4. ASSUME NEW kind \in {"MARK_P", "PONG", "HERE", "READY", "BEACON_P", "GET"}, NEW b \in Bits,
             "toU" \notin cut, cut = {} \/ kind \in {"BEACON_P", "GET"},
             toU' = toU \o <<Sent(kind, b)>>
      PROVE  \A m \in LinesOn(toU') : Heard(m)'
  <2>1. LinesOn(toU') \subseteq LinesOn(toU) \union {Sent(kind, b)}
    <3>1. <<Sent(kind, b)>> \in Seq(ToULine)
      BY <1>3, <1>4
    <3>2. LinesOn(toU') \subseteq LinesOn(toU) \union LinesOn(<<Sent(kind, b)>>)
      BY <1>4, <3>1, SinceType, LinesOnBoth
    <3>3. QED
      BY <3>2, LinesOnParts
  <2>2. ASSUME NEW m, m = <<kind, b, 0>> PROVE Heard(m)'
    BY <1>1, <1>4, <1>2a, <2>2 DEF Heard
  <2>3. Sent(kind, b) = <<kind, b, 0>>
    BY DEF Sent
  <2>4. QED
    BY <1>2, <2>1, <2>2, <2>3
<1>5. ASSUME toU' = toU \/ toU' = toU \o <<>>
      PROVE  \A m \in LinesOn(toU') : Heard(m)'
  <2>1. toU \o <<>> = toU
    BY SinceType, ConcatEmptySeq
  <2>2. QED
    BY <1>2, <1>5, <2>1
<1>6. ASSUME NEW kind \in {"MARK_P", "PONG", "HERE", "READY", "BEACON_P", "GET"}, NEW b \in Bits, NEW rest,
             ("toU" \notin cut => cut = {}) \/ kind \in {"BEACON_P", "GET"},
             PicoSends(rest, <<Sent(kind, b)>>)
      PROVE  \A m \in LinesOn(toU') : Heard(m)'
  <2>1. toU' = toU \/ (toU' = toU \o <<Sent(kind, b)>> /\ "toU" \notin cut)
    BY <1>6 DEF PicoSends
  <2>2. QED
    BY <1>4, <1>5, <1>6, <2>1
<1>7. CASE PicoRecv
  <2>1. toP # <<>> /\ Head(toP)[2] \in Bits /\ ("toU" \notin cut => cut = {})
    <3>1. toP # <<>>
      BY <1>7 DEF PicoRecv
    <3>2. QED
      BY <3>1, SinceType DEF DeadInv, Directions, ToPLine
  <2>2. PicoSends(Tail(toP), Answer(Head(toP)[1], Head(toP)[2]))
    BY <1>7 DEF PicoRecv
  <2>3. \/ Answer(Head(toP)[1], Head(toP)[2]) = <<>>
        \/ \E kind \in {"MARK_P", "PONG", "HERE"} :
             Answer(Head(toP)[1], Head(toP)[2]) = <<Sent(kind, Head(toP)[2])>>
    BY DEF Answer
  <2>4. CASE Answer(Head(toP)[1], Head(toP)[2]) = <<>>
    BY <1>2, <1>5, <2>2, <2>4 DEF PicoSends
  <2>5. CASE Answer(Head(toP)[1], Head(toP)[2]) # <<>>
    <3>1. PICK kind \in {"MARK_P", "PONG", "HERE"} :
            Answer(Head(toP)[1], Head(toP)[2]) = <<Sent(kind, Head(toP)[2])>>
      BY <2>3, <2>5
    <3>2. PicoSends(Tail(toP), <<Sent(kind, Head(toP)[2])>>)
      BY <2>2, <3>1
    <3>3. QED
      BY <1>2, <1>6, <2>1, <3>2
  <2>6. QED
    BY <2>4, <2>5
<1>8. CASE PicoRecvMeta
  <2>1. PicoSends(Tail(toP), <<Sent("READY", 0)>>) /\ ("toU" \notin cut => cut = {})
    BY <1>8 DEF PicoRecvMeta, PicoReads, DeadInv, Directions
  <2>2. QED
    BY <1>2, <1>3, <1>6, <2>1
<1>9. CASE SendPicoBeacon
  <2>1. PicoSends(toP, <<Sent("BEACON_P", pBit)>>)
    BY <1>9 DEF SendPicoBeacon
  <2>2. QED
    BY <1>2, <1>3, <1>6, <2>1
<1>10. CASE Enter
  <2>1. PicoSends(toP, <<Sent("GET", 0)>>)
    BY <1>10 DEF Enter
  <2>2. QED
    BY <1>2, <1>3, <1>6, <2>1
<1>11. QED
  BY <1>7, <1>8, <1>9, <1>10

(* A second passes in the idle loop. *)
LEMMA DeadTick ==
  ASSUME TypeOK, DeadInv, Tick, sPhase = "idle"
  PROVE  Order' /\ Clock' /\ \A m \in LinesOn(toU') : Heard(m)'
<1>1. /\ UNCHANGED <<probe, every, cut>> /\ toU' = Older(toU) /\ MayWait(toU)
      /\ ~BeaconDue /\ ~Unmarked
      /\ ages' = [rx     |-> Least(ages.rx + 1, LongestWait),
                  ping   |-> Least(ages.ping + 1, Interval),
                  beacon |-> Least(ages.beacon + 1, every),
                  mark   |-> Least(ages.mark + 1, Interval)]
  BY DEF Tick, ServerReading, PassDue
<1>2. Order /\ Clock /\ \A m \in LinesOn(toU) : Heard(m)
  BY DEF DeadInv
<1>3. cutFor' \in Nat /\ cutFor' <= cutFor + 1
  <2>1. cutFor' = 0 \/ cutFor' = Least(cutFor + 1, PicoBound + 1)
    BY DEF Tick
  <2>2. cutFor + 1 \in Nat /\ PicoBound + 1 \in Nat
    BY DeadTypes, Bounds, TypeParts DEF WorldOK
  <2>3. Least(cutFor + 1, PicoBound + 1) \in Nat /\ Least(cutFor + 1, PicoBound + 1) <= cutFor + 1
    BY <2>2, LeastType
  <2>4. QED
    BY <2>1, <2>3, DeadTypes
<1>4. /\ ages'.rx \in Nat /\ ages'.rx <= ages.rx + 1
      /\ ages'.ping \in Nat /\ ages'.ping <= ages.ping + 1 /\ ages'.ping <= Interval
      /\ ages.ping < Interval => ages'.ping = ages.ping + 1
      /\ ages.ping >= Interval => ages'.ping = Interval
      /\ ages'.beacon \in Nat
      /\ ages.beacon < every => ages'.beacon = ages.beacon + 1
      /\ ages.beacon >= every => ages'.beacon = every
      /\ ages'.mark \in Nat /\ ages'.mark <= ages.mark + 1 /\ ages'.mark <= Interval
      /\ ages.mark < Interval => ages'.mark = ages.mark + 1
      /\ ages.mark >= Interval => ages'.mark = Interval
  <2>1. \A a, n \in Nat : /\ Least(a + 1, n) \in Nat /\ Least(a + 1, n) <= a + 1 /\ Least(a + 1, n) <= n
                          /\ a < n => Least(a + 1, n) = a + 1
                          /\ a >= n => Least(a + 1, n) = n
    BY DEF Least
  <2>2. LongestWait \in Nat
    BY Bounds, TypeParts DEF WorldOK
  <2>3. QED
    BY <1>1, <2>1, <2>2, DeadTypes
<1>5. Slack' = Slack /\ FirstBeacon' = FirstBeacon /\ Beaconed' = Beaconed
  BY <1>1 DEF Slack, FirstBeacon, Beaconed
<1>6. Order'
  <2>1. probe.marker >= 1 => probe.waiting # None /\ ages'.mark >= Interval
    BY <1>2, <1>4, DeadTypes DEF Order
  <2>2. ages'.mark >= Interval \/ ages'.rx <= ages'.mark
    BY <1>2, <1>4, DeadTypes DEF Order
  <2>3. probe.waiting = None => ages'.beacon >= every \/ ages'.mark <= ages'.beacon
    BY <1>2, <1>4, DeadTypes DEF Order
  <2>4. every < Interval /\ probe.marker = 0 => ages'.mark <= ages'.ping
    BY <1>2, <1>4, DeadTypes DEF Order
  <2>5. QED
    BY <1>1, <2>1, <2>2, <2>3, <2>4 DEF Order
<1>7. Clock'
  <2>1. probe.marker >= 1 => cutFor' <= FirstBeacon + Slack + probe.marker * Interval + ages'.ping
    <3>1. SUFFICES ASSUME probe.marker >= 1
                   PROVE  cutFor' <= FirstBeacon + Slack + probe.marker * Interval + ages'.ping
      OBVIOUS
    <3>2. ages.ping < Interval
      <4>1. WaitingNow # None /\ ages.mark >= Interval
        BY <1>2, <3>1 DEF WaitingNow, BeaconDue, Order
      <4>2. QED
        BY <1>1, <4>1, DeadTypes DEF Unmarked, ProbeDue
    <3>3. cutFor <= FirstBeacon + Slack + probe.marker * Interval + ages.ping
      BY <1>2, <3>1 DEF Clock
    <3> DEFINE spent == probe.marker * Interval
    <3>4. spent \in Nat
      BY DeadTypes
    <3> HIDE DEF spent
    <3>5. cutFor' <= FirstBeacon + Slack + spent + ages'.ping
      BY <1>3, <1>4, <3>2, <3>3, <3>4, DeadTypes DEF spent
    <3>6. QED
      BY <3>5 DEF spent
  <2>2. probe.marker = 0 /\ Beaconed =>
          cutFor' <= FirstBeacon + Slack + ages'.mark /\ cutFor' <= FirstBeacon + Slack + ages'.ping
    <3>1. SUFFICES ASSUME probe.marker = 0, Beaconed
                   PROVE  cutFor' <= FirstBeacon + Slack + ages'.mark /\ cutFor' <= FirstBeacon + Slack + ages'.ping
      OBVIOUS
    <3>2. cutFor <= FirstBeacon + Slack + ages.mark /\ cutFor <= FirstBeacon + Slack + ages.ping
      BY <1>2, <3>1 DEF Clock
    <3>3. ages.mark < Interval \/ ages.ping < Interval
      <4>1. CASE probe.waiting # None
        <5>1. WaitingNow # None
          BY <1>1, <4>1 DEF WaitingNow
        <5>2. QED
          BY <1>1, <5>1, DeadTypes DEF Unmarked, ProbeDue
      <4>2. CASE probe.waiting = None
        <5>1. every < Interval /\ ages.beacon < every
          BY <1>1, <3>1, <4>2, DeadTypes DEF Beaconed, BeaconDue
        <5>2. QED
          BY <1>2, <4>2, <5>1, DeadTypes DEF Order
      <4>3. QED
        BY <4>1, <4>2
    <3>4. QED
      BY <1>3, <1>4, <3>2, <3>3, DeadTypes
  <2>3. probe.marker = 0 /\ ~Beaconed => cutFor' <= Slack + ages'.beacon
    <3>1. SUFFICES ASSUME probe.marker = 0, ~Beaconed PROVE cutFor' <= Slack + ages'.beacon
      OBVIOUS
    <3>2. cutFor <= Slack + ages.beacon
      BY <1>2, <3>1 DEF Clock
    <3>3. ages.beacon < every
      BY <1>1, <3>1, DeadTypes DEF Beaconed, BeaconDue
    <3>4. QED
      BY <1>3, <1>4, <3>2, <3>3, DeadTypes
  <2>4. QED
    BY <1>1, <1>5, <2>1, <2>2, <2>3 DEF Clock
<1>8. ASSUME NEW n \in LinesOn(toU') PROVE Heard(n)'
  <2>1. PICK m \in LinesOn(toU) : n[1] = m[1] /\ n[2] = m[2] /\ n[3] = m[3] + 1
    BY <1>1, <1>8, SinceType, LinesOnOlder
  <2>2. Heard(m) /\ m[3] \in Nat
    BY <1>2, SinceType, LinesOnType, Constants DEF ToULine
  <2>3. /\ cutFor <= m[3] => cutFor' <= n[3]
        /\ ages.ping <= m[3] => ages'.ping <= n[3]
        /\ ages.ping <= m[3] + Latency => ages'.ping <= n[3] + Latency
    BY <1>3, <1>4, <2>1, <2>2, DeadTypes
  <2>4. QED
    BY <1>1, <2>1, <2>2, <2>3 DEF Heard
<1>9. QED
  BY <1>6, <1>7, <1>8

(* What the server says in its idle loop. *)
LEMMA Speaks ==
  ASSUME TypeOK, sPhase = "idle", ServerStep
  PROVE  \E rest \in Seq(ToULine), out \in Seq(ToPLine) :
           /\ rest = toU \/ rest = <<>> \/ (toU # <<>> /\ rest = Tail(toU))
           /\ \A m \in LinesOn(out) : m[3] = 0
           /\ toU' = rest \/ toU' = rest \o out
           /\ toP' = toP \/ ("toP" \notin cut /\ toP' = toP \o out)
<1> DEFINE Said(out) == out \in Seq(ToPLine) /\ \A m \in LinesOn(out) : m[3] = 0
           Left(rest) == rest \in Seq(ToULine) /\ (rest = toU \/ rest = <<>> \/ (toU # <<>> /\ rest = Tail(toU)))
<1>1. /\ \A kind \in ServerKinds, b \in Bits : Said(<<Sent(kind, b)>>)
      /\ Said(<<>>) /\ 0 \in Bits /\ bits.beacon \in Bits /\ bits.ping \in Bits /\ bits.ayt \in Bits
      /\ {"MARK_U", "PONG", "AYT-OK", "META", "ERR", "BEACON_U", "PING", "AYT?"} \subseteq ServerKinds
      /\ Left(toU) /\ Left(<<>>) /\ (toU # <<>> => Left(Tail(toU)))
  <2>1. ASSUME NEW kind \in ServerKinds, NEW b \in Bits PROVE Said(<<Sent(kind, b)>>)
    <3>1. <<Sent(kind, b)>> \in Seq(ToPLine)
      BY SentTypes, OnlyLine
    <3>2. Sent(kind, b)[3] = 0
      BY DEF Sent
    <3>3. QED
      BY <3>1, <3>2, LinesOnParts
  <2>2. Said(<<>>)
    BY OnlyLine, LinesOnParts
  <2>3. Left(toU) /\ Left(<<>>) /\ (toU # <<>> => Left(Tail(toU)))
    BY SinceType, OnlyLine
  <2>4. QED
    BY <2>1, <2>2, <2>3, SinceType DEF ServerKinds, Bits
<1>2. Said(Beacon) /\ \A kind \in {"PING", "AYT?"}, b \in Bits : Said(Beacon \o <<Sent(kind, b)>>)
  <2>1. Said(Beacon)
    <3>1. Said(<<Sent("BEACON_U", bits.beacon)>>)
      BY <1>1
    <3>2. QED
      BY <1>1, <3>1 DEF Beacon
  <2>2. ASSUME NEW kind \in {"PING", "AYT?"}, NEW b \in Bits PROVE Said(Beacon \o <<Sent(kind, b)>>)
    <3>1. Said(<<Sent(kind, b)>>)
      BY <1>1
    <3>2. Beacon \o <<Sent(kind, b)>> \in Seq(ToPLine)
      BY <2>1, <3>1, LinesType
    <3>3. LinesOn(Beacon \o <<Sent(kind, b)>>) \subseteq LinesOn(Beacon) \union LinesOn(<<Sent(kind, b)>>)
      BY <2>1, <3>1, LinesType, LinesOnBoth
    <3>4. QED
      BY <2>1, <3>1, <3>2, <3>3
  <2>3. QED
    BY <2>1, <2>2
<1>3. SUFFICES \E rest, out : /\ Left(rest) /\ Said(out)
                              /\ toU' = rest \/ toU' = rest \o out
                              /\ toP' = toP \/ ("toP" \notin cut /\ toP' = toP \o out)
  OBVIOUS
<1>4. ASSUME NEW rest, NEW out, Left(rest), Said(out), ServerSends(rest, out)
      PROVE  \E r, o : /\ Left(r) /\ Said(o)
                       /\ toU' = r \/ toU' = r \o o
                       /\ toP' = toP \/ ("toP" \notin cut /\ toP' = toP \o o)
  BY <1>4 DEF ServerSends
<1> HIDE DEF Said, Left
<1>5. ASSUME NEW bit \in Bits,
             \/ RecvBeacon(bit) \/ RecvMark(bit) \/ RecvPing(bit)
             \/ RecvPong(bit) \/ RecvHere(bit) \/ RecvOwn(bit)
      PROVE  \E rest, out : Left(rest) /\ Said(out) /\ ServerSends(rest, out)
  <2>1. toU # <<>> /\ Said(<<Sent("MARK_U", bit)>>) /\ Said(<<Sent("PONG", bit)>>) /\ Said(<<Sent("AYT-OK", bit)>>)
    BY <1>1, <1>5 DEF RecvBeacon, RecvMark, RecvPing, RecvPong, RecvHere, RecvOwn, ServerReads
  <2>2. ServerSends(Tail(toU), <<>>) \/ \E kind \in {"MARK_U", "PONG", "AYT-OK"} :
          ServerSends(Tail(toU), <<Sent(kind, bit)>>)
    BY <1>5 DEF RecvBeacon, RecvMark, RecvPing, RecvPong, RecvHere, RecvOwn
  <2>3. QED
    BY <1>1, <2>1, <2>2
<1>6. CASE RecvRequest
  <2>1. CASE ServerSends(Tail(toU), <<Sent("META", 0)>>) /\ toU # <<>>
    <3>1. Said(<<Sent("META", 0)>>) /\ Left(Tail(toU))
      BY <1>1, <2>1
    <3>2. QED
      BY <1>4, <2>1, <3>1
  <2>2. CASE toU' = <<>> /\ toP' = IF "toP" \in cut THEN toP ELSE Append(toP, Sent("ERR", 0))
    <3>1. Said(<<Sent("ERR", 0)>>)
      BY <1>1
    <3>2. Append(toP, Sent("ERR", 0)) = toP \o <<Sent("ERR", 0)>>
      <4>1. Sent("ERR", 0) \in ToULine /\ toP \in Seq(ToULine)
        BY <1>1, SentTypes, SinceType DEF ToULine, ToPLine
      <4>2. QED
        BY <4>1, AppendIsConcat
    <3>3. QED
      BY <1>1, <2>2, <3>1, <3>2
  <2>3. QED
    BY <1>6, <2>1, <2>2 DEF RecvRequest
<1>7. CASE IdlePass
  <2>1. CASE Diagnose
    <3>1. \E kind \in {"PING", "AYT?"}, b \in Bits : ServerSends(toU, Beacon \o <<Sent(kind, b)>>)
      BY <1>1, <2>1 DEF Diagnose
    <3>2. QED
      BY <1>1, <1>2, <1>4, <3>1
  <2>2. CASE Ask
    <3>1. ServerSends(toU, Beacon \o <<Sent("PING", bits.ping)>>) /\ Said(Beacon \o <<Sent("PING", bits.ping)>>)
      BY <1>1, <1>2, <2>2 DEF Ask
    <3>2. QED
      BY <1>1, <1>4, <3>1
  <2>3. CASE BeaconOnly
    BY <1>1, <1>2, <1>4, <2>3 DEF BeaconOnly
  <2>4. CASE GiveUp
    <3>1. toU' = <<>> /\ (toP' = toP \/ ("toP" \notin cut /\ toP' = toP \o Beacon))
      BY <2>4 DEF GiveUp
    <3>2. QED
      BY <1>1, <1>2, <3>1
  <2>5. QED
    BY <1>7, <2>1, <2>2, <2>3, <2>4 DEF IdlePass
<1>8. QED
  <2>1. CASE \E bit \in Bits : \/ RecvBeacon(bit) \/ RecvMark(bit) \/ RecvPing(bit)
                               \/ RecvPong(bit) \/ RecvHere(bit) \/ RecvOwn(bit)
    <3>1. PICK bit \in Bits : \/ RecvBeacon(bit) \/ RecvMark(bit) \/ RecvPing(bit)
                              \/ RecvPong(bit) \/ RecvHere(bit) \/ RecvOwn(bit)
      BY <2>1
    <3>2. PICK rest, out : Left(rest) /\ Said(out) /\ ServerSends(rest, out)
      BY <1>5, <3>1
    <3>3. QED
      BY <1>4, <3>2
  <2>2. ~RecvReply
    BY DEF RecvReply
  <2>3. QED
    BY <1>6, <1>7, <2>1, <2>2 DEF ServerStep

(* It says nothing after LastWord that reaches the program. *)
LEMMA LastWordSpoken ==
  ASSUME TypeOK, DeadInv, sPhase = "idle", ServerStep, toP' # toP
  PROVE  cutFor <= LastWord
<1>1. /\ Order /\ Clock /\ \A m \in LinesOn(toU) : Heard(m)
      /\ "toP" \notin cut /\ (cut = {} \/ cut = {"toU"}) /\ (cut = {} => cutFor = 0)
  BY Speaks DEF DeadInv, Directions
<1>2. CASE cut = {}
  BY <1>1, <1>2, DeadTypes
<1>3. CASE cut = {"toU"}
  <2>1. Slack = 0
    BY <1>3 DEF Slack
  <2>2. toP \o <<>> = toP
    BY SinceType, ConcatEmptySeq
  <2>3. toU # <<>> => /\ Head(toU)[1] \in {"BEACON_U", "PING", "AYT?"} /\ Heard(Head(toU))
                      /\ Head(toU)[1] = "PING" => Head(toU)[2] = probe.outstanding
    BY <1>1, <1>3, SinceType, LinesOnParts DEF Heard
  <2>4. ASSUME NEW bit \in Bits,
               \/ RecvBeacon(bit) \/ RecvMark(bit) \/ RecvPing(bit)
               \/ RecvPong(bit) \/ RecvHere(bit) \/ RecvOwn(bit)
        PROVE  FALSE
    <3>1. toP' = toP \/ ~ServerSends(Tail(toU), <<>>)
      BY <2>2 DEF ServerSends
    <3>2. QED
      BY <2>3, <2>4, <3>1 DEF RecvBeacon, RecvMark, RecvPing, RecvPong, RecvHere, RecvOwn, ServerReads, FromPeer
  <2>5. CASE RecvRequest
    <3>1. toU # <<>> /\ Head(toU)[1] = "AYT?"
      BY <2>3, <2>5 DEF RecvRequest
    <3>2. ages.ping <= Head(toU)[3] /\ Head(toU)[3] \in 0 .. Latency
      BY <2>3, <3>1, SinceType DEF Heard, ToULine
    <3>3. ages.ping <= Latency
      BY <3>2, DeadTypes
    <3>4. QED
      BY <1>1, <2>1, <3>3, SpokenInTime
  <2>6. CASE IdlePass
    <3>1. probe.marker <= Retries
      <4>1. BeaconDue => probe.marker <= Retries
        BY DeadTypes DEF BeaconDue
      <4>2. CASE Diagnose
        BY <4>2, DeadTypes DEF Diagnose, LastMarkerProbe
      <4>3. CASE Ask
        <5>1. ~(probe.marker >= 1)
          BY <1>1, <4>3 DEF Ask, Quiet, Unmarked, Order, WaitingNow, BeaconDue
        <5>2. QED
          BY <5>1, DeadTypes
      <4>4. CASE BeaconOnly
        BY <4>1, <4>4 DEF BeaconOnly
      <4>5. CASE GiveUp
        BY <2>2, <4>1, <4>5 DEF GiveUp, Beacon
      <4>6. QED
        BY <2>6, <4>2, <4>3, <4>4, <4>5 DEF IdlePass
    <3>2. QED
      BY <1>1, <3>1, SpokenInTime
  <2>7. ~RecvReply
    BY DEF RecvReply
  <2>8. QED
    BY <2>4, <2>5, <2>6, <2>7 DEF ServerStep
<1>4. QED
  BY <1>1, <1>2, <1>3

(* The program at its prompt. *)
LEMMA DeadPrompt ==
  ASSUME TypeOK, DeadInv, [Next]_vars, pPhase' = "prompt"
  PROVE  AtPrompt'
<1>1. /\ toU \in Seq(ToULine) /\ toP \in Seq(ToULine)
      /\ \A out \in Seq(ToPLine) : out \in Seq(ToULine) /\ ~Has(out, "GET")
  <2>1. ASSUME NEW out \in Seq(ToPLine), NEW i \in 1 .. Len(out) PROVE out[i][1] # "GET"
    <3>1. out[i] \in ToPLine
      BY ElementOfSeq
    <3>2. QED
      BY <3>1 DEF ToPLine, ServerKinds
  <2>2. QED
    BY <2>1, SinceType, LinesType DEF Has
<1>2. pPhase = "prompt" /\ UNCHANGED every /\ LastWord' = LastWord
  <2>1. pPhase = "prompt" /\ UNCHANGED every
    BY DEF Next, ServerStep, RecvBeacon, RecvMark, RecvPing, RecvPong, RecvHere, RecvOwn, RecvRequest,
           RecvReply, IdlePass, Idle, PicoStep, PicoRecv, PicoRecvMeta, SendPicoBeacon, PicoRestart,
           Enter, PicoAnswers, Tick, LoseLine, Cut, picoVars, lineVars, vars
  <2>2. QED
    BY <2>1 DEF LastWord, FirstBeacon
<1>3. /\ sPhase \notin {"get", "over"} /\ ~Has(toU, "GET")
      /\ cutFor <= LastWord + Latency + pAges.rx
      /\ \A m \in LinesOn(toP) : cutFor <= LastWord + m[3]
  BY <1>2 DEF DeadInv, AtPrompt
<1>4. CASE ServerStep
  <2>1. sPhase = "idle" /\ UNCHANGED <<cutFor, pAges>>
    BY <1>3, <1>4 DEF ServerStep, RecvBeacon, RecvMark, RecvPing, RecvPong, RecvHere, RecvOwn, RecvRequest,
                      RecvReply, IdlePass, Idle, picoVars, lineVars
  <2>2. PICK rest \in Seq(ToULine), out \in Seq(ToPLine) :
           /\ rest = toU \/ rest = <<>> \/ (toU # <<>> /\ rest = Tail(toU))
           /\ \A m \in LinesOn(out) : m[3] = 0
           /\ toU' = rest \/ toU' = rest \o out
           /\ toP' = toP \/ ("toP" \notin cut /\ toP' = toP \o out)
    BY <1>4, <2>1, Speaks
  <2>3. ~Has(toU', "GET")
    <3>1. ~Has(rest, "GET")
      BY <1>1, <1>3, <2>2, HadBefore
    <3>2. QED
      BY <1>1, <2>2, <3>1, HadBefore
  <2>4. sPhase' \notin {"get", "over"}
    <3>1. toU # <<>> => Head(toU)[1] # "GET"
      BY <1>1, <1>3, HadBefore
    <3>2. QED
      BY <1>3, <1>4, <2>1, <3>1
         DEF ServerStep, RecvBeacon, RecvMark, RecvPing, RecvPong, RecvHere, RecvOwn, RecvRequest,
             RecvReply, IdlePass, Diagnose, Ask, BeaconOnly, GiveUp, Leaves
  <2>5. \A m \in LinesOn(toP') : cutFor <= LastWord + m[3]
    <3>1. CASE toP' = toP
      BY <1>3, <3>1
    <3>2. CASE toP' # toP
      <4>1. cutFor <= LastWord + 0
        BY <1>4, <2>1, <3>2, LastWordSpoken, DeadTypes
      <4>2. LinesOn(toP') \subseteq LinesOn(toP) \union LinesOn(out)
        BY <1>1, <2>2, <3>2, LinesOnBoth
      <4>3. QED
        BY <1>3, <2>2, <4>1, <4>2
    <3>3. QED
      BY <3>1, <3>2
  <2>6. QED
    BY <1>2, <1>3, <2>1, <2>3, <2>4, <2>5 DEF AtPrompt
<1>5. CASE PicoRecv
  <2>1. /\ toP # <<>> /\ pAges'.rx = 0 /\ UNCHANGED <<sPhase, cutFor>>
        /\ PicoSends(Tail(toP), Answer(Head(toP)[1], Head(toP)[2]))
    BY <1>5, TypeParts DEF PicoRecv, PicoAnswers, PicoOK, serverVars, lineVars
  <2>2. ~Has(toU', "GET")
    <3>1. \A b \in Bits : \A kind \in {"PONG", "HERE", "MARK_P"} :
            <<Sent(kind, b)>> \in Seq(ToULine) /\ ~Has(<<Sent(kind, b)>>, "GET")
      <4>1. ASSUME NEW b \in Bits, NEW kind \in {"PONG", "HERE", "MARK_P"}
            PROVE  <<Sent(kind, b)>> \in Seq(ToULine) /\ ~Has(<<Sent(kind, b)>>, "GET")
        <5>1. <<Sent(kind, b)>> \in Seq(ToULine) /\ Sent(kind, b)[1] # "GET"
          BY SentTypes, OnlyLine DEF PicoKinds, Sent
        <5>2. QED
          BY <1>1, <5>1, HadBefore
      <4>2. QED
        BY <4>1
    <3>2. Head(toP)[2] \in Bits /\ <<>> \in Seq(ToULine) /\ ~Has(<<>>, "GET")
      BY <1>1, <2>1, SinceType, OnlyLine, HadBefore DEF ToPLine
    <3>3. /\ Answer(Head(toP)[1], Head(toP)[2]) \in Seq(ToULine)
          /\ ~Has(Answer(Head(toP)[1], Head(toP)[2]), "GET")
      BY <3>1, <3>2 DEF Answer
    <3>4. toU' = toU \/ toU' = toU \o Answer(Head(toP)[1], Head(toP)[2])
      BY <2>1 DEF PicoSends
    <3>5. QED
      BY <1>1, <1>3, <3>3, <3>4, HadBefore
  <2>3. cutFor <= LastWord + Latency + pAges'.rx
    <3>1. cutFor <= LastWord + Head(toP)[3] /\ Head(toP)[3] \in 0 .. Latency
      BY <1>1, <1>3, <2>1, LinesOnParts, SinceType DEF ToPLine
    <3>2. PICK n \in 0 .. Latency : n = Head(toP)[3]
      BY <3>1
    <3>3. cutFor <= LastWord + n /\ pAges'.rx = 0
      BY <2>1, <3>1, <3>2
    <3>4. QED
      BY <3>3, DeadTypes
  <2>4. \A m \in LinesOn(toP') : cutFor <= LastWord + m[3]
    BY <1>1, <1>3, <2>1, LinesOnParts DEF PicoSends
  <2>5. QED
    BY <1>2, <1>3, <2>1, <2>2, <2>3, <2>4 DEF AtPrompt
<1>6. CASE PicoRecvMeta \/ Enter \/ PicoRestart
  BY <1>6 DEF PicoRecvMeta, Enter, PicoRestart
<1>7. CASE SendPicoBeacon
  <2>1. /\ pAges'.rx = pAges.rx /\ UNCHANGED <<sPhase, cutFor, toP>>
        /\ toU' = toU \/ toU' = toU \o <<Sent("BEACON_P", pBit)>>
    BY <1>7, TypeParts DEF SendPicoBeacon, PicoSends, PicoOK, serverVars, lineVars
  <2>2. <<Sent("BEACON_P", pBit)>> \in Seq(ToULine) /\ ~Has(<<Sent("BEACON_P", pBit)>>, "GET")
    <3>1. <<Sent("BEACON_P", pBit)>> \in Seq(ToULine) /\ Sent("BEACON_P", pBit)[1] # "GET"
      BY SentTypes, OnlyLine, TypeParts DEF PicoKinds, PicoOK, Sent
    <3>2. QED
      BY <1>1, <3>1, HadBefore
  <2>3. ~Has(toU', "GET")
    <3>1. CASE toU' = toU
      BY <1>3, <3>1, Zenon
    <3>2. CASE toU' = toU \o <<Sent("BEACON_P", pBit)>>
      BY <1>1, <1>3, <2>2, <3>2, HadBefore
    <3>3. QED
      BY <2>1, <3>1, <3>2
  <2>4. QED
    BY <1>2, <1>3, <2>1, <2>3 DEF AtPrompt
<1>8. CASE Tick
  <2>1. /\ UNCHANGED sPhase /\ toU' = Older(toU) /\ toP' = Older(toP) /\ MayWait(toP)
        /\ pAges.rx < PicoTimeout /\ pAges'.rx = Least(pAges.rx + 1, PicoTimeout)
        /\ cutFor' = 0 \/ cutFor' = Least(cutFor + 1, PicoBound + 1)
    BY <1>2, <1>8, DeadTypes DEF Tick, PicoRuns, PicoLost
  <2>2. cutFor' \in Nat /\ cutFor' <= cutFor + 1 /\ pAges'.rx = pAges.rx + 1
    <3>1. \A a, n \in Nat : /\ Least(a + 1, n) \in Nat /\ Least(a + 1, n) <= a + 1
                            /\ a < n => Least(a + 1, n) = a + 1
      BY DEF Least
    <3>2. PicoBound + 1 \in Nat
      BY Bounds, TypeParts DEF WorldOK
    <3>3. QED
      BY <2>1, <3>1, <3>2, DeadTypes
  <2>3. ~Has(toU', "GET")
    BY <1>1, <1>3, <2>1, HadBefore
  <2>4. ASSUME NEW n \in LinesOn(toP') PROVE cutFor' <= LastWord + n[3]
    <3>1. PICK m \in LinesOn(toP) : n[1] = m[1] /\ n[2] = m[2] /\ n[3] = m[3] + 1
      BY <1>1, <2>1, <2>4, LinesOnOlder
    <3>2. cutFor <= LastWord + m[3] /\ m[3] \in Nat
      <4>1. m \in ToULine
        BY <1>1, LinesOnType
      <4>2. m[3] \in Nat
        BY <4>1, Constants DEF ToULine
      <4>3. QED
        BY <1>3, <4>2
    <3>3. QED
      BY <2>2, <3>1, <3>2, DeadTypes
  <2>5. cutFor' <= LastWord + Latency + pAges'.rx
    BY <1>3, <2>2, DeadTypes
  <2>6. QED
    BY <1>2, <1>3, <2>1, <2>3, <2>4, <2>5 DEF AtPrompt
<1>9. CASE LoseLine \/ (\E d \in Directions : Cut(d)) \/ UNCHANGED vars
  <2>1. /\ UNCHANGED <<sPhase, cutFor, pAges>>
        /\ toU' = toU \/ toU' = <<>> \/ (toU # <<>> /\ toU' = Tail(toU))
        /\ toP' = toP \/ toP' = <<>> \/ (toP # <<>> /\ toP' = Tail(toP))
    BY <1>9 DEF LoseLine, Cut, vars, serverVars, picoVars, lineVars
  <2>2. ~Has(toU', "GET")
    BY <1>1, <1>3, <2>1, HadBefore
  <2>3. \A m \in LinesOn(toP') : cutFor <= LastWord + m[3]
    BY <1>1, <1>3, <2>1, LinesOnParts
  <2>4. QED
    BY <1>2, <1>3, <2>1, <2>2, <2>3 DEF AtPrompt
<1>10. QED
  BY <1>4, <1>5, <1>6, <1>7, <1>8, <1>9 DEF Next, PicoStep

(* The invariant is kept. *)
LEMMA DeadIdle ==
  ASSUME TypeOK, QuickAnswers, DeadInv, [Next]_vars, sPhase' = "idle"
  PROVE  Order' /\ Clock' /\ \A m \in LinesOn(toU') : Heard(m)'
<1>1. CASE ServerStep
  <2>1. sPhase = "idle" /\ ~RecvReply /\ ~RecvRequest
    BY <1>1 DEF ServerStep, RecvBeacon, RecvMark, RecvPing, RecvPong, RecvHere, RecvOwn, RecvRequest,
                RecvReply, IdlePass, Idle, Leaves
  <2>2. QED
    BY <1>1, <2>1, DeadReading, DeadPass DEF ServerStep
<1>2. CASE PicoRecv \/ PicoRecvMeta \/ SendPicoBeacon \/ Enter
  <2>1. sPhase = "idle"
    BY <1>2 DEF PicoRecv, PicoRecvMeta, SendPicoBeacon, Enter, PicoAnswers, serverVars
  <2>2. QED
    BY <1>2, <2>1, DeadAnswers
<1>3. CASE Tick
  BY <1>3, DeadTick DEF Tick
<1>4. CASE PicoRestart \/ LoseLine \/ (\E d \in Directions : Cut(d)) \/ UNCHANGED vars
  <2>1. /\ sPhase = "idle" /\ UNCHANGED <<ages, probe, every, cutFor>>
        /\ cut' = cut \/ \E d \in Directions : cut' = cut \union {d} /\ ("toU" \in cut' => "toU" \in cut \/ toU' = <<>>)
        /\ toU' = toU \/ toU' = <<>> \/ (toU # <<>> /\ toU' = Tail(toU))
    BY <1>4 DEF PicoRestart, LoseLine, Cut, vars, serverVars, picoVars, lineVars
  <2>2. Order /\ Clock /\ (\A m \in LinesOn(toU) : Heard(m)) /\ cut \subseteq Directions /\ (cut = {} => cutFor = 0)
    BY <2>1 DEF DeadInv
  <2>3. Order'
    BY <2>1, <2>2 DEF Order
  <2>4. Clock'
    <3> DEFINE spent == probe.marker * Interval
    <3>1. /\ FirstBeacon' = FirstBeacon /\ Beaconed' = Beaconed /\ Slack' \in Nat
          /\ spent \in Nat /\ spent' = spent
      BY <2>1, DeadTypes DEF FirstBeacon, Beaconed, Slack
    <3>2. cutFor = 0 \/ Slack <= Slack'
      <4>1. Slack' = 0 => cut' = {"toU"} \/ Latency = 0
        BY DEF Slack
      <4>2. cut' = {"toU"} => cut = {} \/ cut = {"toU"}
        BY <2>1
      <4>3. cut = {"toU"} => Slack = 0
        BY DEF Slack
      <4>4. Slack' = 0 \/ Slack' = Latency
        BY <2>1 DEF Slack
      <4>5. QED
        BY <2>2, <4>1, <4>2, <4>3, <4>4, DeadTypes
    <3>3. /\ probe.marker >= 1 => cutFor <= FirstBeacon + Slack + spent + ages.ping
          /\ probe.marker = 0 /\ Beaconed =>
               cutFor <= FirstBeacon + Slack + ages.mark /\ cutFor <= FirstBeacon + Slack + ages.ping
          /\ probe.marker = 0 /\ ~Beaconed => cutFor <= Slack + ages.beacon
      BY <2>2 DEF Clock
    <3>4. /\ probe.marker >= 1 => cutFor <= FirstBeacon + Slack' + spent + ages.ping
          /\ probe.marker = 0 /\ Beaconed =>
               cutFor <= FirstBeacon + Slack' + ages.mark /\ cutFor <= FirstBeacon + Slack' + ages.ping
          /\ probe.marker = 0 /\ ~Beaconed => cutFor <= Slack' + ages.beacon
      <4> HIDE DEF spent
      <4>1. ASSUME NEW n \in Nat, cutFor <= n + Slack \/ cutFor = 0 PROVE cutFor <= n + Slack'
        BY <3>1, <3>2, <4>1, DeadTypes
      <4>2. /\ probe.marker >= 1 => cutFor <= (FirstBeacon + spent + ages.ping) + Slack
            /\ probe.marker = 0 /\ Beaconed =>
                 cutFor <= (FirstBeacon + ages.mark) + Slack /\ cutFor <= (FirstBeacon + ages.ping) + Slack
            /\ probe.marker = 0 /\ ~Beaconed => cutFor <= ages.beacon + Slack
        BY <3>1, <3>3, DeadTypes
      <4>3. /\ probe.marker >= 1 => cutFor <= (FirstBeacon + spent + ages.ping) + Slack'
            /\ probe.marker = 0 /\ Beaconed =>
                 cutFor <= (FirstBeacon + ages.mark) + Slack' /\ cutFor <= (FirstBeacon + ages.ping) + Slack'
            /\ probe.marker = 0 /\ ~Beaconed => cutFor <= ages.beacon + Slack'
        <5>1. FirstBeacon + spent + ages.ping \in Nat /\ FirstBeacon + ages.mark \in Nat /\ FirstBeacon + ages.ping \in Nat
          BY <3>1, DeadTypes
        <5>2. QED
          BY <4>1, <4>2, <5>1, DeadTypes
      <4>4. QED
        BY <3>1, <4>3, DeadTypes
    <3>5. QED
      BY <2>1, <3>1, <3>4 DEF Clock
  <2>5. \A m \in LinesOn(toU') : Heard(m)'
    <3>1. LinesOn(toU') \subseteq LinesOn(toU)
      BY <2>1, SinceType, LinesOnParts
    <3>2. "toU" \in cut' => "toU" \in cut \/ LinesOn(toU') = {}
      BY <2>1, LinesOnParts
    <3>3. QED
      BY <2>1, <2>2, <3>1, <3>2 DEF Heard
  <2>6. QED
    BY <2>3, <2>4, <2>5
<1>5. QED
  BY <1>1, <1>2, <1>3, <1>4 DEF Next, PicoStep

(* The clocks are kept. *)
LEMMA DeadCounted == QuickAnswers => (Spec => []DeadInv)
<1>1. SUFFICES ASSUME QuickAnswers PROVE Spec => []DeadInv
  OBVIOUS
<1>2. Init => DeadInv
  <2>1. SUFFICES ASSUME Init PROVE DeadInv
    OBVIOUS
  <2>2. TypeOK
    BY <2>1, InitType
  <2>3. /\ LinesOn(toU) = {} /\ LinesOn(toP) = {} /\ ~Has(toU, "GET") /\ cutFor = 0 /\ cut = {}
        /\ ages = NoAges /\ probe = NoProbe /\ sPhase = "idle"
    BY <2>1, LinesOnParts DEF Init, Has
  <2>4. Order /\ Clock /\ AtPrompt
    BY <2>2, <2>3, DeadTypes DEF Order, Clock, AtPrompt, NoAges, NoProbe
  <2>5. QED
    BY <2>3, <2>4 DEF DeadInv
<1>3. TypeOK /\ DeadInv /\ [Next]_vars => DeadInv'
  <2>1. SUFFICES ASSUME TypeOK, DeadInv, [Next]_vars PROVE DeadInv'
    OBVIOUS
  <2>2. cut' \subseteq Directions /\ (cut' = {} => cutFor' = 0) /\ ("toP" \in cut' => toP' = <<>>)
    <3>1. CASE Tick
      <4>1. Older(<<>>) = <<>>
        BY DEF Older
      <4>2. QED
        BY <2>1, <3>1, <4>1 DEF Tick, DeadInv
    <3>2. CASE (\E d \in Directions : Cut(d)) \/ LoseLine \/ UNCHANGED vars
      BY <2>1, <3>2 DEF Cut, LoseLine, DeadInv, vars, serverVars, lineVars
    <3>3. CASE PicoStep \/ Enter
      BY <2>1, <3>3 DEF DeadInv, PicoStep, PicoRecv, PicoRecvMeta, SendPicoBeacon, PicoRestart, Enter,
                        PicoAnswers, PicoSends, PicoReads, lineVars
    <3>4. CASE ServerStep
      <4>1. UNCHANGED <<cut, cutFor>>
        BY <3>4 DEF ServerStep, RecvBeacon, RecvMark, RecvPing, RecvPong, RecvHere, RecvOwn, RecvRequest,
                    RecvReply, IdlePass, Idle, lineVars
      <4>2. "toP" \in cut => toP' = toP
        <5>1. CASE sPhase = "idle"
          BY <2>1, <3>4, <5>1, Speaks
        <5>2. CASE sPhase # "idle"
          BY <3>4, <5>2 DEF ServerStep, RecvBeacon, RecvMark, RecvPing, RecvPong, RecvHere, RecvOwn,
                            RecvRequest, RecvReply, IdlePass, Idle, ServerSends
        <5>3. QED
          BY <5>1, <5>2
      <4>3. QED
        BY <2>1, <4>1, <4>2 DEF DeadInv
    <3>5. QED
      BY <2>1, <3>1, <3>2, <3>3, <3>4 DEF Next
  <2>3. QED
    BY <1>1, <2>1, <2>2, DeadIdle, DeadPrompt DEF DeadInv
<1>4. QED
  BY <1>2, <1>3, IdleTypes, PTL DEF Spec

(* A dead direction, or two, is found in the time the constants add up to,  *)
(* by the idle loop of recv_line and by InputAlive$ at its prompt, for      *)
(* every choice of them and whatever the bridge echoes.                     *)
THEOREM DeadLinksAreFound == QuickAnswers => (Spec => []DeadLinkFound)
<1>1. TypeOK /\ DeadInv => DeadLinkFound
  <2>1. SUFFICES ASSUME TypeOK, DeadInv PROVE DeadLinkFound
    OBVIOUS
  <2> DEFINE probing == (Retries + 1) * Interval
  <2>2. /\ probing \in Nat /\ LastWord = FirstBeacon + probing + Latency
        /\ ServerBound = FirstBeacon + probing + Interval + Latency
        /\ PicoBound = LastWord + Latency + PicoTimeout
    <3>1. probing \in Nat /\ (Retries + 2) * Interval = probing + Interval
      BY <2>1, Products, DeadTypes
    <3>2. LastWord = FirstBeacon + probing + Latency
      BY DEF LastWord
    <3>3. ServerBound = FirstBeacon + (Retries + 2) * Interval + Latency
      BY DEF ServerBound, FirstBeacon
    <3>4. PicoBound = ServerBound - Interval + Latency + PicoTimeout
      BY DEF PicoBound
    <3> HIDE DEF probing
    <3>5. QED
      BY <2>1, <3>1, <3>2, <3>3, <3>4, DeadTypes
  <2>3. sPhase = "idle" => cutFor <= ServerBound
    <3>1. SUFFICES ASSUME sPhase = "idle" PROVE cutFor <= ServerBound
      OBVIOUS
    <3>2. Clock
      BY <2>1, <3>1 DEF DeadInv
    <3>3. CASE probe.marker <= Retries
      <4>1. cutFor <= LastWord
        BY <2>1, <3>2, <3>3, SpokenInTime
      <4> HIDE DEF probing
      <4>2. QED
        BY <2>1, <2>2, <4>1, DeadTypes
    <3>4. CASE probe.marker = Retries + 1
      <4>1. cutFor <= FirstBeacon + Slack + probing + ages.ping
        BY <2>1, <3>2, <3>4, DeadTypes DEF Clock
      <4> HIDE DEF probing
      <4>2. QED
        BY <2>1, <2>2, <4>1, DeadTypes
    <3>5. QED
      BY <2>1, <3>3, <3>4, DeadTypes
  <2>4. pPhase = "prompt" => cutFor <= PicoBound
    <3>1. pPhase = "prompt" => cutFor <= LastWord + Latency + pAges.rx
      BY <2>1 DEF DeadInv, AtPrompt
    <3>2. QED
      BY <2>1, <2>2, <3>1, DeadTypes
  <2>5. QED
    BY <2>3, <2>4 DEF DeadLinkFound
<1>2. QED
  BY <1>1, DeadCounted, IdleTypes, PTL

-----------------------------------------------------------------------------
(* Live links.  LiveLinkKept is not inductive.  KeptInv says what each      *)
(* declaration of a lost link costs while both directions work: every       *)
(* probe and every beacon without an answer is a lost line.                 *)

(* The seconds until the server, if it hears nothing, has to send. *)
Rest(n)  == IF n < Interval THEN Interval - n ELSE 0
Patience == IF Rest(ages.ping) > Rest(ages.rx) THEN Rest(ages.ping) ELSE Rest(ages.rx)

(* How long the program may hear nothing when n lines are lost: each costs  *)
(* it an Interval at most.  A line on its way ends its silence; without an  *)
(* echo, the silence until the next one then starts again.                  *)
Deaf(n) == Latency + (n + 1) * Interval
HeardInTime ==
  \/ pAges.rx + Patience <= Deaf(losses)
  \/ /\ toP # <<>> /\ pAges.rx <= Deaf(losses) + Head(toP)[3]
     /\ echo \/ Patience + toP[Len(toP)][3] <= Interval

(* An answer says that the program has heard something since. *)
AnswersFresh ==
  \A m \in LinesOn(toU) :
    m[1] \in {"MARK_P", "PONG", "HERE"} => pAges.rx <= m[3] \/ (echo /\ toP # <<>>)

(* Each AYT? of the diagnosis costs a line, as its PINGs do. *)
LongDiagnosis ==
  probe.marker >= 3 =>
    losses >= probe.marker + 1
    \/ (losses >= probe.marker /\ Under("AYT?", "HERE", probe.outstanding))

(* No AYT? and no HERE outlives the wait for its answer. *)
Aged ==
  /\ \A m \in LinesOn(toP) : m[1] = "AYT?" => ages.ping <= m[3]
  /\ \A m \in LinesOn(toU) : m[1] = "HERE" => ages.ping <= m[3] + Latency

(* A beacon of the program or its receipt: one at a time. *)
Once(lines, kind) == \A i, j \in 1 .. Len(lines) : lines[i][1] = kind /\ lines[j][1] = kind => i = j
OneToken ==
  /\ Once(toU, "BEACON_P") /\ Once(toP, "MARK_U")
  /\ Has(toU, "BEACON_P") => pending # None /\ ~Has(toP, "MARK_U")
  /\ Has(toP, "MARK_U") => pending # None

(* For how long the server has heard nothing that makes it count its        *)
(* probes anew.                                                             *)
Silence == IF probe.sent >= 1 THEN probe.sent * Interval + ages.ping ELSE Least(ages.rx, Interval)
Grace   == IF PicoBeacon < Latency THEN Latency ELSE PicoBeacon
Capped  == Least(Silence, PicoBeacon)

(* A program that is heard of beacons, or will, or has sent its request. *)
NextBeacon   == pending = None /\ Silence <= Grace /\ Capped <= pAges.beacon
BeaconOnWay  == Carries(toU, "BEACON_P", pending, Silence, Grace)
ReceiptOnWay == pending # None /\ Carries(toP, "MARK_U", pending, Silence, 0) /\ Capped <= pAges.beacon
RequestOnWay == Carries(toU, "GET", 0, Silence, Grace + Latency)
Calls == RequestOnWay \/ (pPhase = "prompt" /\ (NextBeacon \/ BeaconOnWay \/ ReceiptOnWay))

(* Each probe without an answer costs a line, the last one unless it or its *)
(* answer is under way; when nothing calls, one line more is lost.          *)
Asked ==
  /\ UnderAt("PING", "PONG", probe.outstanding, ages.ping)
  /\ ~Has(toP, "AYT?") /\ ~Has(toU, "HERE")
Paid(more) ==
  \/ losses >= probe.sent + more
  \/ probe.sent >= 1 /\ losses + 1 >= probe.sent + more /\ Asked
ProbesPaid == (Calls /\ Paid(0)) \/ Paid(1)

KeptInv ==
  /\ sPhase = "idle" /\ every <= Interval => probe.sent = 0
  /\ Diagnosing => HeardInTime /\ AnswersFresh /\ LongDiagnosis /\ Aged /\ OneToken /\ ProbesPaid
  /\ LiveLinkKept

(* The program beacons before the server has probed in vain, and waits      *)
(* longer than a line per probe and two beacons may keep the server silent. *)
PatientProgram ==
  /\ PicoBeacon <= Retries * Interval
  /\ 2 * Latency + (Retries + 2) * Interval < PicoTimeout

LEMMA KeptTypes ==
  ASSUME TypeOK
  PROVE  /\ Rest(ages.ping) \in 0 .. Interval /\ Rest(ages.rx) \in 0 .. Interval /\ Patience \in 0 .. Interval
         /\ Deaf(losses) \in Nat /\ Deaf(losses) >= Latency + Interval /\ losses \in Nat
         /\ pAges.rx \in Nat /\ pAges.beacon \in Nat /\ pAges.beacon <= PicoBeacon
         /\ PicoBeacon \in Nat /\ Grace \in Nat /\ PicoBeacon <= Grace /\ Latency <= Grace /\ Latency \in Nat
         /\ Silence \in Nat /\ Capped \in Nat /\ Capped <= Silence /\ Capped <= PicoBeacon
         /\ probe.sent \in Nat /\ probe.sent <= Retries /\ probe.sent * Interval \in Nat
         /\ pending \in Bits \union {None} /\ pBit \in Bits /\ None \notin Bits
         /\ ages.rx \in Nat /\ ages.ping \in Nat /\ Interval \in Nat /\ Interval >= 1 /\ every \in Nat
<1>1. ServerOK /\ PicoOK /\ WorldOK
  BY TypeParts
<1>2. /\ losses \in Nat /\ pAges.rx \in Nat /\ pAges.beacon \in Nat /\ pAges.beacon <= PicoBeacon
      /\ PicoBeacon \in Nat /\ Latency \in Nat /\ Interval \in Nat /\ Interval >= 1 /\ every \in Nat
      /\ pending \in Bits \union {None} /\ pBit \in Bits /\ None \notin Bits
  BY <1>1, Constants, DeadTypes, SinceType DEF PicoOK, Bits, None
<1>3. ages.rx \in Nat /\ ages.ping \in Nat /\ probe.sent \in Nat /\ probe.sent <= Retries
  BY <1>1, DeadTypes DEF ServerOK
<1>4. probe.sent * Interval \in Nat /\ (losses + 1) * Interval \in Nat
      /\ (losses + 1) * Interval = losses * Interval + Interval /\ losses * Interval \in Nat
  BY <1>2, <1>3, Products
<1>5. Rest(ages.ping) \in 0 .. Interval /\ Rest(ages.rx) \in 0 .. Interval /\ Patience \in 0 .. Interval
  BY <1>2, <1>3 DEF Rest, Patience
<1>6. Deaf(losses) \in Nat /\ Deaf(losses) >= Latency + Interval
  <2> DEFINE lost == losses * Interval
             more == (losses + 1) * Interval
  <2>1. Deaf(losses) = Latency + more
    BY DEF Deaf
  <2>2. more = lost + Interval /\ lost \in Nat
    BY <1>4
  <2> HIDE DEF lost, more
  <2>3. QED
    BY <1>2, <2>1, <2>2
<1>7. Grace \in Nat /\ PicoBeacon <= Grace /\ Latency <= Grace
  BY <1>2 DEF Grace
<1>8. Silence \in Nat
  <2>1. Least(ages.rx, Interval) \in Nat
    BY <1>2, <1>3 DEF Least
  <2>2. QED
    BY <1>3, <1>4, <2>1 DEF Silence
<1>9. Capped \in Nat /\ Capped <= Silence /\ Capped <= PicoBeacon
  BY <1>2, <1>8 DEF Capped, Least
<1>10. QED
  BY <1>2, <1>3, <1>4, <1>5, <1>6, <1>7, <1>8, <1>9

(* The steps between two states in which both sides wait and hear. *)
Hears(bit) == \/ RecvBeacon(bit) \/ RecvMark(bit) \/ RecvPing(bit)
              \/ RecvPong(bit) \/ RecvHere(bit) \/ RecvOwn(bit)
Passes     == IdlePass /\ (Diagnose \/ Ask \/ BeaconOnly)
PicoActs   == PicoRecv \/ PicoRecvMeta \/ SendPicoBeacon \/ Enter

LEMMA DiagnosingSteps ==
  ASSUME [Next]_vars, Diagnosing'
  PROVE  /\ Diagnosing
         /\ UNCHANGED vars \/ (\E bit \in Bits : Hears(bit)) \/ Passes \/ PicoActs \/ Tick \/ LoseLine
<1>1. CASE UNCHANGED vars
  BY <1>1 DEF vars, serverVars, picoVars, lineVars, Diagnosing, PicoRuns
<1>2. CASE ServerStep
  <2>1. sPhase = "idle"
    BY <1>2 DEF ServerStep, RecvBeacon, RecvMark, RecvPing, RecvPong, RecvHere, RecvOwn, RecvRequest,
                RecvReply, IdlePass, Idle, Diagnosing
  <2>2. UNCHANGED <<pPhase, cut>>
    BY <1>2 DEF ServerStep, RecvBeacon, RecvMark, RecvPing, RecvPong, RecvHere, RecvOwn, RecvRequest,
                RecvReply, IdlePass, Idle, picoVars, lineVars
  <2>3. (\E bit \in Bits : Hears(bit)) \/ Passes
    BY <1>2, <2>1 DEF ServerStep, RecvRequest, RecvReply, IdlePass, GiveUp, Leaves, Diagnosing, Hears, Passes
  <2>4. QED
    BY <2>1, <2>2, <2>3 DEF Diagnosing, PicoRuns
<1>3. CASE PicoStep \/ Enter \/ Tick \/ LoseLine \/ \E d \in Directions : Cut(d)
  <2>1. Diagnosing
    BY <1>3 DEF PicoStep, PicoRecv, PicoRecvMeta, SendPicoBeacon, PicoRestart, Enter, PicoAnswers,
                PicoBeaconDue, PicoLost, Tick, LoseLine, Cut, serverVars, picoVars, lineVars, Diagnosing, PicoRuns
  <2>2. ~PicoRestart /\ ~(\E d \in Directions : Cut(d))
    BY DEF PicoRestart, Cut, Diagnosing, PicoRuns
  <2>3. QED
    BY <1>3, <2>1, <2>2 DEF PicoStep, PicoActs
<1>4. QED
  BY <1>1, <1>2, <1>3 DEF Next

(* What the server reads, and what becomes of its counters: it hears the    *)
(* program and counts anew, it ignores the line, or HERE answers its AYT?.  *)
LEMMA HearingShape ==
  ASSUME TypeOK, Diagnosing, NEW bit \in Bits, Hears(bit)
  PROVE  /\ toU # <<>> /\ UNCHANGED <<picoVars, lineVars, sPhase>>
         /\ \E out \in Seq(ToPLine) :
              /\ ServerSends(Tail(toU), out)
              /\ \A m \in LinesOn(out) : m[3] = 0 /\ m[1] \in {"MARK_U", "PONG", "AYT-OK"}
              /\ \/ out = <<Sent("MARK_U", Head(toU)[2])>> /\ Head(toU)[1] = "BEACON_P"
                 \/ Head(toU)[1] # "BEACON_P" /\ \A m \in LinesOn(out) : m[1] # "MARK_U"
              /\ \/ /\ probe'.sent = 0 /\ ages'.rx = 0 /\ ages'.ping = ages.ping
                    /\ \/ out # <<>> /\ Head(toU)[1] \in {"BEACON_P", "PING"}
                       \/ Head(toU)[1] \in {"MARK_P", "PONG"}
                 \/ /\ UNCHANGED <<ages, probe>>
                    /\ Head(toU)[1] \in {"PING", "PONG", "HERE", "BEACON_U", "MARK_U"}
                    /\ Head(toU)[1] = "PONG" => Head(toU)[2] # probe.outstanding
                 \/ /\ probe'.sent = probe.sent /\ ages'.rx = 0 /\ ages'.ping = ages.ping
                    /\ out # <<>> /\ Head(toU)[1] = "HERE"
              /\ Head(toU)[1] \in {"PONG", "HERE"} /\ Head(toU)[2] = probe.outstanding => probe'.marker = 0
              /\ \/ probe'.marker = 0
                 \/ probe'.marker = probe.marker /\ probe'.outstanding = probe.outstanding
<1>1. /\ <<>> \in Seq(ToPLine) /\ LinesOn(<<>>) = {}
      /\ \A kind \in {"MARK_U", "PONG", "AYT-OK"} :
           /\ <<Sent(kind, bit)>> \in Seq(ToPLine) /\ <<Sent(kind, bit)>> # <<>>
           /\ LinesOn(<<Sent(kind, bit)>>) = {Sent(kind, bit)}
           /\ Sent(kind, bit)[1] = kind /\ Sent(kind, bit)[3] = 0
  BY SentTypes, OnlyLine, LinesOnParts DEF ServerKinds, Sent
<1>2. /\ UNCHANGED <<picoVars, lineVars, sPhase>> /\ toU # <<>> /\ Head(toU)[2] = bit
  BY DEF Hears, RecvBeacon, RecvMark, RecvPing, RecvPong, RecvHere, RecvOwn, Idle, ServerReads
<1>3. /\ ages \in [rx : 0 .. LongestWait, ping : 0 .. Interval, beacon : 0 .. every, mark : 0 .. Interval]
      /\ probe \in [outstanding : Bits \union {None}, sent : 0 .. Retries,
                    waiting : Bits \union {None}, marker : 0 .. Retries + 1]
  BY TypeParts DEF ServerOK
<1>4. /\ NoProbe.sent = 0 /\ NoProbe.marker = 0
      /\ [NoProbe EXCEPT !.sent = probe.sent].sent = probe.sent
      /\ [NoProbe EXCEPT !.sent = probe.sent].marker = 0
      /\ LET p == [probe EXCEPT !.sent = 0] IN
         p.sent = 0 /\ p.marker = probe.marker /\ p.outstanding = probe.outstanding
      /\ [ages EXCEPT !.rx = 0].rx = 0 /\ [ages EXCEPT !.rx = 0].ping = ages.ping
      /\ [ages EXCEPT !.rx = 0, !.mark = 0].rx = 0 /\ [ages EXCEPT !.rx = 0, !.mark = 0].ping = ages.ping
      /\ [ages EXCEPT !.rx = 0, !.mark = 0, !.beacon = 0].rx = 0
      /\ [ages EXCEPT !.rx = 0, !.mark = 0, !.beacon = 0].ping = ages.ping
  BY <1>3 DEF NoProbe
<1>5. CASE RecvBeacon(bit)
  <2>1. /\ Head(toU)[1] = "BEACON_P" /\ ages' = [ages EXCEPT !.rx = 0] /\ probe' = [probe EXCEPT !.sent = 0]
        /\ ServerSends(Tail(toU), <<Sent("MARK_U", bit)>>)
    BY <1>5 DEF RecvBeacon, ServerReads, BeaconProves
  <2>2. QED
    BY <1>1, <1>2, <1>4, <2>1
<1>6. CASE RecvMark(bit)
  <2>1. /\ Head(toU)[1] = "MARK_P" /\ ServerSends(Tail(toU), <<>>)
        /\ ages' = [ages EXCEPT !.rx = 0] \/ ages' = [ages EXCEPT !.rx = 0, !.mark = 0]
        /\ probe' = [probe EXCEPT !.sent = 0] \/ probe' = NoProbe
    BY <1>6 DEF RecvMark, ServerReads
  <2>2. /\ ages'.rx = 0 /\ ages'.ping = ages.ping /\ probe'.sent = 0
        /\ probe'.marker = 0 \/ (probe'.marker = probe.marker /\ probe'.outstanding = probe.outstanding)
    BY <1>4, <2>1
  <2>3. QED
    BY <1>1, <1>2, <2>1, <2>2
<1>7. CASE RecvPing(bit)
  <2>1. /\ Head(toU)[1] = "PING"
        /\ \/ /\ ages' = [ages EXCEPT !.rx = 0] /\ probe' = [probe EXCEPT !.sent = 0]
              /\ ServerSends(Tail(toU), <<Sent("PONG", bit)>>)
           \/ ServerSends(Tail(toU), <<>>) /\ UNCHANGED <<ages, probe>>
    BY <1>7 DEF RecvPing, ServerReads
  <2>2. QED
    <3>1. CASE UNCHANGED <<ages, probe>> /\ ServerSends(Tail(toU), <<>>)
      BY <1>1, <1>2, <2>1, <3>1
    <3>2. CASE /\ ages' = [ages EXCEPT !.rx = 0] /\ probe' = [probe EXCEPT !.sent = 0]
               /\ ServerSends(Tail(toU), <<Sent("PONG", bit)>>)
      <4>1. /\ ages'.rx = 0 /\ ages'.ping = ages.ping /\ probe'.sent = 0
            /\ probe'.marker = probe.marker /\ probe'.outstanding = probe.outstanding
        BY <1>4, <3>2
      <4>2. QED
        BY <1>1, <1>2, <2>1, <3>2, <4>1
    <3>3. QED
      BY <2>1, <3>1, <3>2
<1>8. CASE RecvPong(bit)
  <2>1. /\ Head(toU)[1] = "PONG" /\ ServerSends(Tail(toU), <<>>)
        /\ \/ ages' = [ages EXCEPT !.rx = 0, !.mark = 0, !.beacon = 0] /\ probe' = NoProbe
           \/ bit # probe.outstanding /\ UNCHANGED <<ages, probe>>
    BY <1>8 DEF RecvPong, ServerReads, Confirmed
  <2>2. QED
    BY <1>1, <1>2, <1>4, <2>1
<1>9. CASE RecvHere(bit)
  <2>1. /\ Head(toU)[1] = "HERE"
        /\ \/ /\ ages' = [ages EXCEPT !.rx = 0, !.mark = 0, !.beacon = 0]
              /\ probe' = [NoProbe EXCEPT !.sent = probe.sent]
              /\ ServerSends(Tail(toU), <<Sent("AYT-OK", bit)>>)
           \/ bit # probe.outstanding /\ UNCHANGED <<ages, probe>> /\ ServerSends(Tail(toU), <<>>)
    BY <1>9 DEF RecvHere, ServerReads, Confirmed
  <2>2. QED
    <3>1. CASE /\ bit # probe.outstanding /\ UNCHANGED <<ages, probe>>
               /\ ServerSends(Tail(toU), <<>>)
      BY <1>1, <1>2, <2>1, <3>1
    <3>2. CASE /\ ages' = [ages EXCEPT !.rx = 0, !.mark = 0, !.beacon = 0]
               /\ probe' = [NoProbe EXCEPT !.sent = probe.sent]
               /\ ServerSends(Tail(toU), <<Sent("AYT-OK", bit)>>)
      <4>1. /\ ages'.rx = 0 /\ ages'.ping = ages.ping
            /\ probe'.sent = probe.sent /\ probe'.marker = 0
        BY <1>4, <3>2
      <4>2. QED
        <5>1. PICK out \in Seq(ToPLine) :
                /\ out = <<Sent("AYT-OK", bit)>> /\ out # <<>>
                /\ \A m \in LinesOn(out) : m[3] = 0 /\ m[1] = "AYT-OK"
          BY <1>1
        <5>2. ServerSends(Tail(toU), out)
          BY <3>2, <5>1, Zenon
        <5>3. probe'.marker = 0 /\ UNCHANGED <<picoVars, lineVars, sPhase>> /\ toU # <<>>
          BY <1>2, <4>1
        <5>4. QED
          BY <2>1, <4>1, <5>1, <5>2, <5>3
    <3>3. QED
      BY <2>1, <3>1, <3>2
<1>10. CASE RecvOwn(bit)
  <2>1. Head(toU)[1] \in {"BEACON_U", "MARK_U"} /\ ServerSends(Tail(toU), <<>>) /\ UNCHANGED <<ages, probe>>
    BY <1>10 DEF RecvOwn, ServerReads
  <2>2. QED
    BY <1>1, <1>2, <1>4, <2>1
<1>11. QED
  BY <1>5, <1>6, <1>7, <1>8, <1>9, <1>10 DEF Hears

(* What the server sends when something is due. *)
LEMMA PassShape ==
  ASSUME TypeOK, Diagnosing, Passes
  PROVE  /\ UNCHANGED <<picoVars, lineVars, sPhase>> /\ ages'.rx = ages.rx
         /\ \E out \in Seq(ToPLine) :
              /\ ServerSends(toU, out) /\ out # <<>>
              /\ \A m \in LinesOn(out) :
                   m[3] = 0 /\ m[1] \in {"BEACON_U", "PING", "AYT?"} /\ (m[1] = "AYT?" => ages'.ping = 0)
              /\ \/ /\ Ask /\ ProbeDue /\ ages.rx >= Interval /\ ages'.ping = 0
                    /\ \A m \in LinesOn(out) : m[1] # "AYT?"
                    /\ out = Beacon \o <<Sent("PING", probe'.outstanding)>> /\ probe'.outstanding \in Bits
                    /\ probe'.sent = probe.sent + 1 /\ probe'.marker = probe.marker
                 \/ /\ ProbeDue /\ ages'.ping = 0
                    /\ probe'.sent = probe.sent /\ probe'.marker = probe.marker + 1
                    /\ probe.marker >= 2 =>
                         out = Beacon \o <<Sent("AYT?", probe'.outstanding)>> /\ probe'.outstanding \in Bits
                 \/ /\ ages'.ping = ages.ping /\ out = Beacon /\ \A m \in LinesOn(out) : m[1] # "AYT?"
                    /\ probe'.sent = probe.sent /\ probe'.marker = probe.marker
                    /\ probe'.outstanding = probe.outstanding
<1>1. /\ \A kind \in {"PING", "AYT?", "BEACON_U"}, bit \in Bits :
           /\ <<Sent(kind, bit)>> \in Seq(ToPLine) /\ LinesOn(<<Sent(kind, bit)>>) = {Sent(kind, bit)}
           /\ Sent(kind, bit)[1] = kind /\ Sent(kind, bit)[3] = 0
      /\ bits.ping \in Bits /\ bits.ayt \in Bits /\ bits.beacon \in Bits /\ <<>> \in Seq(ToPLine)
      /\ LinesOn(<<>>) = {}
  BY SentTypes, OnlyLine, LinesOnParts, SinceType DEF ServerKinds, Sent
<1>2. /\ ages \in [rx : 0 .. LongestWait, ping : 0 .. Interval, beacon : 0 .. every, mark : 0 .. Interval]
      /\ probe \in [outstanding : Bits \union {None}, sent : 0 .. Retries,
                    waiting : Bits \union {None}, marker : 0 .. Retries + 1]
  BY TypeParts DEF ServerOK
<1>3. /\ Beacon \in Seq(ToPLine) /\ \A m \in LinesOn(Beacon) : m[1] = "BEACON_U" /\ m[3] = 0
  <2>1. Beacon = <<>> \/ Beacon = <<Sent("BEACON_U", bits.beacon)>>
    BY DEF Beacon
  <2>2. CASE Beacon = <<>>
    BY <1>1, <2>2
  <2>3. CASE Beacon = <<Sent("BEACON_U", bits.beacon)>>
    <3>1. Beacon \in Seq(ToPLine) /\ LinesOn(Beacon) = {Sent("BEACON_U", bits.beacon)}
      BY <1>1, <2>3
    <3>2. QED
      <4>1. Sent("BEACON_U", bits.beacon)[1] = "BEACON_U" /\ Sent("BEACON_U", bits.beacon)[3] = 0
        BY DEF Sent
      <4>2. QED
        BY <3>1, <4>1
  <2>4. QED
    BY <2>1, <2>2, <2>3
<1>4. ASSUME NEW kind \in {"PING", "AYT?"}, NEW bit \in Bits
      PROVE  /\ Beacon \o <<Sent(kind, bit)>> \in Seq(ToPLine) /\ Beacon \o <<Sent(kind, bit)>> # <<>>
             /\ \A m \in LinesOn(Beacon \o <<Sent(kind, bit)>>) : m[3] = 0 /\ m[1] \in {"BEACON_U", kind}
  <2>1. PICK t \in Seq(ToPLine) : t = <<Sent(kind, bit)>> /\ Len(t) = 1 /\ LinesOn(t) = {Sent(kind, bit)}
    BY <1>1
  <2>2. t \in Seq(ToULine) /\ Beacon \in Seq(ToULine)
    BY <1>3, LinesType
  <2>3. LinesOn(Beacon \o t) \subseteq LinesOn(Beacon) \union LinesOn(t)
    BY <2>2, LinesOnBoth
  <2>4. Len(Beacon \o t) = Len(Beacon) + 1 /\ Len(Beacon) \in Nat
    BY <2>1, <2>2, ConcatProperties, LenProperties
  <2>5. Beacon \o t \in Seq(ToPLine) /\ Beacon \o t # <<>>
    <3>1. Beacon \o t \in Seq(ToPLine)
      BY <1>3, <2>1, LinesType
    <3>2. Len(Beacon \o t) # 0
      BY <2>4
    <3>3. QED
      BY <3>1, <3>2
  <2>6. ASSUME NEW m \in LinesOn(Beacon \o t) PROVE m[3] = 0 /\ m[1] \in {"BEACON_U", kind}
    <3>1. m \in LinesOn(Beacon) \/ m = Sent(kind, bit)
      BY <2>1, <2>3
    <3>2. Sent(kind, bit)[1] = kind /\ Sent(kind, bit)[3] = 0
      BY <1>1, Zenon
    <3>3. QED
      BY <1>3, <3>1, <3>2
  <2>7. QED
    BY <2>1, <2>5, <2>6
<1>5. UNCHANGED <<picoVars, lineVars>>
  BY DEF Passes, IdlePass
<1>6. CASE Ask
  <2>1. /\ ServerSends(toU, Beacon \o <<Sent("PING", bits.ping)>>) /\ ProbeDue /\ ages.rx >= Interval
        /\ ages' = [ages EXCEPT !.ping = 0, !.beacon = IF BeaconDue THEN 0 ELSE @]
        /\ probe' = [probe EXCEPT !.waiting = WaitingNow, !.outstanding = bits.ping, !.sent = @ + 1]
        /\ UNCHANGED sPhase
    BY <1>6 DEF Ask, Quiet
  <2>2. /\ ages'.ping = 0 /\ ages'.rx = ages.rx /\ probe'.outstanding = bits.ping
        /\ probe'.sent = probe.sent + 1 /\ probe'.marker = probe.marker
    BY <1>2, <2>1
  <2>3. QED
    <3>1. bits.ping \in Bits
      BY <1>1
    <3>2. PICK out \in Seq(ToPLine) :
            /\ out = Beacon \o <<Sent("PING", bits.ping)>> /\ out # <<>>
            /\ \A m \in LinesOn(out) : m[3] = 0 /\ m[1] \in {"BEACON_U", "PING"}
      BY <1>4, <3>1
    <3>3. /\ ServerSends(toU, out) /\ probe'.outstanding \in Bits
          /\ out = Beacon \o <<Sent("PING", probe'.outstanding)>>
      BY <2>1, <2>2, <3>1, <3>2
    <3>4. /\ \A m \in LinesOn(out) : m[1] # "AYT?"
          /\ \A m \in LinesOn(out) :
               m[3] = 0 /\ m[1] \in {"BEACON_U", "PING", "AYT?"} /\ (m[1] = "AYT?" => ages'.ping = 0)
      BY <3>2
    <3>5. UNCHANGED <<picoVars, lineVars, sPhase>> /\ ages'.rx = ages.rx
      BY <1>5, <2>1, <2>2
    <3>6. Ask /\ ProbeDue /\ ages.rx >= Interval /\ ages'.ping = 0
      BY <1>6, <2>1, <2>2
    <3>7. QED
      <4>1. /\ Ask /\ ProbeDue /\ ages.rx >= Interval /\ ages'.ping = 0
            /\ \A m \in LinesOn(out) : m[1] # "AYT?"
            /\ out = Beacon \o <<Sent("PING", probe'.outstanding)>> /\ probe'.outstanding \in Bits
            /\ probe'.sent = probe.sent + 1 /\ probe'.marker = probe.marker
        BY <2>2, <3>3, <3>4, <3>6, Zenon
      <4>2. QED
        BY <3>2, <3>3, <3>4, <3>5, <4>1, Zenon
<1>7. CASE Diagnose
  <2>1. PICK kind \in {"PING", "AYT?"}, number \in Bits :
          /\ ServerSends(toU, Beacon \o <<Sent(kind, number)>>)
          /\ probe' = [probe EXCEPT !.waiting = WaitingNow, !.outstanding = number, !.marker = NextProbe]
          /\ ~PingsFirst => kind = "AYT?"
    BY <1>1, <1>7, Zenon DEF Diagnose
  <2>2. /\ ages' = [ages EXCEPT !.ping = 0, !.beacon = IF BeaconDue THEN 0 ELSE @]
        /\ UNCHANGED sPhase /\ ProbeDue
    BY <1>7 DEF Diagnose, Unmarked
  <2>3. /\ ages'.ping = 0 /\ ages'.rx = ages.rx /\ probe'.outstanding = number
        /\ probe'.sent = probe.sent /\ probe'.marker = probe.marker + 1
    BY <1>2, <2>1, <2>2 DEF NextProbe
  <2>4. probe.marker >= 2 => ~PingsFirst
    BY <1>2, SinceType DEF PingsFirst
  <2>5. \A m \in LinesOn(Beacon \o <<Sent(kind, number)>>) : m[3] = 0 /\ m[1] \in {"BEACON_U", "PING", "AYT?"}
    BY <1>4
  <2>6. probe.marker >= 2 =>
          /\ Beacon \o <<Sent(kind, number)>> = Beacon \o <<Sent("AYT?", probe'.outstanding)>>
          /\ probe'.outstanding \in Bits
    BY <2>1, <2>3, <2>4
  <2>7. Beacon \o <<Sent(kind, number)>> \in Seq(ToPLine) /\ Beacon \o <<Sent(kind, number)>> # <<>>
    BY <1>4
  <2>8. QED
    BY <1>5, <2>1, <2>2, <2>3, <2>5, <2>6, <2>7
<1>8. CASE BeaconOnly
  <2>1. /\ ServerSends(toU, Beacon) /\ Beacon # <<>> /\ ages' = [ages EXCEPT !.beacon = 0]
        /\ probe' = [probe EXCEPT !.waiting = bits.beacon] /\ UNCHANGED sPhase
    BY <1>8 DEF BeaconOnly, Beacon
  <2>2. /\ ages'.ping = ages.ping /\ ages'.rx = ages.rx /\ probe'.sent = probe.sent
        /\ probe'.marker = probe.marker /\ probe'.outstanding = probe.outstanding
    BY <1>2, <2>1
  <2>3. QED
    BY <1>3, <1>5, <2>1, <2>2
<1>9. QED
  BY <1>6, <1>7, <1>8 DEF Passes

(* What the program does. *)
LEMMA PicoShape ==
  ASSUME TypeOK, Diagnosing, PicoActs
  PROVE  /\ UNCHANGED <<serverVars, lineVars>>
         /\ \/ /\ toP # <<>> /\ toP' = Tail(toP) /\ pAges'.rx = 0 /\ pAges'.beacon = pAges.beacon
               /\ pending' = IF Head(toP)[1] = "MARK_U" /\ Head(toP)[2] = pending THEN None ELSE pending
               /\ pPhase = "prompt" => pPhase' = "prompt"
               /\ \E out \in Seq(ToULine) :
                    /\ toU' = toU \o out
                    /\ \A m \in LinesOn(out) : /\ m[1] \in {"MARK_P", "PONG", "HERE", "READY"} /\ m[3] = 0
                                               /\ m[1] = "HERE" => Head(toP)[1] = "AYT?"
            \/ /\ SendPicoBeacon /\ toP' = toP /\ toU' = toU \o <<Sent("BEACON_P", pBit)>>
               /\ pAges'.rx = pAges.rx /\ pending = None /\ pending' = pBit
               /\ pPhase' = "prompt"
            \/ /\ pPhase = "prompt" /\ toP' = toP /\ toU' = toU \o <<Sent("GET", 0)>>
               /\ UNCHANGED <<pAges, pending>>
<1>1. cut = {} /\ ServerReading /\ \A rest, out : PicoSends(rest, out) => toP' = rest /\ toU' = toU \o out
  BY DEF Diagnosing, PicoSends, ServerReading
<1>2. UNCHANGED <<serverVars, lineVars>>
  BY DEF PicoActs, PicoRecv, PicoRecvMeta, SendPicoBeacon, Enter, PicoAnswers
<1>3. /\ pAges \in [rx : 0 .. PicoTimeout, beacon : 0 .. PicoBeacon]
      /\ [pAges EXCEPT !.rx = 0].rx = 0 /\ [pAges EXCEPT !.rx = 0].beacon = pAges.beacon
      /\ [pAges EXCEPT !.beacon = 0].rx = pAges.rx
  BY TypeParts DEF PicoOK
<1>4. /\ \A kind \in {"MARK_P", "PONG", "HERE", "READY"}, bit \in Bits :
           /\ <<Sent(kind, bit)>> \in Seq(ToULine) /\ LinesOn(<<Sent(kind, bit)>>) = {Sent(kind, bit)}
           /\ Sent(kind, bit)[1] = kind /\ Sent(kind, bit)[3] = 0
      /\ <<>> \in Seq(ToULine) /\ LinesOn(<<>>) = {} /\ 0 \in Bits
  BY SentTypes, OnlyLine, LinesOnParts DEF PicoKinds, Sent, Bits
<1>5. CASE PicoRecv
  <2>1. PICK kind, bit : kind = Head(toP)[1] /\ bit = Head(toP)[2]
    OBVIOUS
  <2>2. /\ toP # <<>> /\ PicoSends(Tail(toP), Answer(kind, bit)) /\ pAges' = [pAges EXCEPT !.rx = 0]
        /\ pending' = IF kind = "MARK_U" /\ bit = pending THEN None ELSE pending
        /\ pPhase' = pPhase
    BY <1>5, <2>1 DEF PicoRecv, PicoAnswers
  <2>3. bit \in Bits
    BY <2>1, <2>2, SinceType DEF ToPLine
  <2>4. /\ Answer(kind, bit) \in Seq(ToULine)
        /\ \A m \in LinesOn(Answer(kind, bit)) :
             m[1] \in {"MARK_P", "PONG", "HERE", "READY"} /\ m[3] = 0 /\ (m[1] = "HERE" => kind = "AYT?")
    <3>1. \/ Answer(kind, bit) = <<>>
          \/ \E k \in {"MARK_P", "PONG", "HERE"} :
               Answer(kind, bit) = <<Sent(k, bit)>> /\ (k = "HERE" => kind = "AYT?")
      BY DEF Answer
    <3>2. CASE Answer(kind, bit) = <<>>
      BY <1>4, <3>2
    <3>3. ASSUME NEW k \in {"MARK_P", "PONG", "HERE"}, Answer(kind, bit) = <<Sent(k, bit)>>,
                 k = "HERE" => kind = "AYT?"
          PROVE  /\ Answer(kind, bit) \in Seq(ToULine)
                 /\ \A m \in LinesOn(Answer(kind, bit)) :
                      m[1] \in {"MARK_P", "PONG", "HERE", "READY"} /\ m[3] = 0 /\ (m[1] = "HERE" => kind = "AYT?")
      <4>1. /\ Answer(kind, bit) \in Seq(ToULine) /\ LinesOn(Answer(kind, bit)) = {Sent(k, bit)}
            /\ Sent(k, bit)[1] = k /\ Sent(k, bit)[3] = 0
        <5>1. k \in {"MARK_P", "PONG", "HERE", "READY"}
          BY <3>3
        <5>2. QED
          BY <1>4, <2>3, <3>3, <5>1
      <4>2. QED
        BY <3>3, <4>1
    <3>4. QED
      BY <3>1, <3>2, <3>3
  <2>5. toP' = Tail(toP) /\ toU' = toU \o Answer(kind, bit)
    BY <1>1, <2>2
  <2>6. pending' = IF Head(toP)[1] = "MARK_U" /\ Head(toP)[2] = pending THEN None ELSE pending
    BY <2>1, <2>2
  <2>7. pAges'.rx = 0 /\ pAges'.beacon = pAges.beacon
    BY <1>3, <2>2
  <2>8. QED
    BY <1>2, <2>1, <2>2, <2>4, <2>5, <2>6, <2>7
<1>6. CASE PicoRecvMeta
  <2>1. /\ toP # <<>> /\ PicoSends(Tail(toP), <<Sent("READY", 0)>>) /\ pAges' = [pAges EXCEPT !.rx = 0]
        /\ pending' = pending /\ pPhase = "get" /\ Head(toP)[1] = "META"
    BY <1>6 DEF PicoRecvMeta, PicoAnswers, PicoReads
  <2>2. toP' = Tail(toP) /\ toU' = toU \o <<Sent("READY", 0)>>
    BY <1>1, <2>1
  <2>3. /\ <<Sent("READY", 0)>> \in Seq(ToULine)
        /\ \A m \in LinesOn(<<Sent("READY", 0)>>) : m[1] = "READY" /\ m[3] = 0
    <3>1. /\ <<Sent("READY", 0)>> \in Seq(ToULine) /\ LinesOn(<<Sent("READY", 0)>>) = {Sent("READY", 0)}
          /\ Sent("READY", 0)[1] = "READY" /\ Sent("READY", 0)[3] = 0
      BY <1>4
    <3>2. QED
      BY <3>1
  <2>4. pAges'.rx = 0 /\ pAges'.beacon = pAges.beacon
    BY <1>3, <2>1
  <2>5. QED
    BY <1>2, <2>1, <2>2, <2>3, <2>4
<1>7. CASE SendPicoBeacon
  <2>1. /\ PicoSends(toP, <<Sent("BEACON_P", pBit)>>) /\ pAges' = [pAges EXCEPT !.beacon = 0]
        /\ pending = None /\ pending' = pBit /\ pPhase' = "prompt"
    BY <1>7 DEF SendPicoBeacon, PicoBeaconDue
  <2>2. QED
    BY <1>1, <1>2, <1>3, <1>7, <2>1
<1>8. CASE Enter
  <2>1. /\ pPhase = "prompt" /\ PicoSends(toP, <<Sent("GET", 0)>>) /\ UNCHANGED <<pAges, pending>>
    BY <1>8 DEF Enter
  <2>2. QED
    BY <1>1, <1>2, <2>1
<1>9. QED
  BY <1>5, <1>6, <1>7, <1>8 DEF PicoActs

(* The clocks of a second in which both sides wait. *)
LEMMA TickShape ==
  ASSUME TypeOK, Diagnosing, Tick
  PROVE  /\ MayWait(toU) /\ MayWait(toP) /\ toU' = Older(toU) /\ toP' = Older(toP)
         /\ ~Quiet /\ ~PicoBeaconDue
         /\ UNCHANGED <<probe, sPhase, pPhase, pending, pBit, every, echo, losses>>
         /\ ages'.rx = Least(ages.rx + 1, LongestWait) /\ ages'.ping = Least(ages.ping + 1, Interval)
         /\ pAges'.rx \in Nat /\ pAges'.rx <= pAges.rx + 1
         /\ pAges'.beacon = Least(pAges.beacon + 1, PicoBeacon)
<1>1. PicoRuns /\ sPhase = "idle"
  BY DEF Diagnosing
<1>2. /\ MayWait(toU) /\ MayWait(toP) /\ toU' = Older(toU) /\ toP' = Older(toP)
      /\ ~Quiet /\ ~PicoBeaconDue
      /\ UNCHANGED <<probe, sPhase, pPhase, pending, pBit, every, echo, losses>>
      /\ ages'.rx = Least(ages.rx + 1, LongestWait) /\ ages'.ping = Least(ages.ping + 1, Interval)
      /\ pAges'.rx = Least(pAges.rx + 1, PicoTimeout)
      /\ pAges'.beacon = Least(pAges.beacon + 1, PicoBeacon)
  BY <1>1 DEF Tick, ServerReading, PassDue
<1>3. pAges.rx + 1 \in Nat /\ PicoTimeout \in Nat
  BY KeptTypes, DeadTypes
<1>4. Least(pAges.rx + 1, PicoTimeout) \in Nat /\ Least(pAges.rx + 1, PicoTimeout) <= pAges.rx + 1
  BY <1>3, LeastType
<1>5. QED
  BY <1>2, <1>4

LEMMA LossShape ==
  ASSUME TypeOK, LoseLine
  PROVE  /\ losses' = losses + 1 /\ ~echo /\ UNCHANGED <<serverVars, picoVars, every, echo>>
         /\ pPhase = "prompt"
         /\ \/ toU # <<>> /\ toU' = Tail(toU) /\ toP' = toP
            \/ toP # <<>> /\ toP' = Tail(toP) /\ toU' = toU
  BY DEF LoseLine, BothIdle

LEMMA TypeKept == ASSUME TypeOK, [Next]_vars PROVE TypeOK'
<1>1. CASE Next
  BY <1>1, ServerReadsType, ReplyType, PassType, PicoType, WorldType DEF Next, ServerStep
<1>2. CASE UNCHANGED vars
  BY <1>2 DEF vars, serverVars, picoVars, lineVars, TypeOK, LongestWait, PicoBound, ServerBound
<1>3. QED
  BY <1>1, <1>2

LEMMA AgesOfLines == \A m \in ToULine : m[3] \in Nat /\ m[3] <= Latency
<1>1. Latency \in Nat
  BY Constants
<1>2. QED
  BY <1>1 DEF ToULine

(* The first and the last line of a channel to which lines are added. *)
LEMMA Ends ==
  ASSUME NEW s \in Seq(ToULine), NEW t \in Seq(ToULine), t # <<>>
  PROVE  /\ s \o t # <<>>
         /\ s # <<>> => Head(s \o t) = Head(s)
         /\ s = <<>> => Head(s \o t) \in LinesOn(t)
         /\ (s \o t)[Len(s \o t)] \in LinesOn(t)
<1>1. /\ Len(s) \in Nat /\ Len(t) \in Nat /\ Len(t) # 0
      /\ s \o t \in Seq(ToULine) /\ Len(s \o t) = Len(s) + Len(t)
  BY LenProperties, ConcatProperties, EmptySeq
<1>2. \A i \in 1 .. Len(s) + Len(t) : (s \o t)[i] = IF i <= Len(s) THEN s[i] ELSE t[i - Len(s)]
  BY ConcatProperties
<1>3. s \o t # <<>> /\ Head(s \o t) = (s \o t)[1]
  <2>1. Len(s \o t) # 0
    BY <1>1
  <2>2. s \o t # <<>>
    BY <2>1
  <2>3. QED
    BY <1>1, <2>2, HeadTailProperties
<1>4. s # <<>> => Head(s \o t) = Head(s)
  <2>1. SUFFICES ASSUME s # <<>> PROVE Head(s \o t) = Head(s)
    OBVIOUS
  <2>2. Head(s) = s[1] /\ Len(s) # 0
    BY <2>1, HeadTailProperties, EmptySeq
  <2>3. QED
    BY <1>1, <1>2, <1>3, <2>2
<1>5. s = <<>> => Head(s \o t) \in LinesOn(t)
  <2>1. SUFFICES ASSUME s = <<>> PROVE Head(s \o t) \in LinesOn(t)
    OBVIOUS
  <2>2. Len(s) = 0
    BY <2>1
  <2>3. (s \o t)[1] = t[1] /\ 1 \in 1 .. Len(t)
    BY <1>1, <1>2, <2>2
  <2>4. QED
    BY <1>3, <2>3 DEF LinesOn
<1>6. (s \o t)[Len(s \o t)] \in LinesOn(t)
  <2>1. (s \o t)[Len(s \o t)] = t[Len(t)] /\ Len(t) \in 1 .. Len(t)
    BY <1>1, <1>2
  <2>2. QED
    BY <2>1 DEF LinesOn
<1>7. QED
  BY <1>3, <1>4, <1>5, <1>6

(* The same of one from which the first is taken, or which grows older. *)
LEMMA EndsLeft ==
  ASSUME NEW s \in Seq(ToULine), s # <<>>
  PROVE  /\ Head(s)[3] \in 0 .. Latency /\ s[Len(s)][3] \in 0 .. Latency
         /\ Tail(s) = <<>> => Head(s) = s[Len(s)]
         /\ Tail(s) # <<>> => Tail(s)[Len(Tail(s))] = s[Len(s)]
         /\ MayWait(s) => /\ Older(s) # <<>> /\ Head(Older(s))[3] = Head(s)[3] + 1
                          /\ Older(s)[Len(Older(s))][3] = s[Len(s)][3] + 1
<1>1. /\ Len(s) \in Nat /\ Len(s) # 0 /\ Head(s) = s[1]
      /\ Tail(s) \in Seq(ToULine) /\ Len(Tail(s)) = Len(s) - 1
      /\ \A i \in 1 .. Len(s) - 1 : Tail(s)[i] = s[i + 1]
  BY LenProperties, HeadTailProperties, EmptySeq
<1>2. 1 \in 1 .. Len(s) /\ Len(s) \in 1 .. Len(s)
  BY <1>1
<1>3. s[1][3] \in 0 .. Latency /\ s[Len(s)][3] \in 0 .. Latency /\ Latency \in Nat
  BY <1>2, CarriedLine
<1>4. Tail(s) = <<>> => Head(s) = s[Len(s)]
  <2>1. SUFFICES ASSUME Tail(s) = <<>> PROVE Head(s) = s[Len(s)]
    OBVIOUS
  <2>2. Len(s) = 1
    BY <1>1, <2>1
  <2>3. QED
    BY <1>1, <2>2
<1>5. Tail(s) # <<>> => Tail(s)[Len(Tail(s))] = s[Len(s)]
  <2>1. SUFFICES ASSUME Tail(s) # <<>> PROVE Tail(s)[Len(Tail(s))] = s[Len(s)]
    OBVIOUS
  <2>2. Len(Tail(s)) # 0
    BY <1>1, <2>1, EmptySeq
  <2>3. Len(s) - 1 \in 1 .. Len(s) - 1 /\ (Len(s) - 1) + 1 = Len(s)
    BY <1>1, <2>2
  <2>4. QED
    BY <1>1, <2>3
<1>6. ASSUME MayWait(s)
      PROVE  /\ Older(s) # <<>> /\ Head(Older(s))[3] = Head(s)[3] + 1
             /\ Older(s)[Len(Older(s))][3] = s[Len(s)][3] + 1
  <2>1. \A n \in Nat : n < Latency => Least(n + 1, Latency) = n + 1
    BY <1>3, LeastType
  <2>2. s[1][3] < Latency /\ s[Len(s)][3] < Latency
    BY <1>2, <1>6 DEF MayWait
  <2>3. Older(s) \in Seq(ToULine) /\ Len(Older(s)) = Len(s)
    BY <1>1, OlderType DEF Older
  <2>4. \A i \in 1 .. Len(s) : Older(s)[i][3] = Least(s[i][3] + 1, Latency)
    BY <1>1 DEF Older
  <2>5. Older(s)[1][3] = s[1][3] + 1 /\ Older(s)[Len(s)][3] = s[Len(s)][3] + 1
    BY <1>2, <1>3, <2>1, <2>2, <2>4
  <2>6. Older(s) # <<>> /\ Head(Older(s)) = Older(s)[1]
    BY <1>1, <2>3, HeadTailProperties, EmptySeq
  <2>7. QED
    BY <1>1, <2>3, <2>5, <2>6
<1>7. QED
  BY <1>1, <1>3, <1>4, <1>5, <1>6

-----------------------------------------------------------------------------
(* Answers. *)
LEMMA SendingKeepsFresh ==
  ASSUME TypeOK, cut = {}, AnswersFresh, UNCHANGED <<pAges, echo>>,
         NEW rest \in Seq(ToULine), LinesOn(rest) \subseteq LinesOn(toU),
         NEW out \in Seq(ToPLine), ServerSends(rest, out)
  PROVE  AnswersFresh'
<1>1. toP' = toP \o out /\ (toU' = rest \/ (echo /\ toU' = rest \o out))
  BY DEF ServerSends
<1>2. out \in Seq(ToULine) /\ toP \in Seq(ToULine)
  BY LinesType, SinceType
<1>3. toP # <<>> \/ out # <<>> => toP' # <<>>
  <2>1. toP = <<>> \/ toP # <<>>
    OBVIOUS
  <2>2. out = <<>> => toP' = toP
    BY <1>1, <1>2, ConcatEmptySeq
  <2>3. out # <<>> => toP' # <<>>
    BY <1>1, <1>2, Ends
  <2>4. QED
    BY <2>2, <2>3
<1>4. SUFFICES ASSUME NEW m \in LinesOn(toU'), m[1] \in {"MARK_P", "PONG", "HERE"}
               PROVE  pAges.rx <= m[3] \/ (echo /\ toP' # <<>>)
  BY DEF AnswersFresh
<1>5. CASE m \in LinesOn(rest)
  BY <1>3, <1>4, <1>5 DEF AnswersFresh
<1>6. CASE m \notin LinesOn(rest)
  <2>1. echo /\ toU' = rest \o out
    BY <1>1, <1>4, <1>6
  <2>2. m \in LinesOn(out)
    BY <1>2, <1>4, <1>6, <2>1, LinesOnBoth
  <2>3. out # <<>>
    BY <2>2, LinesOnParts
  <2>4. QED
    BY <1>3, <2>1, <2>3
<1>7. QED
  BY <1>5, <1>6

LEMMA FreshKept ==
  ASSUME TypeOK, [Next]_vars, Diagnosing', AnswersFresh
  PROVE  AnswersFresh'
<1>1. /\ Diagnosing /\ cut = {} /\ toU \in Seq(ToULine) /\ toP \in Seq(ToULine)
      /\ UNCHANGED vars \/ (\E bit \in Bits : Hears(bit)) \/ Passes \/ PicoActs \/ Tick \/ LoseLine
  BY DiagnosingSteps, SinceType DEF Diagnosing
<1>2. CASE UNCHANGED vars
  BY <1>2 DEF vars, picoVars, lineVars, AnswersFresh
<1>3. CASE \E bit \in Bits : Hears(bit)
  <2>1. toU # <<>> /\ UNCHANGED <<pAges, echo>> /\ \E out \in Seq(ToPLine) : ServerSends(Tail(toU), out)
    BY <1>1, <1>3, HearingShape DEF picoVars, lineVars
  <2>2. Tail(toU) \in Seq(ToULine) /\ LinesOn(Tail(toU)) \subseteq LinesOn(toU)
    BY <1>1, <2>1, LinesOnParts, LinesType
  <2>3. QED
    BY <1>1, <2>1, <2>2, SendingKeepsFresh
<1>4. CASE Passes
  <2>1. UNCHANGED <<pAges, echo>> /\ \E out \in Seq(ToPLine) : ServerSends(toU, out)
    BY <1>1, <1>4, PassShape DEF picoVars, lineVars
  <2>2. QED
    BY <1>1, <2>1, SendingKeepsFresh
<1>5. CASE PicoActs
  <2>1. UNCHANGED echo /\ \A m \in LinesOn(toU') : m[3] \in Nat
    <3>1. toU' \in Seq(ToULine)
      BY TypeKept, TypeParts DEF TypeOK, ToULine
    <3>2. PICK s \in Seq(ToULine) : s = toU'
      BY <3>1
    <3>3. ASSUME NEW m \in LinesOn(s) PROVE m[3] \in Nat
      BY LinesOnType, AgesOfLines
    <3>4. UNCHANGED echo
      BY <1>1, <1>5, PicoShape DEF lineVars
    <3>5. QED
      BY <3>2, <3>3, <3>4
  <2>2. CASE pAges'.rx = 0
    <3>1. SUFFICES ASSUME NEW m \in LinesOn(toU') PROVE pAges'.rx <= m[3]
      BY DEF AnswersFresh
    <3>2. m[3] \in Nat
      BY <2>1
    <3>3. QED
      BY <2>2, <3>2
  <2>3. CASE pAges'.rx # 0
    <3>1. PICK q \in {Sent("BEACON_P", pBit), Sent("GET", 0)} :
            toP' = toP /\ pAges'.rx = pAges.rx /\ toU' = toU \o <<q>>
      BY <1>1, <1>5, <2>3, PicoShape
    <3>2. <<q>> \in Seq(ToULine) /\ LinesOn(<<q>>) = {q} /\ q[1] \in {"BEACON_P", "GET"}
      <4>1. Sent("BEACON_P", pBit) \in ToULine /\ Sent("GET", 0) \in ToULine
        BY SentTypes, KeptTypes DEF PicoKinds, Bits
      <4>2. q \in ToULine /\ q[1] \in {"BEACON_P", "GET"}
        <5>1. q \in ToULine
          BY <3>1, <4>1
        <5>2. q[1] \in {"BEACON_P", "GET"}
          <6>1. Sent("BEACON_P", pBit)[1] = "BEACON_P" /\ Sent("GET", 0)[1] = "GET"
            BY DEF Sent
          <6>2. QED
            BY <3>1, <6>1
        <5>3. QED
          BY <5>1, <5>2
      <4>3. QED
        BY <4>2, OnlyLine, LinesOnParts
    <3>3. LinesOn(toU') \subseteq LinesOn(toU) \union {q}
      BY <1>1, <3>1, <3>2, LinesOnBoth
    <3>4. QED
      BY <2>1, <3>1, <3>2, <3>3 DEF AnswersFresh
  <2>4. QED
    BY <2>2, <2>3
<1>6. CASE Tick
  <2>1. /\ MayWait(toU) /\ MayWait(toP) /\ toU' = Older(toU) /\ toP' = Older(toP) /\ UNCHANGED echo
        /\ pAges'.rx \in Nat /\ pAges'.rx <= pAges.rx + 1 /\ pAges.rx \in Nat
    BY <1>1, <1>6, TickShape, KeptTypes
  <2>2. toP # <<>> => toP' # <<>>
    BY <1>1, <2>1, EndsLeft
  <2>3. ASSUME NEW m \in LinesOn(toU'), m[1] \in {"MARK_P", "PONG", "HERE"}
        PROVE  pAges'.rx <= m[3] \/ (echo /\ toP' # <<>>)
    <3>1. PICK k \in LinesOn(toU) : m[1] = k[1] /\ m[3] = k[3] + 1
      BY <1>1, <2>1, LinesOnOlder
    <3>2. k[3] \in Nat
      BY <1>1, LinesOnType, SinceType DEF ToULine
    <3>3. pAges.rx <= k[3] \/ (echo /\ toP # <<>>)
      BY <2>3, <3>1 DEF AnswersFresh
    <3>4. QED
      BY <2>1, <2>2, <3>1, <3>2, <3>3
  <2>4. QED
    BY <2>1, <2>3 DEF AnswersFresh
<1>7. CASE LoseLine
  <2>1. ~echo /\ UNCHANGED <<pAges, echo>> /\ LinesOn(toU') \subseteq LinesOn(toU)
    BY <1>1, <1>7, LossShape, LinesOnParts DEF picoVars
  <2>2. QED
    BY <2>1 DEF AnswersFresh
<1>8. QED
  BY <1>1, <1>2, <1>3, <1>4, <1>5, <1>6, <1>7

LEMMA AgedKept ==
  ASSUME TypeOK, [Next]_vars, Diagnosing', Aged
  PROVE  Aged'
<1>1. /\ Diagnosing /\ cut = {} /\ sPhase = "idle"
      /\ toU \in Seq(ToULine) /\ toP \in Seq(ToULine) /\ ages.ping \in Nat /\ Latency \in Nat
      /\ UNCHANGED vars \/ (\E bit \in Bits : Hears(bit)) \/ Passes \/ PicoActs \/ Tick \/ LoseLine
  BY DiagnosingSteps, SinceType DEF Diagnosing
<1>2. \A m \in LinesOn(toU) \union LinesOn(toP) : m[3] \in Nat /\ m[3] <= Latency
  <2>1. \A m \in LinesOn(toU) \union LinesOn(toP) : m \in ToULine
    BY <1>1, LinesOnType
  <2>2. QED
    BY <2>1, AgesOfLines
<1>3. ASSUME NEW out \in Seq(ToPLine), NEW rest \in Seq(ToULine), LinesOn(rest) \subseteq LinesOn(toU),
             ServerSends(rest, out), ages'.ping \in {0, ages.ping},
             \A m \in LinesOn(out) : m[3] = 0 /\ (m[1] = "AYT?" => ages'.ping = 0)
      PROVE  Aged'
  <2>1. /\ LinesOn(toU') \subseteq LinesOn(toU) \union LinesOn(out)
        /\ LinesOn(toP') \subseteq LinesOn(toP) \union LinesOn(out)
    BY <1>3, LinesOnSent
  <2>2. \A m \in LinesOn(out) : m[1] # "HERE"
    <3>1. LinesOn(out) \subseteq ToPLine
      <4>1. \A i \in 1 .. Len(out) : out[i] \in ToPLine
        BY ElementOfSeq
      <4>2. QED
        BY <4>1 DEF LinesOn
    <3>2. QED
      BY <3>1 DEF ToPLine, ServerKinds
  <2>3. \A m \in LinesOn(toP') : m[1] = "AYT?" => ages'.ping <= m[3]
    BY <1>1, <1>2, <1>3, <2>1 DEF Aged
  <2>4. \A m \in LinesOn(toU') : m[1] = "HERE" => ages'.ping <= m[3] + Latency
    BY <1>1, <1>2, <1>3, <2>1, <2>2 DEF Aged
  <2>5. QED
    BY <2>3, <2>4 DEF Aged
<1>4. CASE UNCHANGED vars
  BY <1>4 DEF vars, serverVars, Aged
<1>5. CASE \E bit \in Bits : Hears(bit)
  <2>1. PICK out \in Seq(ToPLine) :
          /\ toU # <<>> /\ ServerSends(Tail(toU), out) /\ ages'.ping = ages.ping
          /\ \A m \in LinesOn(out) : m[3] = 0 /\ m[1] \in {"MARK_U", "PONG", "AYT-OK"}
    BY <1>1, <1>5, HearingShape
  <2>2. Tail(toU) \in Seq(ToULine) /\ LinesOn(Tail(toU)) \subseteq LinesOn(toU)
    BY <1>1, <2>1, LinesOnParts, LinesType
  <2>3. QED
    BY <1>3, <2>1, <2>2
<1>6. CASE Passes
  <2>1. PICK out \in Seq(ToPLine) :
          /\ ServerSends(toU, out) /\ ages'.ping \in {0, ages.ping}
          /\ \A m \in LinesOn(out) : m[3] = 0 /\ (m[1] = "AYT?" => ages'.ping = 0)
    BY <1>1, <1>6, PassShape
  <2>2. QED
    BY <1>1, <1>3, <2>1
<1>7. CASE PicoActs
  <2>1. /\ UNCHANGED ages
        /\ \E out \in Seq(ToULine) :
             /\ toU' = toU \o out
             /\ \A m \in LinesOn(out) : m[1] = "HERE" => m[3] = 0 /\ toP # <<>> /\ Head(toP)[1] = "AYT?"
        /\ toP' = toP \/ (toP # <<>> /\ toP' = Tail(toP))
    <3>1. /\ LinesOn(<<Sent("BEACON_P", pBit)>>) = {Sent("BEACON_P", pBit)}
          /\ LinesOn(<<Sent("GET", 0)>>) = {Sent("GET", 0)}
          /\ Sent("BEACON_P", pBit)[1] = "BEACON_P" /\ Sent("GET", 0)[1] = "GET"
          /\ <<Sent("BEACON_P", pBit)>> \in Seq(ToULine) /\ <<Sent("GET", 0)>> \in Seq(ToULine)
      BY SentTypes, OnlyLine, LinesOnParts, KeptTypes DEF PicoKinds, Sent, Bits
    <3>2. UNCHANGED ages
      BY <1>1, <1>7, PicoShape DEF serverVars
    <3>3. QED
      BY <1>1, <1>7, <3>1, <3>2, PicoShape
  <2>2. PICK out \in Seq(ToULine) :
          /\ toU' = toU \o out
          /\ \A m \in LinesOn(out) : m[1] = "HERE" => m[3] = 0 /\ toP # <<>> /\ Head(toP)[1] = "AYT?"
    BY <2>1
  <2>3. LinesOn(toU') \subseteq LinesOn(toU) \union LinesOn(out) /\ LinesOn(toP') \subseteq LinesOn(toP)
    BY <1>1, <2>1, <2>2, LinesOnBoth, LinesOnParts
  <2>4. \A m \in LinesOn(out) : m[1] = "HERE" => ages.ping <= m[3] + Latency
    <3>1. ASSUME NEW m \in LinesOn(out), m[1] = "HERE" PROVE ages.ping <= m[3] + Latency
      <4>1. m[3] = 0 /\ Head(toP) \in LinesOn(toP) /\ Head(toP)[1] = "AYT?"
        BY <1>1, <2>2, <3>1, LinesOnParts
      <4>2. ages.ping <= Head(toP)[3] /\ Head(toP)[3] \in Nat /\ Head(toP)[3] <= Latency
        BY <1>2, <4>1 DEF Aged
      <4>3. QED
        BY <1>1, <4>1, <4>2
    <3>2. QED
      BY <3>1
  <2>5. QED
    BY <2>1, <2>3, <2>4 DEF Aged
<1>8. CASE Tick
  <2>1. /\ MayWait(toU) /\ MayWait(toP) /\ toU' = Older(toU) /\ toP' = Older(toP)
        /\ ages'.ping \in Nat /\ ages'.ping <= ages.ping + 1
    BY <1>1, <1>8, TickShape, PingGrows
  <2>2. ASSUME NEW m \in LinesOn(toP'), m[1] = "AYT?" PROVE ages'.ping <= m[3]
    <3>1. PICK k \in LinesOn(toP) : m[1] = k[1] /\ m[3] = k[3] + 1
      BY <1>1, <2>1, LinesOnOlder
    <3>2. k[3] \in Nat /\ ages.ping <= k[3]
      BY <1>2, <2>2, <3>1 DEF Aged
    <3>3. QED
      BY <1>1, <2>1, <3>1, <3>2
  <2>3. ASSUME NEW m \in LinesOn(toU'), m[1] = "HERE" PROVE ages'.ping <= m[3] + Latency
    <3>1. PICK k \in LinesOn(toU) : m[1] = k[1] /\ m[3] = k[3] + 1
      BY <1>1, <2>1, LinesOnOlder
    <3>2. k[3] \in Nat /\ ages.ping <= k[3] + Latency
      BY <1>2, <2>3, <3>1 DEF Aged
    <3>3. QED
      <4>1. PICK a \in Nat, b \in Nat, c \in Nat, l \in Nat :
              a = ages'.ping /\ b = ages.ping /\ c = k[3] /\ l = Latency
        BY <1>1, <2>1, <3>2
      <4>2. a <= b + 1 /\ b <= c + l
        BY <2>1, <3>2, <4>1
      <4>3. a <= (c + 1) + l
        BY <4>2
      <4>4. QED
        BY <3>1, <4>1, <4>3
  <2>4. QED
    BY <2>2, <2>3 DEF Aged
<1>9. CASE LoseLine
  <2>1. UNCHANGED ages /\ LinesOn(toU') \subseteq LinesOn(toU) /\ LinesOn(toP') \subseteq LinesOn(toP)
    BY <1>1, <1>9, LossShape, LinesOnParts DEF serverVars
  <2>2. QED
    BY <2>1 DEF Aged
<1>10. QED
  BY <1>1, <1>4, <1>5, <1>6, <1>7, <1>8, <1>9

-----------------------------------------------------------------------------
(* The program hears something in time. *)
LEMMA PatienceWears ==
  ASSUME TypeOK, Diagnosing, Tick
  PROVE  Patience' \in Nat /\ Patience' + 1 <= Patience
<1>1. /\ ages'.rx = Least(ages.rx + 1, LongestWait) /\ ages'.ping = Least(ages.ping + 1, Interval) /\ ~Quiet
  BY TickShape
<1>2. /\ Interval \in Nat /\ LongestWait \in Nat /\ Interval <= LongestWait
      /\ ages.rx \in Nat /\ ages.ping \in Nat
  BY TypeParts, Bounds, KeptTypes DEF WorldOK
<1>3. ages.ping < Interval \/ ages.rx < Interval
  BY <1>1, <1>2 DEF Quiet, ProbeDue
<1>4. ASSUME NEW a \in Nat, NEW l \in Nat, Interval <= l
      PROVE  /\ Rest(Least(a + 1, l)) \in Nat /\ Rest(a) \in Nat
             /\ a < Interval => Rest(Least(a + 1, l)) + 1 = Rest(a) /\ Rest(a) >= 1
             /\ a >= Interval => Rest(Least(a + 1, l)) = 0 /\ Rest(a) = 0
  BY <1>2, <1>4 DEF Rest, Least
<1>5. PICK p \in Nat, r \in Nat : p = ages.ping /\ r = ages.rx
  BY <1>2
<1>6. /\ Rest(ages'.ping) = Rest(Least(p + 1, Interval)) /\ Rest(ages'.rx) = Rest(Least(r + 1, LongestWait))
      /\ Rest(ages.ping) = Rest(p) /\ Rest(ages.rx) = Rest(r)
  BY <1>1, <1>5
<1>7. /\ Rest(Least(p + 1, Interval)) \in Nat /\ Rest(p) \in Nat
      /\ p < Interval => Rest(Least(p + 1, Interval)) + 1 = Rest(p) /\ Rest(p) >= 1
      /\ p >= Interval => Rest(Least(p + 1, Interval)) = 0 /\ Rest(p) = 0
  <2>1. Interval \in Nat /\ Interval <= Interval
    BY <1>2
  <2>2. QED
    BY <1>4, <2>1
<1>14. /\ Rest(Least(r + 1, LongestWait)) \in Nat /\ Rest(r) \in Nat
       /\ r < Interval => Rest(Least(r + 1, LongestWait)) + 1 = Rest(r) /\ Rest(r) >= 1
       /\ r >= Interval => Rest(Least(r + 1, LongestWait)) = 0 /\ Rest(r) = 0
  <2>1. LongestWait \in Nat /\ Interval <= LongestWait
    BY <1>2
  <2>2. QED
    BY <1>4, <2>1
<1>8. Patience' = (IF Rest(ages'.ping) > Rest(ages'.rx) THEN Rest(ages'.ping) ELSE Rest(ages'.rx))
  BY DEF Patience, Rest
<1>9. PICK x \in Nat, y \in Nat : x = Rest(Least(p + 1, Interval)) /\ y = Rest(Least(r + 1, LongestWait))
  BY <1>7, <1>14
<1>10. PICK u \in Nat, w \in Nat : u = Rest(p) /\ w = Rest(r)
  BY <1>7, <1>14
<1>11. /\ p < Interval \/ r < Interval
       /\ p < Interval => x + 1 = u
       /\ p >= Interval => x = 0 /\ u = 0
       /\ r < Interval => y + 1 = w
       /\ r >= Interval => y = 0 /\ w = 0
  BY <1>3, <1>5, <1>7, <1>9, <1>10, <1>14
<1>12. Patience' = (IF x > y THEN x ELSE y) /\ Patience = (IF u > w THEN u ELSE w)
  BY <1>6, <1>8, <1>9, <1>10 DEF Patience
<1>13. QED
  BY <1>2, <1>5, <1>11, <1>12

LEMMA DeafLonger ==
  ASSUME TypeOK
  PROVE  Deaf(losses + 1) = Deaf(losses) + Interval
<1>1. \A n, i, l \in Nat : l + (n + 1 + 1) * i = l + (n + 1) * i + i
  BY Products
<1>2. QED
  BY <1>1, KeptTypes DEF Deaf

LEMMA AgesNat == ASSUME TypeOK' PROVE ages'.ping \in Nat /\ ages'.rx \in Nat
<1>1. Interval \in Nat /\ Timeout \in Nat
  BY Constants
<1>2. LongestWait \in Nat
  BY <1>1 DEF LongestWait
<1>3. ages' \in [rx : 0 .. LongestWait, ping : 0 .. Interval, beacon : 0 .. every', mark : 0 .. Interval]
  BY DEF TypeOK, LongestWait
<1>4. QED
  BY <1>1, <1>2, <1>3

LEMMA HeardKept ==
  ASSUME TypeOK, QuickAnswers, [Next]_vars, Diagnosing', HeardInTime, AnswersFresh
  PROVE  HeardInTime'
<1>1. /\ Diagnosing /\ cut = {} /\ toU \in Seq(ToULine) /\ toP \in Seq(ToULine)
      /\ UNCHANGED vars \/ (\E bit \in Bits : Hears(bit)) \/ Passes \/ PicoActs \/ Tick \/ LoseLine
  BY DiagnosingSteps, SinceType DEF Diagnosing
<1>2. /\ Patience \in 0 .. Interval /\ Deaf(losses) \in Nat /\ Deaf(losses) >= Latency + Interval
      /\ pAges.rx \in Nat /\ Latency \in Nat /\ Interval \in Nat /\ Latency < Interval
      /\ toP # <<>> => Head(toP)[3] \in 0 .. Latency /\ toP[Len(toP)][3] \in 0 .. Latency
  <2>1. Latency \in Nat /\ Interval \in Nat /\ Latency < Interval
    BY KeptTypes DEF QuickAnswers
  <2>2. toP # <<>> => Head(toP)[3] \in 0 .. Latency /\ toP[Len(toP)][3] \in 0 .. Latency
    BY <1>1, EndsLeft
  <2>3. QED
    BY <2>1, <2>2, KeptTypes
<1>3. Patience' \in 0 .. Interval
  <2>1. TypeOK'
    BY TypeKept
  <2>2. ages'.ping \in Nat /\ ages'.rx \in Nat
    BY <2>1, AgesNat
  <2>3. QED
    BY <1>2, <2>2 DEF Patience, Rest
<1>4. /\ toP # <<>> => pAges.rx <= Deaf(losses) + Head(toP)[3]
      /\ toP = <<>> => pAges.rx <= Deaf(losses)
  BY <1>2 DEF HeardInTime
<1>5. ASSUME NEW out \in Seq(ToPLine), out # <<>>, NEW rest, ServerSends(rest, out),
             \A m \in LinesOn(out) : m[3] = 0, UNCHANGED <<pAges, losses, echo>>
      PROVE  HeardInTime'
  <2>1. toP' = toP \o out /\ out \in Seq(ToULine)
    BY <1>1, <1>5, LinesType DEF ServerSends
  <2>2. /\ toP' # <<>> /\ toP'[Len(toP')] \in LinesOn(out)
        /\ toP # <<>> => Head(toP') = Head(toP)
        /\ toP = <<>> => Head(toP') \in LinesOn(out)
    BY <1>1, <1>5, <2>1, Ends
  <2>3. toP'[Len(toP')][3] = 0 /\ (toP = <<>> => Head(toP')[3] = 0)
    BY <1>5, <2>2
  <2>4. pAges.rx <= Deaf(losses) + Head(toP')[3]
    <3>1. CASE toP # <<>>
      BY <1>4, <2>2, <3>1, Zenon
    <3>2. CASE toP = <<>>
      BY <1>2, <1>4, <2>3, <3>2
    <3>3. QED
      BY <3>1, <3>2
  <2>5. Patience' + toP'[Len(toP')][3] <= Interval
    BY <1>2, <1>3, <2>3
  <2>6. QED
    BY <1>5, <2>2, <2>4, <2>5 DEF HeardInTime
<1>6. CASE UNCHANGED vars
  BY <1>6 DEF vars, serverVars, picoVars, lineVars, HeardInTime, Patience
<1>7. CASE \E bit \in Bits : Hears(bit)
  <2>1. /\ toU # <<>> /\ UNCHANGED <<pAges, losses, echo>>
        /\ \E out \in Seq(ToPLine) :
             /\ ServerSends(Tail(toU), out) /\ \A m \in LinesOn(out) : m[3] = 0
             /\ \/ out # <<>>
                \/ UNCHANGED ages
                \/ Head(toU)[1] \in {"MARK_P", "PONG"}
    BY <1>1, <1>7, HearingShape DEF picoVars, lineVars
  <2>2. PICK out \in Seq(ToPLine) :
          /\ ServerSends(Tail(toU), out) /\ \A m \in LinesOn(out) : m[3] = 0
          /\ \/ out # <<>>
             \/ UNCHANGED ages
             \/ Head(toU)[1] \in {"MARK_P", "PONG"}
    BY <2>1
  <2>3. CASE out # <<>>
    BY <1>5, <2>1, <2>2, <2>3
  <2>4. CASE out = <<>>
    <3>1. toP' = toP
      BY <1>1, <2>2, <2>4, ConcatEmptySeq DEF ServerSends
    <3>2. CASE UNCHANGED ages
      BY <2>1, <3>1, <3>2 DEF HeardInTime, Patience
    <3>3. CASE Head(toU)[1] \in {"MARK_P", "PONG"}
      <4>1. Head(toU) \in LinesOn(toU) /\ Head(toU)[3] \in 0 .. Latency
        BY <1>1, <2>1, LinesOnParts, EndsLeft
      <4>2. pAges.rx <= Head(toU)[3] \/ (echo /\ toP # <<>>)
        BY <3>3, <4>1 DEF AnswersFresh
      <4>3. CASE pAges.rx <= Head(toU)[3]
        <5>1. pAges.rx + Patience' <= Deaf(losses)
          BY <1>2, <1>3, <4>1, <4>3
        <5>2. QED
          BY <2>1, <5>1 DEF HeardInTime
      <4>4. CASE echo /\ toP # <<>>
        BY <1>4, <2>1, <3>1, <4>4 DEF HeardInTime
      <4>5. QED
        BY <4>2, <4>3, <4>4
    <3>4. QED
      BY <2>2, <2>4, <3>2, <3>3
  <2>5. QED
    BY <2>3, <2>4
<1>8. CASE Passes
  <2>1. UNCHANGED <<pAges, losses, echo>>
    BY <1>1, <1>8, PassShape DEF picoVars, lineVars
  <2>2. \E out \in Seq(ToPLine) : out # <<>> /\ ServerSends(toU, out) /\ \A m \in LinesOn(out) : m[3] = 0
    BY <1>1, <1>8, PassShape
  <2>3. QED
    BY <1>5, <2>1, <2>2
<1>9. CASE PicoActs
  <2>1. UNCHANGED <<ages, losses, echo>> /\ (pAges'.rx = 0 \/ (pAges'.rx = pAges.rx /\ toP' = toP))
    BY <1>1, <1>9, PicoShape DEF serverVars, lineVars
  <2>2. CASE pAges'.rx = 0
    <3>1. pAges'.rx + Patience' <= Deaf(losses)
      BY <1>2, <1>3, <2>2
    <3>2. QED
      BY <2>1, <3>1 DEF HeardInTime
  <2>3. CASE pAges'.rx = pAges.rx /\ toP' = toP
    BY <2>1, <2>3 DEF HeardInTime, Patience
  <2>4. QED
    BY <2>1, <2>2, <2>3
<1>10. CASE Tick
  <2>1. /\ MayWait(toP) /\ toP' = Older(toP) /\ UNCHANGED <<echo, losses>>
        /\ pAges'.rx \in Nat /\ pAges'.rx <= pAges.rx + 1
        /\ Patience' \in Nat /\ Patience' + 1 <= Patience
    BY <1>1, <1>10, TickShape, PatienceWears
  <2>2. CASE pAges.rx + Patience <= Deaf(losses)
    <3>1. pAges'.rx + Patience' <= Deaf(losses)
      <4>1. PICK a \in Nat, b \in Nat, c \in Nat : a = pAges'.rx /\ b = Patience' /\ c = Deaf(losses)
        BY <1>2, <2>1
      <4>2. PICK x \in Nat, y \in Nat : x = pAges.rx /\ y = Patience
        BY <1>2
      <4>3. a <= x + 1 /\ b + 1 <= y /\ x + y <= c
        BY <2>1, <2>2, <4>1, <4>2
      <4>4. a + b <= c
        BY <4>3
      <4>5. QED
        BY <4>1, <4>4
    <3>2. QED
      BY <2>1, <3>1 DEF HeardInTime
  <2>3. CASE /\ toP # <<>> /\ pAges.rx <= Deaf(losses) + Head(toP)[3]
             /\ echo \/ Patience + toP[Len(toP)][3] <= Interval
    <3>1. /\ toP' # <<>> /\ Head(toP')[3] = Head(toP)[3] + 1
          /\ toP'[Len(toP')][3] = toP[Len(toP)][3] + 1
      BY <1>1, <2>1, <2>3, EndsLeft
    <3>2. pAges'.rx <= Deaf(losses) + Head(toP')[3]
      <4>1. PICK a \in Nat, c \in Nat, x \in Nat, h \in Nat :
              a = pAges'.rx /\ c = Deaf(losses) /\ x = pAges.rx /\ h = Head(toP)[3]
        <5>1. pAges'.rx \in Nat /\ pAges.rx \in Nat /\ Deaf(losses) \in Nat
          BY <1>2, <2>1
        <5>2. Head(toP)[3] \in Nat
          BY <1>2, <2>3
        <5>3. QED
          BY <5>1, <5>2, Zenon
      <4>2. a <= x + 1 /\ x <= c + h
        BY <2>1, <2>3, <4>1
      <4>3. a <= c + (h + 1)
        BY <4>2
      <4>4. QED
        BY <3>1, <4>1, <4>3
    <3>3. Patience + toP[Len(toP)][3] <= Interval => Patience' + toP'[Len(toP')][3] <= Interval
      <4>1. PICK b \in Nat, y \in Nat, l \in Nat : b = Patience' /\ y = Patience /\ l = toP[Len(toP)][3]
        <5>1. Patience' \in Nat /\ Patience \in Nat
          BY <1>2, <2>1
        <5>2. toP[Len(toP)][3] \in Nat
          BY <1>2, <2>3
        <5>3. QED
          BY <5>1, <5>2
      <4>2. b + 1 <= y /\ (y + l <= Interval => b + (l + 1) <= Interval)
        <5>1. b + 1 <= y
          BY <2>1, <4>1
        <5>2. QED
          BY <1>2, <5>1
      <4>3. QED
        BY <3>1, <4>1, <4>2
    <3>4. QED
      BY <2>1, <2>3, <3>1, <3>2, <3>3 DEF HeardInTime
  <2>4. QED
    BY <2>2, <2>3 DEF HeardInTime
<1>11. CASE LoseLine
  <2>1. /\ losses' = losses + 1 /\ ~echo /\ UNCHANGED <<ages, pAges, echo>>
        /\ toP' = toP \/ (toP # <<>> /\ toP' = Tail(toP))
    BY <1>11, LossShape DEF serverVars, picoVars
  <2>2. Patience' = Patience /\ Deaf(losses') = Deaf(losses) + Interval
    BY <2>1, DeafLonger DEF Patience
  <2>3. CASE pAges.rx + Patience <= Deaf(losses)
    <3>1. pAges'.rx + Patience' <= Deaf(losses')
      BY <1>2, <2>1, <2>2, <2>3
    <3>2. QED
      BY <3>1 DEF HeardInTime
  <2>4. CASE ~(pAges.rx + Patience <= Deaf(losses))
    <3>1. /\ toP # <<>> /\ pAges.rx <= Deaf(losses) + Head(toP)[3]
          /\ Patience + toP[Len(toP)][3] <= Interval
      BY <2>1, <2>4 DEF HeardInTime
    <3>2. CASE toP' = toP
      <4>1. pAges'.rx <= Deaf(losses') + Head(toP')[3] /\ Patience' + toP'[Len(toP')][3] <= Interval
        <5>1. PICK x \in Nat, d \in Nat, h \in Nat, i \in Nat :
                x = pAges.rx /\ d = Deaf(losses) /\ h = Head(toP)[3] /\ i = Interval
          <6>1. pAges.rx \in Nat /\ Deaf(losses) \in Nat /\ Interval \in Nat
            BY <1>2
          <6>2. Head(toP)[3] \in Nat
            BY <1>2, <3>1
          <6>3. QED
            BY <6>1, <6>2, Zenon
        <5>2. x <= d + h
          BY <3>1, <5>1
        <5>3. x <= (d + i) + h
          BY <5>2
        <5>4. pAges'.rx = x /\ Deaf(losses') = d + i /\ Head(toP')[3] = h
          BY <2>1, <2>2, <3>2, <5>1
        <5>5. Patience' + toP'[Len(toP')][3] <= Interval
          BY <2>2, <3>1, <3>2
        <5>6. QED
          BY <5>3, <5>4, <5>5
      <4>2. QED
        BY <3>1, <3>2, <4>1 DEF HeardInTime
    <3>3. CASE toP' = Tail(toP) /\ Tail(toP) = <<>>
      <4>1. Head(toP) = toP[Len(toP)]
        BY <1>1, <3>1, <3>3, EndsLeft
      <4>2. pAges'.rx + Patience' <= Deaf(losses')
        <5>1. PICK x \in Nat, y \in Nat, d \in Nat, h \in Nat, i \in Nat :
                x = pAges.rx /\ y = Patience /\ d = Deaf(losses) /\ h = Head(toP)[3] /\ i = Interval
          <6>1. pAges.rx \in Nat /\ Patience \in Nat /\ Deaf(losses) \in Nat /\ Interval \in Nat
            BY <1>2
          <6>2. Head(toP)[3] \in Nat
            BY <1>2, <3>1
          <6>3. QED
            BY <6>1, <6>2, Zenon
        <5>2. x <= d + h /\ y + h <= i
          BY <3>1, <4>1, <5>1
        <5>3. x + y <= d + i
          BY <5>2
        <5>4. pAges'.rx = x /\ Patience' = y /\ Deaf(losses') = d + i
          BY <2>1, <2>2, <5>1
        <5>5. QED
          BY <5>3, <5>4
      <4>3. QED
        BY <4>2 DEF HeardInTime
    <3>4. CASE toP' = Tail(toP) /\ Tail(toP) # <<>>
      <4>1. /\ toP'[Len(toP')] = toP[Len(toP)] /\ Tail(toP) \in Seq(ToULine)
            /\ Head(toP')[3] \in 0 .. Latency
        <5>1. Tail(toP) \in Seq(ToULine)
          BY <1>1, <3>1, LinesType
        <5>2. Head(Tail(toP))[3] \in 0 .. Latency
          BY <3>4, <5>1, EndsLeft
        <5>3. QED
          BY <1>1, <3>1, <3>4, <5>1, <5>2, EndsLeft
      <4>2. pAges'.rx <= Deaf(losses') + Head(toP')[3]
        <5>1. PICK x \in Nat, d \in Nat, h \in Nat, k \in Nat, l \in Nat, i \in Nat :
                /\ x = pAges.rx /\ d = Deaf(losses) /\ h = Head(toP)[3]
                /\ k = Head(toP')[3] /\ l = Latency /\ i = Interval
          <6>1. pAges.rx \in Nat /\ Deaf(losses) \in Nat /\ Latency \in Nat /\ Interval \in Nat
            BY <1>2
          <6>2. Head(toP)[3] \in Nat
            BY <1>2, <3>1
          <6>3. Head(toP')[3] \in Nat
            BY <4>1, <6>1
          <6>4. QED
            BY <6>1, <6>2, <6>3, Zenon
        <5>2. h <= l /\ l < i /\ x <= d + h
          BY <1>2, <3>1, <5>1
        <5>3. x <= (d + i) + k
          BY <5>2
        <5>4. pAges'.rx = x /\ Deaf(losses') = d + i
          BY <2>1, <2>2, <5>1
        <5>5. QED
          BY <5>1, <5>3, <5>4
      <4>3. Patience' + toP'[Len(toP')][3] <= Interval
        BY <2>2, <3>1, <4>1
      <4>4. QED
        BY <3>4, <4>2, <4>3 DEF HeardInTime
    <3>5. QED
      BY <2>1, <3>2, <3>3, <3>4
  <2>5. QED
    BY <2>3, <2>4
<1>12. QED
  BY <1>1, <1>6, <1>7, <1>8, <1>9, <1>10, <1>11

-----------------------------------------------------------------------------
(* What the diagnosis costs. *)
LEMMA NoneUnderAt ==
  ASSUME TypeOK, QuickAnswers, NEW q, NEW a, NEW bit, NEW n \in Nat, n >= Interval
  PROVE  ~UnderAt(q, a, bit, n)
<1>1. Latency \in Nat /\ Interval \in Nat /\ 2 * Latency < Interval
  BY KeptTypes DEF QuickAnswers
<1>2. SUFFICES ASSUME UnderAt(q, a, bit, n) PROVE FALSE
  OBVIOUS
<1>3. n <= Latency + 0 \/ n <= Latency + Latency
  BY <1>1, <1>2, SinceType, CarriedInTime DEF UnderAt
<1>4. QED
  BY <1>1, <1>3

(* A probe has just been sent. *)
LEMMA ProbeOnWay ==
  ASSUME TypeOK, cut = {}, NEW kind \in {"PING", "AYT?"}, NEW number \in Bits,
         ServerSends(toU, Beacon \o <<Sent(kind, number)>>)
  PROVE  Carries(toP', kind, number, 0, 0)
<1>1. /\ Beacon \in Seq(ToULine) /\ <<Sent(kind, number)>> \in Seq(ToULine) /\ Sent(kind, number) \in ToULine
  <2>1. ToPLine \subseteq ToULine
    BY DEF ToPLine, ToULine
  <2>2. Sent(kind, number) \in ToULine /\ Sent("BEACON_U", bits.beacon) \in ToULine
    BY <2>1, SentTypes, SinceType DEF ServerKinds
  <2>3. QED
    BY <2>2, OnlyLine DEF Beacon
<1>2. toP' = toP \o (Beacon \o <<Sent(kind, number)>>) /\ toP \in Seq(ToULine)
  BY SinceType DEF ServerSends
<1>3. toP' = (toP \o Beacon) \o <<Sent(kind, number)>> /\ toP \o Beacon \in Seq(ToULine)
  BY <1>1, <1>2, LinesType, Regrouped
<1>4. QED
  <2>1. PICK s \in Seq(ToULine) : s = toP \o Beacon
    BY <1>3
  <2>2. Carries(s \o <<Sent(kind, number)>>, kind, number, 0, 0)
    BY <1>1, CarriedNew
  <2>3. QED
    BY <1>3, <2>1, <2>2

(* A live program is asked about its silence only between beacons. *)
LEMMA AskedUnmarked ==
  ASSUME TypeOK, Accounted, Ask
  PROVE  probe.marker = 0
<1>1. CASE BeaconDue
  BY <1>1 DEF BeaconDue
<1>2. CASE ~BeaconDue
  BY <1>2, SinceType DEF Ask, Quiet, Unmarked, WaitingNow, Accounted
<1>3. QED
  BY <1>1, <1>2

LEMMA LongKept ==
  ASSUME TypeOK, QuickAnswers, Accounted, [Next]_vars, Diagnosing', LongDiagnosis
  PROVE  LongDiagnosis'
<1>1. /\ Diagnosing /\ cut = {} /\ sPhase = "idle" /\ PicoRuns /\ losses \in Nat /\ probe.marker \in Nat
      /\ UNCHANGED vars \/ (\E bit \in Bits : Hears(bit)) \/ Passes \/ PicoActs \/ Tick \/ LoseLine
  BY DiagnosingSteps, SinceType DEF Diagnosing
<1>2. PICK o : o = probe.outstanding
  OBVIOUS
<1>3. ASSUME probe'.marker = probe.marker, probe'.outstanding = probe.outstanding, losses' = losses,
             Under("AYT?", "HERE", o) => Under("AYT?", "HERE", o)'
      PROVE  LongDiagnosis'
  BY <1>2, <1>3 DEF LongDiagnosis
<1>4. CASE UNCHANGED vars
  BY <1>4 DEF vars, serverVars, lineVars, LongDiagnosis, Under, UnderAt, Since
<1>5. CASE \E bit \in Bits : Hears(bit)
  <2>1. losses' = losses
    BY <1>1, <1>5, HearingShape DEF lineVars
  <2>2. PICK out \in Seq(ToPLine) :
          /\ toU # <<>> /\ ServerSends(Tail(toU), out) /\ ages'.ping = ages.ping
          /\ Head(toU)[1] \in {"PONG", "HERE"} /\ Head(toU)[2] = probe.outstanding => probe'.marker = 0
          /\ \/ probe'.marker = 0
             \/ probe'.marker = probe.marker /\ probe'.outstanding = probe.outstanding
    BY <1>1, <1>5, HearingShape
  <2>3. CASE probe'.marker = 0
    BY <2>3 DEF LongDiagnosis
  <2>4. CASE probe'.marker # 0
    <3>1. Since' = Since /\ Since \in Nat /\ probe'.outstanding = probe.outstanding /\ probe'.marker = probe.marker
      BY <2>2, <2>4, SinceType DEF Since
    <3>2. ~(Head(toU)[1] = "HERE" /\ Head(toU)[2] = o)
      BY <1>2, <2>2, <2>4
    <3>3. Since' \in Nat /\ Since' <= Since
      BY <3>1
    <3>4. Under("AYT?", "HERE", o) => Under("AYT?", "HERE", o)'
      BY <1>1, <2>2, <3>2, <3>3, ServerKeepsUnder
    <3>5. QED
      BY <1>3, <2>1, <3>1, <3>4
  <2>5. QED
    BY <2>3, <2>4
<1>6. CASE Passes
  <2>1. losses' = losses
    BY <1>1, <1>6, PassShape DEF lineVars
  <2>2. PICK out \in Seq(ToPLine) :
          /\ ServerSends(toU, out) /\ out # <<>>
          /\ \/ Ask /\ probe'.marker = probe.marker
             \/ /\ ProbeDue /\ ages'.ping = 0 /\ probe'.marker = probe.marker + 1
                /\ probe.marker >= 2 =>
                     out = Beacon \o <<Sent("AYT?", probe'.outstanding)>> /\ probe'.outstanding \in Bits
             \/ out = Beacon /\ probe'.marker = probe.marker
    BY <1>1, <1>6, PassShape
  <2>3. CASE probe'.marker = probe.marker /\ (Ask \/ out = Beacon)
    <3>1. probe.marker = 0
      BY <2>2, <2>3, AskedUnmarked DEF Beacon, BeaconDue
    <3>2. QED
      BY <2>3, <3>1 DEF LongDiagnosis
  <2>4. CASE /\ ProbeDue /\ ages'.ping = 0 /\ probe'.marker = probe.marker + 1
             /\ probe.marker >= 2 =>
                  out = Beacon \o <<Sent("AYT?", probe'.outstanding)>> /\ probe'.outstanding \in Bits
    <3>1. SUFFICES ASSUME probe.marker >= 2
                   PROVE  losses >= probe.marker + 1 /\ Under("AYT?", "HERE", probe.outstanding)'
      BY <1>1, <2>1, <2>4 DEF LongDiagnosis
    <3>2. losses >= probe.marker + 1
      <4>1. ~BeaconUnder /\ ~PingUnder /\ ages.ping >= Interval /\ Since = ages.ping
        BY <2>4, <3>1, NothingUnder, SinceType DEF ProbeDue, Since
      <4>2. ~UnderAt("AYT?", "HERE", o, Since)
        <5>1. PICK n \in Nat : n = Since
          BY SinceType
        <5>2. QED
          BY <4>1, <5>1, NoneUnderAt
      <4>3. CASE probe.marker = 2
        BY <4>1, <4>3 DEF Accounted
      <4>4. CASE probe.marker >= 3
        BY <1>2, <4>2, <4>4 DEF LongDiagnosis, Under
      <4>5. QED
        BY <1>1, <3>1, <4>3, <4>4
    <3>3. PICK number \in Bits : number = probe'.outstanding
      BY <2>4, <3>1
    <3>4. ServerSends(toU, Beacon \o <<Sent("AYT?", number)>>)
      BY <2>2, <2>4, <3>1, <3>3
    <3>5. Carries(toP', "AYT?", number, 0, 0)
      BY <1>1, <3>4, ProbeOnWay
    <3>6. Since' = 0
      BY <2>4 DEF Since
    <3>7. QED
      BY <3>2, <3>3, <3>5, <3>6 DEF Under, UnderAt
  <2>5. QED
    BY <2>2, <2>3, <2>4
<1>7. CASE PicoActs
  <2>1. UNCHANGED <<probe, losses>>
    BY <1>1, <1>7, PicoShape DEF serverVars, lineVars
  <2>2. <<"AYT?", "HERE">> \in Questions
    BY DEF Questions
  <2>3. Under("AYT?", "HERE", o) => Under("AYT?", "HERE", o)'
    BY <1>1, <1>7, <2>2, PicoKeepsUnder DEF PicoActs
  <2>4. QED
    BY <1>3, <2>1, <2>3
<1>8. CASE Tick
  <2>1. UNCHANGED <<probe, losses>>
    BY <1>1, <1>8, TickShape
  <2>2. Under("AYT?", "HERE", o) => Under("AYT?", "HERE", o)'
    BY <1>1, <1>8, TickKeepsUnder
  <2>3. QED
    BY <1>3, <2>1, <2>2
<1>9. CASE LoseLine
  <2>1. UNCHANGED probe /\ losses' = losses + 1
    BY <1>9, LossShape DEF serverVars
  <2>2. probe.marker >= 3 => losses' >= probe.marker + 1
    BY <1>1, <2>1 DEF LongDiagnosis
  <2>3. QED
    BY <2>1, <2>2 DEF LongDiagnosis
<1>10. QED
  BY <1>1, <1>4, <1>5, <1>6, <1>7, <1>8, <1>9

-----------------------------------------------------------------------------
(* One beacon of the program at a time. *)
LEMMA HasOn == \A s, kind : Has(s, kind) <=> \E m \in LinesOn(s) : m[1] = kind
  BY DEF Has, LinesOn

LEMMA OnceParts ==
  ASSUME NEW s \in Seq(ToULine), NEW kind
  PROVE  /\ ~Has(s, kind) => Once(s, kind)
         /\ \A t \in Seq(ToULine) : Once(s, kind) /\ ~Has(t, kind) => Once(s \o t, kind)
         /\ \A q \in ToULine : ~Has(s, kind) => Once(s \o <<q>>, kind)
         /\ Once(s, kind) => Once(Older(s), kind)
         /\ s # <<>> /\ Once(s, kind) => /\ Once(Tail(s), kind)
                                         /\ Head(s)[1] = kind => ~Has(Tail(s), kind)
<1>1. Len(s) \in Nat
  BY LenProperties
<1>2. ~Has(s, kind) => Once(s, kind)
  BY DEF Has, Once
<1>3. ASSUME NEW t \in Seq(ToULine)
      PROVE  /\ Len(t) \in Nat /\ Len(s \o t) = Len(s) + Len(t)
             /\ \A i \in 1 .. Len(s \o t) : \/ i \in 1 .. Len(s) /\ (s \o t)[i] = s[i]
                                            \/ i - Len(s) \in 1 .. Len(t) /\ (s \o t)[i] = t[i - Len(s)]
  <2>1. Len(t) \in Nat /\ Len(s \o t) = Len(s) + Len(t)
    BY LenProperties, ConcatProperties
  <2>2. \A i \in 1 .. Len(s) + Len(t) : (s \o t)[i] = IF i <= Len(s) THEN s[i] ELSE t[i - Len(s)]
    BY ConcatProperties
  <2>3. QED
    BY <1>1, <2>1, <2>2
<1>4. ASSUME NEW t \in Seq(ToULine), Once(s, kind), ~Has(t, kind) PROVE Once(s \o t, kind)
  BY <1>3, <1>4 DEF Once, Has
<1>5. ASSUME NEW q \in ToULine, ~Has(s, kind) PROVE Once(s \o <<q>>, kind)
  <2>1. PICK t \in Seq(ToULine) : t = <<q>> /\ Len(t) = 1
    BY OnlyLine
  <2>2. ASSUME NEW i \in 1 .. Len(s \o t), (s \o t)[i][1] = kind PROVE i = Len(s) + 1
    <3>1. i - Len(s) \in 1 .. Len(t) \/ (i \in 1 .. Len(s) /\ (s \o t)[i] = s[i])
      BY <1>3
    <3>2. ~(i \in 1 .. Len(s) /\ (s \o t)[i] = s[i])
      BY <1>5, <2>2 DEF Has
    <3>3. QED
      BY <1>1, <2>1, <3>1, <3>2
  <2>3. QED
    BY <2>1, <2>2 DEF Once
<1>6. Once(s, kind) => Once(Older(s), kind)
  <2>1. Len(Older(s)) = Len(s) /\ \A i \in 1 .. Len(s) : Older(s)[i][1] = s[i][1]
    BY <1>1, OlderType, LenProperties DEF Older
  <2>2. QED
    BY <2>1 DEF Once
<1>7. ASSUME s # <<>>, Once(s, kind)
      PROVE  Once(Tail(s), kind) /\ (Head(s)[1] = kind => ~Has(Tail(s), kind))
  <2>1. /\ Len(Tail(s)) = Len(s) - 1 /\ Head(s) = s[1] /\ 1 \in 1 .. Len(s)
        /\ \A i \in 1 .. Len(Tail(s)) : Tail(s)[i] = s[i + 1] /\ i + 1 \in 1 .. Len(s)
    BY <1>1, <1>7, HeadTailProperties, EmptySeq
  <2>2. ASSUME NEW i \in 1 .. Len(Tail(s)), NEW j \in 1 .. Len(Tail(s)),
               Tail(s)[i][1] = kind, Tail(s)[j][1] = kind
        PROVE  i = j
    <3>1. i + 1 = j + 1
      BY <1>7, <2>1, <2>2 DEF Once
    <3>2. QED
      BY <1>1, <2>1, <3>1
  <2>3. ASSUME Head(s)[1] = kind, NEW i \in 1 .. Len(Tail(s)), Tail(s)[i][1] = kind PROVE FALSE
    <3>1. i + 1 = 1
      BY <1>7, <2>1, <2>3 DEF Once
    <3>2. QED
      BY <1>1, <2>1, <3>1
  <2>4. QED
    BY <2>2, <2>3 DEF Once, Has
<1>8. QED
  BY <1>2, <1>4, <1>5, <1>6, <1>7

LEMMA TokenKept ==
  ASSUME TypeOK, [Next]_vars, Diagnosing', OneToken
  PROVE  OneToken'
<1>1. /\ Diagnosing /\ cut = {} /\ toU \in Seq(ToULine) /\ toP \in Seq(ToULine)
      /\ UNCHANGED vars \/ (\E bit \in Bits : Hears(bit)) \/ Passes \/ PicoActs \/ Tick \/ LoseLine
  BY DiagnosingSteps, SinceType DEF Diagnosing
<1>2. /\ Once(toU, "BEACON_P") /\ Once(toP, "MARK_U")
      /\ Has(toU, "BEACON_P") => pending # None /\ ~Has(toP, "MARK_U")
      /\ Has(toP, "MARK_U") => pending # None
  BY DEF OneToken
<1>3. ASSUME Once(toU', "BEACON_P"), Once(toP', "MARK_U"), pending' = pending,
             Has(toU', "BEACON_P") => Has(toU, "BEACON_P"), Has(toP', "MARK_U") => Has(toP, "MARK_U")
      PROVE  OneToken'
  BY <1>2, <1>3 DEF OneToken
<1>4. ASSUME NEW out \in Seq(ToPLine)
      PROVE  ~Has(out, "BEACON_P") /\ out \in Seq(ToULine)
  <2>1. ASSUME NEW i \in 1 .. Len(out) PROVE out[i][1] # "BEACON_P"
    <3>1. out[i] \in ToPLine
      BY ElementOfSeq
    <3>2. QED
      BY <3>1 DEF ToPLine, ServerKinds
  <2>2. QED
    BY <2>1, LinesType DEF Has
<1>5. ASSUME NEW rest \in Seq(ToULine), Once(rest, "BEACON_P"), Has(rest, "BEACON_P") => Has(toU, "BEACON_P"),
             NEW out \in Seq(ToPLine), ServerSends(rest, out), ~Has(out, "MARK_U"), pending' = pending
      PROVE  OneToken'
  <2>1. toP' = toP \o out /\ (toU' = rest \/ toU' = rest \o out)
    BY <1>1, <1>5 DEF ServerSends
  <2>2. ~Has(out, "BEACON_P") /\ out \in Seq(ToULine)
    BY <1>4
  <2>3. Once(toP', "MARK_U") /\ (Has(toP', "MARK_U") => Has(toP, "MARK_U"))
    BY <1>1, <1>2, <1>5, <2>1, <2>2, OnceParts, HadBefore
  <2>4. Once(toU', "BEACON_P") /\ (Has(toU', "BEACON_P") => Has(toU, "BEACON_P"))
    <3>1. /\ Once(rest \o out, "BEACON_P")
          /\ Has(rest \o out, "BEACON_P") => Has(rest, "BEACON_P") \/ Has(out, "BEACON_P")
      BY <1>5, <2>2, OnceParts, HadBefore
    <3>2. QED
      BY <1>5, <2>1, <2>2, <3>1
  <2>5. QED
    BY <1>3, <1>5, <2>3, <2>4
<1>6. CASE UNCHANGED vars
  BY <1>6 DEF vars, picoVars, OneToken
<1>7. CASE \E bit \in Bits : Hears(bit)
  <2>1. pending' = pending
    BY <1>1, <1>7, HearingShape DEF picoVars
  <2>2. PICK out \in Seq(ToPLine) :
          /\ toU # <<>> /\ ServerSends(Tail(toU), out)
          /\ \/ out = <<Sent("MARK_U", Head(toU)[2])>> /\ Head(toU)[1] = "BEACON_P"
             \/ \A m \in LinesOn(out) : m[1] # "MARK_U"
    BY <1>1, <1>7, HearingShape
  <2>3. /\ Tail(toU) \in Seq(ToULine) /\ Once(Tail(toU), "BEACON_P")
        /\ Has(Tail(toU), "BEACON_P") => Has(toU, "BEACON_P")
        /\ Head(toU)[1] = "BEACON_P" => ~Has(Tail(toU), "BEACON_P") /\ Has(toU, "BEACON_P")
    BY <1>1, <1>2, <2>2, LinesType, OnceParts, HadBefore
  <2>4. CASE \A m \in LinesOn(out) : m[1] # "MARK_U"
    <3>1. ~Has(out, "MARK_U")
      BY <2>4, HasOn
    <3>2. QED
      BY <1>5, <2>1, <2>2, <2>3, <3>1
  <2>5. CASE out = <<Sent("MARK_U", Head(toU)[2])>> /\ Head(toU)[1] = "BEACON_P"
    <3>1. PICK q \in ToULine : out = <<q>>
      <4>1. ToPLine \subseteq ToULine /\ Head(toU)[2] \in Bits
        BY <2>2, SinceType DEF ToPLine, ToULine
      <4>2. QED
        BY <2>5, <4>1, SentTypes DEF ServerKinds
    <3>2. pending # None /\ ~Has(toP, "MARK_U")
      BY <1>2, <2>3, <2>5
    <3>3. Once(toP', "MARK_U")
      BY <1>1, <2>2, <3>1, <3>2, OnceParts DEF ServerSends
    <3>4. ~Has(toU', "BEACON_P") /\ toU' \in Seq(ToULine)
      <4>1. toU' = Tail(toU) \/ toU' = Tail(toU) \o out
        BY <2>2 DEF ServerSends
      <4>2. ~Has(out, "BEACON_P") /\ out \in Seq(ToULine)
        BY <1>4
      <4>3. QED
        <5>1. PICK s \in Seq(ToULine) : s = Tail(toU)
          BY <2>3
        <5>2. ~Has(s \o out, "BEACON_P") /\ s \o out \in Seq(ToULine) /\ ~Has(s, "BEACON_P")
          <6>1. ~Has(s, "BEACON_P")
            BY <2>3, <2>5, <5>1
          <6>2. QED
            BY <4>2, <6>1, HadBefore, LinesType
        <5>3. QED
          BY <4>1, <5>1, <5>2
    <3>5. Once(toU', "BEACON_P")
      BY <3>4 DEF Once, Has
    <3>6. QED
      BY <2>1, <3>2, <3>3, <3>4, <3>5 DEF OneToken
  <2>6. QED
    BY <2>2, <2>4, <2>5
<1>8. CASE Passes
  <2>1. pending' = pending
    BY <1>1, <1>8, PassShape DEF picoVars
  <2>2. PICK out \in Seq(ToPLine) : /\ ServerSends(toU, out)
                                    /\ \A m \in LinesOn(out) : m[1] \in {"BEACON_U", "PING", "AYT?"}
    BY <1>1, <1>8, PassShape
  <2>3. ~Has(out, "MARK_U")
    BY <2>2, HasOn
  <2>4. QED
    BY <1>1, <1>2, <1>5, <2>1, <2>2, <2>3
<1>9. CASE PicoActs
  <2>1. CASE \E out \in Seq(ToULine) :
               /\ toP # <<>> /\ toP' = Tail(toP) /\ toU' = toU \o out
               /\ \A m \in LinesOn(out) : m[1] \in {"MARK_P", "PONG", "HERE", "READY"}
               /\ \/ pending' = pending
                  \/ Head(toP)[1] = "MARK_U" /\ Head(toP)[2] = pending /\ pending' = None
    <3>1. PICK out \in Seq(ToULine) :
               /\ toP # <<>> /\ toP' = Tail(toP) /\ toU' = toU \o out
               /\ \A m \in LinesOn(out) : m[1] \in {"MARK_P", "PONG", "HERE", "READY"}
               /\ \/ pending' = pending
                  \/ Head(toP)[1] = "MARK_U" /\ Head(toP)[2] = pending /\ pending' = None
      BY <2>1
    <3>2. ~Has(out, "BEACON_P")
      BY <3>1, HasOn
    <3>3. /\ Once(toU', "BEACON_P") /\ (Has(toU', "BEACON_P") => Has(toU, "BEACON_P"))
          /\ Once(toP', "MARK_U") /\ (Has(toP', "MARK_U") => Has(toP, "MARK_U"))
          /\ Head(toP)[1] = "MARK_U" => ~Has(toP', "MARK_U") /\ Has(toP, "MARK_U")
      BY <1>1, <1>2, <3>1, <3>2, OnceParts, HadBefore
    <3>4. CASE pending' = pending
      BY <1>3, <3>3, <3>4
    <3>5. CASE Head(toP)[1] = "MARK_U"
      <4>1. ~Has(toU', "BEACON_P") /\ ~Has(toP', "MARK_U")
        BY <1>2, <3>3, <3>5
      <4>2. QED
        BY <3>3, <4>1 DEF OneToken
    <3>6. QED
      BY <3>1, <3>4, <3>5
  <2>2. CASE toP' = toP /\ toU' = toU \o <<Sent("BEACON_P", pBit)>> /\ pending = None /\ pending' = pBit
    <3>1. ~Has(toU, "BEACON_P") /\ ~Has(toP, "MARK_U")
      BY <1>2, <2>2
    <3>2. Sent("BEACON_P", pBit) \in ToULine /\ pBit # None
      BY SentTypes, KeptTypes DEF PicoKinds
    <3>3. Once(toU', "BEACON_P")
      BY <1>1, <2>2, <3>1, <3>2, OnceParts
    <3>4. QED
      BY <1>2, <2>2, <3>1, <3>2, <3>3 DEF OneToken
  <2>3. CASE toP' = toP /\ toU' = toU \o <<Sent("GET", 0)>> /\ pending' = pending
    <3>1. <<Sent("GET", 0)>> \in Seq(ToULine)
      BY SentTypes, OnlyLine DEF PicoKinds, Bits
    <3>2. ~Has(<<Sent("GET", 0)>>, "BEACON_P")
      <4>1. Sent("GET", 0)[1] # "BEACON_P"
        BY DEF Sent
      <4>2. \A q : Has(<<q>>, "BEACON_P") => q[1] = "BEACON_P"
        BY <1>1, HadBefore
      <4>3. QED
        BY <4>1, <4>2
    <3>3. QED
      BY <1>1, <1>2, <1>3, <2>3, <3>1, <3>2, OnceParts, HadBefore
  <2>4. QED
    BY <1>1, <1>9, <2>1, <2>2, <2>3, PicoShape
<1>10. CASE Tick
  <2>1. toU' = Older(toU) /\ toP' = Older(toP) /\ pending' = pending
    BY <1>1, <1>10, TickShape
  <2>2. QED
    <3>1. /\ Once(Older(toU), "BEACON_P") /\ Once(Older(toP), "MARK_U")
          /\ Has(Older(toU), "BEACON_P") => Has(toU, "BEACON_P")
          /\ Has(Older(toP), "MARK_U") => Has(toP, "MARK_U")
      BY <1>1, <1>2, OnceParts, HadBefore
    <3>2. QED
      BY <1>3, <2>1, <3>1
<1>11. CASE LoseLine
  <2>1. /\ pending' = pending
        /\ \/ toU # <<>> /\ toU' = Tail(toU) /\ toP' = toP
           \/ toP # <<>> /\ toP' = Tail(toP) /\ toU' = toU
    BY <1>11, LossShape DEF picoVars
  <2>2. QED
    <3>1. /\ toU # <<>> => /\ Once(Tail(toU), "BEACON_P")
                           /\ Has(Tail(toU), "BEACON_P") => Has(toU, "BEACON_P")
          /\ toP # <<>> => /\ Once(Tail(toP), "MARK_U")
                           /\ Has(Tail(toP), "MARK_U") => Has(toP, "MARK_U")
      BY <1>1, <1>2, OnceParts, HadBefore
    <3>2. QED
      <4>1. CASE toU # <<>> /\ toU' = Tail(toU) /\ toP' = toP
        <5>1. Once(toU', "BEACON_P") /\ (Has(toU', "BEACON_P") => Has(toU, "BEACON_P"))
          <6>1. Once(Tail(toU), "BEACON_P") /\ (Has(Tail(toU), "BEACON_P") => Has(toU, "BEACON_P"))
            BY <3>1, <4>1
          <6>2. QED
            BY <4>1, <6>1
        <5>2. Once(toP', "MARK_U") /\ (Has(toP', "MARK_U") => Has(toP, "MARK_U"))
          BY <1>2, <4>1
        <5>3. QED
          BY <1>3, <2>1, <5>1, <5>2
      <4>2. CASE toP # <<>> /\ toP' = Tail(toP) /\ toU' = toU
        <5>1. Once(toP', "MARK_U") /\ (Has(toP', "MARK_U") => Has(toP, "MARK_U"))
          <6>1. Once(Tail(toP), "MARK_U") /\ (Has(Tail(toP), "MARK_U") => Has(toP, "MARK_U"))
            BY <3>1, <4>2
          <6>2. QED
            BY <4>2, <6>1
        <5>2. Once(toU', "BEACON_P") /\ (Has(toU', "BEACON_P") => Has(toU, "BEACON_P"))
          BY <1>2, <4>2
        <5>3. QED
          BY <1>3, <2>1, <5>1, <5>2
      <4>3. QED
        BY <2>1, <4>1, <4>2
<1>12. QED
  BY <1>1, <1>6, <1>7, <1>8, <1>9, <1>10, <1>11

-----------------------------------------------------------------------------
(* Probes of a program that is not heard. *)

(* Probes and beacons do not mix: beacons that come at least as fast as     *)
(* probes are diagnosed first.                                              *)
LEMMA AskedRarely ==
  ASSUME TypeOK, Order, ~Unmarked, ProbeDue, ages.rx >= Interval
  PROVE  every > Interval
<1>1. /\ ages.rx \in Nat /\ ages.mark \in Nat /\ ages.beacon \in Nat /\ every \in Nat /\ Interval \in Nat
      /\ probe.marker \in Nat
  BY DeadTypes
<1>2. ages.mark >= Interval
  BY <1>1 DEF Order
<1>3. WaitingNow = None
  BY <1>2 DEF Unmarked
<1>4. probe.waiting = None /\ ages.beacon < every
  <2>1. ~BeaconDue
    BY <1>3, SinceType, KeptTypes DEF WaitingNow
  <2>2. probe.waiting = None
    BY <1>3, <2>1 DEF WaitingNow
  <2>3. probe.marker = 0
    BY <1>1, <2>2 DEF Order
  <2>4. QED
    BY <1>1, <2>1, <2>2, <2>3 DEF BeaconDue
<1>5. ages.mark <= ages.beacon
  BY <1>1, <1>4 DEF Order
<1>6. QED
  BY <1>1, <1>2, <1>4, <1>5

LEMMA RarelyKept ==
  ASSUME TypeOK, [Next]_vars, sPhase = "idle" => Order, sPhase = "idle" /\ every <= Interval => probe.sent = 0
  PROVE  sPhase' = "idle" /\ every' <= Interval => probe'.sent = 0
<1>1. SUFFICES ASSUME sPhase' = "idle", every' <= Interval PROVE probe'.sent = 0
  OBVIOUS
<1>2. CASE ServerStep
  <2>1. sPhase = "idle" /\ every' = every /\ ~RecvRequest /\ ~RecvReply
    BY <1>1, <1>2 DEF ServerStep, RecvBeacon, RecvMark, RecvPing, RecvPong, RecvHere, RecvOwn, RecvRequest,
                      RecvReply, IdlePass, Idle, Leaves, lineVars
  <2>2. Order /\ every <= Interval /\ probe.sent = 0
    BY <1>1, <2>1
  <2>3. /\ probe \in [outstanding : Bits \union {None}, sent : 0 .. Retries,
                      waiting : Bits \union {None}, marker : 0 .. Retries + 1]
        /\ every \in Nat /\ Interval \in Nat
    BY TypeParts, KeptTypes DEF ServerOK
  <2>4. CASE \E bit \in Bits : Hears(bit)
    <3>1. \/ UNCHANGED probe \/ probe' = [probe EXCEPT !.sent = 0] \/ probe' = NoProbe
          \/ probe' = [NoProbe EXCEPT !.sent = probe.sent]
      BY <2>4 DEF Hears, RecvBeacon, RecvMark, RecvPing, RecvPong, RecvHere, RecvOwn, BeaconProves
    <3>2. QED
      BY <2>2, <2>3, <3>1 DEF NoProbe
  <2>5. CASE IdlePass
    <3>1. ~Ask
      <4>1. ASSUME Ask PROVE FALSE
        <5>1. ~Unmarked /\ ProbeDue /\ ages.rx >= Interval
          BY <4>1 DEF Ask, Quiet
        <5>2. every > Interval
          BY <2>2, <5>1, AskedRarely
        <5>3. QED
          BY <2>2, <2>3, <5>2
      <4>2. QED
        BY <4>1
    <3>2. ~GiveUp
      BY <1>1 DEF GiveUp, Leaves
    <3>3. probe'.sent = probe.sent
      BY <2>3, <2>5, <3>1, <3>2 DEF IdlePass, Diagnose, BeaconOnly
    <3>4. QED
      BY <2>2, <3>3
  <2>6. QED
    BY <1>2, <2>1, <2>4, <2>5 DEF ServerStep, Hears
<1>3. CASE PicoStep \/ Enter \/ Tick \/ LoseLine \/ (\E d \in Directions : Cut(d)) \/ UNCHANGED vars
  <2>1. UNCHANGED <<sPhase, probe, every>>
    BY <1>3 DEF PicoStep, PicoRecv, PicoRecvMeta, SendPicoBeacon, PicoRestart, Enter, PicoAnswers,
                Tick, LoseLine, Cut, serverVars, lineVars, vars
  <2>2. QED
    BY <1>1, <2>1
<1>4. QED
  BY <1>2, <1>3 DEF Next

LEMMA LeastGrows ==
  /\ \A a, b, n \in Nat : a <= b => Least(a, n) <= Least(b, n)
  /\ \A a, b, n \in Nat : a <= b + 1 => Least(a, n) <= Least(b, n) + 1
  /\ \A a, n \in Nat : Least(a, n) \in Nat /\ Least(a, n) <= n /\ Least(a, n) <= a
  BY DEF Least

LEMMA CallTypes ==
  ASSUME TypeOK
  PROVE  /\ Silence \in Nat /\ Grace \in Nat /\ Latency \in Nat /\ PicoBeacon \in Nat /\ pAges.beacon \in Nat
         /\ Capped \in Nat /\ Grace + Latency \in Nat /\ 0 \in Nat /\ None \notin Bits
         /\ toU \in Seq(ToULine) /\ toP \in Seq(ToULine) /\ Grace' = Grace /\ pending \in Bits \union {None}
<1>1. /\ Silence \in Nat /\ Grace \in Nat /\ Latency \in Nat /\ PicoBeacon \in Nat /\ pAges.beacon \in Nat
      /\ Capped \in Nat /\ None \notin Bits /\ pending \in Bits \union {None}
  BY KeptTypes
<1>2. Grace + Latency \in Nat /\ 0 \in Nat
  BY <1>1
<1>3. toU \in Seq(ToULine) /\ toP \in Seq(ToULine)
  BY SinceType
<1>4. Grace' = Grace
  BY DEF Grace
<1>5. QED
  BY <1>1, <1>2, <1>3, <1>4

(* The server sends, or reads a line the program has not called with. *)
LEMMA CallsKept ==
  ASSUME TypeOK, cut = {}, Calls, Silence' \in Nat, Silence' <= Silence, UNCHANGED <<pPhase, pAges, pending>>,
         NEW rest, NEW out \in Seq(ToPLine), ServerSends(rest, out),
         \/ rest = toU
         \/ toU # <<>> /\ rest = Tail(toU) /\ Head(toU)[1] \notin {"BEACON_P", "GET"}
  PROVE  Calls'
<1>1. toP' = toP \o out /\ (toU' = rest \/ toU' = rest \o out)
  BY DEF ServerSends
<1>2. /\ out \in Seq(ToULine) /\ rest \in Seq(ToULine) /\ toU \in Seq(ToULine) /\ toP \in Seq(ToULine)
      /\ Silence \in Nat /\ Grace \in Nat /\ Latency \in Nat /\ PicoBeacon \in Nat /\ pAges.beacon \in Nat
      /\ Capped \in Nat /\ Grace + Latency \in Nat /\ 0 \in Nat
  <2>1. /\ out \in Seq(ToULine) /\ rest \in Seq(ToULine) /\ toU \in Seq(ToULine) /\ toP \in Seq(ToULine)
    BY LinesType, SinceType
  <2>2. QED
    BY <2>1, CallTypes
<1>3. PICK n \in Nat, m \in Nat, b \in Bits \union {None} : n = Silence /\ m = Silence' /\ b = pending /\ m <= n
  BY <1>2, CallTypes
<1>4. ASSUME NEW kind \in {"BEACON_P", "GET"}, NEW bit, NEW slack \in Nat, Carries(toU, kind, bit, n, slack)
      PROVE  Carries(toU', kind, bit, m, slack)
  <2>1. Carries(toU, kind, bit, m, slack)
    BY <1>2, <1>3, <1>4, CarriedYounger
  <2>2. Carries(rest, kind, bit, m, slack)
    BY <1>2, <1>4, <2>1, CarriedAhead
  <2>3. QED
    BY <1>1, <1>2, <2>2, CarriedBehind
<1>5. RequestOnWay => RequestOnWay'
  BY <1>2, <1>3, <1>4, CallTypes DEF RequestOnWay
<1>6. BeaconOnWay => BeaconOnWay'
  BY <1>2, <1>3, <1>4, CallTypes DEF BeaconOnWay
<1>7. Capped' <= Capped /\ Capped' \in Nat
  <2>1. Least(m, PicoBeacon) <= Least(n, PicoBeacon) /\ Least(m, PicoBeacon) \in Nat
    BY <1>2, <1>3, LeastGrows
  <2>2. Capped' = Least(Silence', PicoBeacon) /\ Capped = Least(Silence, PicoBeacon)
    BY DEF Capped
  <2>3. QED
    BY <1>3, <2>1, <2>2
<1>8. NextBeacon => NextBeacon'
  <2>1. PICK g \in Nat, c \in Nat, d \in Nat, p \in Nat :
          g = Grace /\ c = Capped /\ d = Capped' /\ p = pAges.beacon
    BY <1>2, <1>7
  <2>2. n <= g => m <= g
    BY <1>3
  <2>3. c <= p => d <= p
    <3>1. d <= c
      BY <1>7, <2>1
    <3>2. QED
      BY <3>1
  <2>4. QED
    BY <1>3, <2>1, <2>2, <2>3, CallTypes DEF NextBeacon
<1>9. ReceiptOnWay => ReceiptOnWay'
  <2>1. Carries(toP, "MARK_U", b, n, 0) => Carries(toP', "MARK_U", b, m, 0)
    <3>1. SUFFICES ASSUME Carries(toP, "MARK_U", b, n, 0) PROVE Carries(toP', "MARK_U", b, m, 0)
      OBVIOUS
    <3>2. Carries(toP, "MARK_U", b, m, 0)
      BY <1>2, <1>3, <3>1, CarriedYounger
    <3>3. QED
      BY <1>1, <1>2, <3>2, CarriedBehind
  <2>2. Capped <= pAges.beacon => Capped' <= pAges.beacon
    <3>1. PICK c \in Nat, d \in Nat, p \in Nat : c = Capped /\ d = Capped' /\ p = pAges.beacon /\ d <= c
      BY <1>2, <1>7
    <3>2. c <= p => d <= p
      BY <3>1
    <3>3. QED
      BY <3>1, <3>2
  <2>3. QED
    BY <1>3, <2>1, <2>2 DEF ReceiptOnWay
<1>10. QED
  BY <1>5, <1>6, <1>8, <1>9 DEF Calls

(* A beacon of the program is read and answered. *)
LEMMA CallAnswered ==
  ASSUME TypeOK, cut = {}, Calls, Silence' = 0, UNCHANGED <<pPhase, pAges, pending>>,
         toU # <<>>, Head(toU)[1] = "BEACON_P", ServerSends(Tail(toU), <<Sent("MARK_U", Head(toU)[2])>>)
  PROVE  Calls'
<1>1. /\ toU \in Seq(ToULine) /\ toP \in Seq(ToULine) /\ Tail(toU) \in Seq(ToULine) /\ Head(toU)[2] \in Bits
      /\ Silence \in Nat /\ Grace \in Nat /\ Latency \in Nat /\ Grace + Latency \in Nat /\ pAges.beacon \in Nat
      /\ PicoBeacon \in Nat /\ None \notin Bits /\ 0 \in Nat
  <2>1. Tail(toU) \in Seq(ToULine) /\ Head(toU) \in ToULine
    BY SinceType
  <2>2. Head(toU)[2] \in Bits
    BY <2>1 DEF ToULine
  <2>3. QED
    BY <2>1, <2>2, CallTypes
<1>2. PICK b \in Bits : b = Head(toU)[2]
  BY <1>1
<1>3. /\ Sent("MARK_U", b) \in ToULine /\ <<Sent("MARK_U", b)>> \in Seq(ToULine)
  <2>1. ToPLine \subseteq ToULine
    BY DEF ToPLine, ToULine
  <2>2. QED
    BY <2>1, SentTypes, OnlyLine DEF ServerKinds
<1>4. /\ toP' = toP \o <<Sent("MARK_U", b)>>
      /\ toU' = Tail(toU) \/ toU' = Tail(toU) \o <<Sent("MARK_U", b)>>
  BY <1>2 DEF ServerSends
<1>5. Capped' = 0
  <2>1. Least(0, PicoBeacon) = 0
    <3>1. \A n \in Nat : Least(0, n) = 0
      BY DEF Least
    <3>2. QED
      BY <1>1, <3>1
  <2>2. QED
    BY <2>1 DEF Capped
<1>6. PICK n \in Nat, w \in Bits \union {None} : n = Silence /\ w = pending /\ 0 <= n
  BY <1>1, CallTypes
<1>7. ASSUME NEW kind, NEW bit, NEW slack \in Nat, Carries(toU, kind, bit, n, slack)
      PROVE  (Head(toU)[1] = kind /\ Head(toU)[2] = bit) \/ Carries(toU', kind, bit, 0, slack)
  <2>1. Carries(toU, kind, bit, 0, slack)
    <3>1. 0 \in Nat /\ 0 <= n
      BY <1>6
    <3>2. QED
      BY <1>1, <1>7, <3>1, CarriedYounger
  <2>2. (Head(toU)[1] = kind /\ Head(toU)[2] = bit) \/ Carries(Tail(toU), kind, bit, 0, slack)
    BY <1>1, <2>1, CarriedAhead
  <2>3. QED
    BY <1>1, <1>3, <1>4, <2>2, CarriedBehind
<1>8. RequestOnWay => RequestOnWay'
  BY <1>1, <1>6, <1>7, CallTypes DEF RequestOnWay
<1>9. NextBeacon => NextBeacon'
  <2>1. 0 <= Grace /\ 0 <= pAges.beacon
    BY <1>1
  <2>2. QED
    BY <1>5, <2>1, CallTypes DEF NextBeacon
<1>10. BeaconOnWay => BeaconOnWay' \/ ReceiptOnWay'
  <2>1. SUFFICES ASSUME BeaconOnWay PROVE BeaconOnWay' \/ ReceiptOnWay'
    OBVIOUS
  <2>2. b = w \/ Carries(toU', "BEACON_P", w, 0, Grace)
    BY <1>1, <1>2, <1>6, <1>7, <2>1, CallTypes DEF BeaconOnWay
  <2>3. CASE b = w
    <3>1. Carries(toP', "MARK_U", b, 0, 0)
      <4>1. 0 \in Nat /\ 0 <= 0
        OBVIOUS
      <4>2. QED
        BY <1>1, <1>3, <1>4, <4>1, CarriedNew
    <3>2. pending' # None /\ pending' = b
      BY <1>1, <1>6, <2>3
    <3>3. Capped' <= pAges'.beacon
      <4>1. 0 <= pAges.beacon
        BY <1>1
      <4>2. QED
        BY <1>5, <4>1
    <3>4. QED
      BY <3>1, <3>2, <3>3 DEF ReceiptOnWay
  <2>4. CASE Carries(toU', "BEACON_P", w, 0, Grace)
    BY <1>6, <2>4, CallTypes DEF BeaconOnWay
  <2>5. QED
    BY <2>2, <2>3, <2>4
<1>11. ReceiptOnWay => ReceiptOnWay'
  <2>1. SUFFICES ASSUME ReceiptOnWay PROVE ReceiptOnWay'
    OBVIOUS
  <2>2. Carries(toP, "MARK_U", w, n, 0) /\ pending # None
    BY <1>6, <2>1 DEF ReceiptOnWay
  <2>3. Carries(toP, "MARK_U", w, 0, 0)
    <3>1. 0 \in Nat /\ 0 <= n
      BY <1>6
    <3>2. QED
      BY <1>1, <2>2, <3>1, CarriedYounger
  <2>4. Carries(toP', "MARK_U", w, 0, 0)
    BY <1>1, <1>3, <1>4, <2>3, CarriedBehind
  <2>5. Capped' <= pAges'.beacon
    <3>1. 0 <= pAges.beacon
      BY <1>1
    <3>2. QED
      BY <1>5, <3>1
  <2>6. QED
    BY <1>6, <2>2, <2>4, <2>5 DEF ReceiptOnWay
<1>12. QED
  BY <1>8, <1>9, <1>10, <1>11 DEF Calls

-----------------------------------------------------------------------------
(* How long the silence is after a step. *)
LEMMA SilenceSteps ==
  ASSUME TypeOK, TypeOK'
  PROVE  /\ Silence' \in Nat
         /\ probe'.sent = 0 /\ ages'.rx = 0 => Silence' = 0
         /\ probe'.sent = probe.sent /\ ages'.rx \in {0, ages.rx} /\ ages'.ping \in {0, ages.ping} => Silence' <= Silence
         /\ probe'.sent = probe.sent + 1 /\ ages'.ping = 0 /\ ages.ping >= Interval /\ ages.rx >= Interval =>
              Silence' <= Silence
         /\ probe'.sent = probe.sent /\ ages'.rx <= ages.rx + 1 /\ ages'.ping <= ages.ping + 1 =>
              Silence' <= Silence + 1
<1>1. PICK s \in Nat, p \in Nat, r \in Nat, i \in Nat \ {0} :
        s = probe.sent /\ p = ages.ping /\ r = ages.rx /\ i = Interval
  <2>1. probe.sent \in Nat /\ ages.ping \in Nat /\ ages.rx \in Nat /\ Interval \in Nat \ {0}
    BY KeptTypes, Constants
  <2>2. QED
    BY <2>1
<1>2. PICK t \in Nat, q \in Nat, x \in Nat : t = probe'.sent /\ q = ages'.ping /\ x = ages'.rx
  <2>1. probe'.sent \in Nat
    <3>1. probe' \in [outstanding : Bits \union {None}, sent : 0 .. Retries,
                      waiting : Bits \union {None}, marker : 0 .. Retries + 1] /\ Retries \in Nat
      BY Constants DEF TypeOK
    <3>2. QED
      BY <3>1
  <2>2. ages'.ping \in Nat /\ ages'.rx \in Nat
    BY AgesNat
  <2>3. QED
    BY <2>1, <2>2
<1>3. /\ Silence = IF s >= 1 THEN s * i + p ELSE Least(r, i)
      /\ Silence' = IF t >= 1 THEN t * i + q ELSE Least(x, i)
  BY <1>1, <1>2 DEF Silence
<1>4. PICK k \in Nat, l \in Nat : k = s * i /\ l = t * i /\ (t = s + 1 => l = k + i) /\ (t = s => l = k)
                                  /\ (s = 0 => k = 0)
  <2>1. s * i \in Nat /\ t * i \in Nat /\ (s + 1) * i = s * i + i /\ 0 * i = 0
    BY Products
  <2>2. QED
    BY <2>1
<1>5. /\ Silence = IF s >= 1 THEN k + p ELSE IF r < i THEN r ELSE i
      /\ Silence' = IF t >= 1 THEN l + q ELSE IF x < i THEN x ELSE i
  BY <1>3, <1>4 DEF Least
<1>6. Silence' \in Nat /\ (t = 0 /\ x = 0 => Silence' = 0)
  BY <1>5
<1>7. t = s /\ x \in {0, r} /\ q \in {0, p} => Silence' <= Silence
  BY <1>4, <1>5
<1>8. t = s + 1 /\ q = 0 /\ p >= i /\ r >= i => Silence' <= Silence
  BY <1>4, <1>5
<1>9. t = s /\ x <= r + 1 /\ q <= p + 1 => Silence' <= Silence + 1
  BY <1>4, <1>5
<1>10. QED
  BY <1>1, <1>2, <1>6, <1>7, <1>8, <1>9

(* The account of the probes when nothing changes what is paid. *)
LEMMA PaidOn ==
  ASSUME ProbesPaid, probe'.sent = probe.sent, losses' = losses, Calls => Calls', Asked => Asked'
  PROVE  ProbesPaid'
<1>1. \A more : Paid(more) => Paid(more)'
  BY DEF Paid
<1>2. QED
  BY <1>1 DEF ProbesPaid

(* The probes are counted anew. *)
LEMMA PaidAnew ==
  ASSUME TypeOK, ProbesPaid, probe'.sent = 0, losses' = losses, Calls => Calls'
  PROVE  ProbesPaid'
<1>1. losses \in Nat /\ probe.sent \in Nat
  BY KeptTypes
<1>2. Paid(0)' /\ (losses >= 1 => Paid(1)')
  BY <1>1 DEF Paid
<1>3. Calls \/ losses >= 1
  BY <1>1 DEF ProbesPaid, Paid
<1>4. QED
  BY <1>2, <1>3 DEF ProbesPaid

(* Questions that the server does not hear answered stay asked. *)
LEMMA AskedOn ==
  ASSUME TypeOK, cut = {}, Asked, probe'.outstanding = probe.outstanding, ages'.ping = ages.ping,
         NEW rest, NEW out \in Seq(ToPLine), ServerSends(rest, out),
         \A m \in LinesOn(out) : m[1] # "AYT?",
         \/ rest = toU
         \/ /\ toU # <<>> /\ rest = Tail(toU)
            /\ ~(Head(toU)[1] = "PONG" /\ Head(toU)[2] = probe.outstanding)
  PROVE  Asked'
<1>1. PICK n \in Nat, o \in Bits \union {None} : n = ages.ping /\ o = probe.outstanding
  BY SinceType
<1>2. UnderAt("PING", "PONG", o, n)'
  <2>1. UnderAt("PING", "PONG", o, n) /\ n <= n
    BY <1>1 DEF Asked
  <2>2. \/ rest = toU
        \/ toU # <<>> /\ rest = Tail(toU) /\ ~(Head(toU)[1] = "PONG" /\ Head(toU)[2] = o)
    BY <1>1
  <2>3. QED
    BY <2>1, <2>2, ServerKeepsUnderAt
<1>3. /\ rest \in Seq(ToULine) /\ out \in Seq(ToULine) /\ toP \in Seq(ToULine)
      /\ Has(rest, "HERE") => Has(toU, "HERE")
  <2>1. toU \in Seq(ToULine) /\ toP \in Seq(ToULine) /\ out \in Seq(ToULine)
    BY SinceType, LinesType
  <2>2. CASE rest = toU
    BY <2>1, <2>2
  <2>3. CASE toU # <<>> /\ rest = Tail(toU)
    BY <2>1, <2>3, LinesType, HadBefore
  <2>4. QED
    BY <2>1, <2>2, <2>3
<1>4. ~Has(out, "AYT?") /\ ~Has(out, "HERE")
  <2>1. ASSUME NEW i \in 1 .. Len(out) PROVE out[i][1] # "HERE"
    <3>1. out[i] \in ToPLine
      BY ElementOfSeq
    <3>2. QED
      BY <3>1 DEF ToPLine, ServerKinds
  <2>2. QED
    BY <2>1, HasOn DEF Has
<1>5. ~Has(toP', "AYT?") /\ ~Has(toU', "HERE")
  <2>1. toP' = toP \o out /\ (toU' = rest \/ toU' = rest \o out)
    BY DEF ServerSends
  <2>2. ~Has(toP, "AYT?") /\ ~Has(rest, "HERE")
    BY <1>3 DEF Asked
  <2>3. ~Has(toP \o out, "AYT?") /\ ~Has(rest \o out, "HERE")
    BY <1>3, <1>4, <2>2, HadBefore
  <2>4. QED
    BY <2>1, <2>2, <2>3
<1>6. QED
  BY <1>1, <1>2, <1>5 DEF Asked

LEMMA PaidReading ==
  ASSUME TypeOK, TypeOK', Diagnosing, ProbesPaid, NEW number \in Bits, Hears(number)
  PROVE  ProbesPaid'
<1>1. /\ toU # <<>> /\ UNCHANGED <<pPhase, pAges, pending>> /\ losses' = losses /\ cut = {}
      /\ Tail(toU) \in Seq(ToULine)
  BY HearingShape, SinceType DEF picoVars, lineVars, Diagnosing
<1>2. PICK kind, bit : kind = Head(toU)[1] /\ bit = Head(toU)[2]
  OBVIOUS
<1>3. PICK out \in Seq(ToPLine) :
        /\ ServerSends(Tail(toU), out)
        /\ \A m \in LinesOn(out) : m[1] \in {"MARK_U", "PONG", "AYT-OK"}
        /\ kind = "BEACON_P" => out = <<Sent("MARK_U", bit)>>
        /\ \/ /\ probe'.sent = 0 /\ ages'.rx = 0
              /\ kind \in {"BEACON_P", "PING", "MARK_P", "PONG"}
           \/ /\ UNCHANGED <<ages, probe>>
              /\ kind \in {"PING", "PONG", "HERE", "BEACON_U", "MARK_U"}
              /\ kind = "PONG" => bit # probe.outstanding
           \/ /\ probe'.sent = probe.sent /\ ages'.rx = 0 /\ ages'.ping = ages.ping
              /\ kind = "HERE"
  BY <1>2, HearingShape
<1>4. kind # "BEACON_P" /\ kind # "GET" /\ Silence' <= Silence /\ Calls => Calls'
  <2>1. SUFFICES ASSUME kind # "BEACON_P", kind # "GET", Silence' <= Silence, Calls PROVE Calls'
    OBVIOUS
  <2>2. Silence' \in Nat
    BY SilenceSteps
  <2>3. Head(toU)[1] \notin {"BEACON_P", "GET"}
    BY <1>2, <2>1
  <2>4. QED
    BY <1>1, <1>3, <2>1, <2>2, <2>3, CallsKept
<1>5. CASE probe'.sent = 0 /\ ages'.rx = 0 /\ kind \in {"BEACON_P", "PING", "MARK_P", "PONG"}
  <2>1. Silence' = 0 /\ Silence' <= Silence
    <3>1. Silence' = 0 /\ Silence \in Nat
      BY <1>5, SilenceSteps, KeptTypes
    <3>2. QED
      BY <3>1
  <2>2. Calls => Calls'
    <3>1. CASE kind = "BEACON_P"
      BY <1>1, <1>2, <1>3, <2>1, <3>1, CallAnswered
    <3>2. CASE kind # "BEACON_P"
      BY <1>4, <1>5, <2>1, <3>2
    <3>3. QED
      BY <3>1, <3>2
  <2>3. QED
    BY <1>1, <1>5, <2>2, PaidAnew
<1>6. CASE /\ UNCHANGED <<ages, probe>>
           /\ kind \in {"PING", "PONG", "HERE", "BEACON_U", "MARK_U"}
           /\ kind = "PONG" => bit # probe.outstanding
  <2>1. Calls => Calls'
    <3>1. Silence' <= Silence
      BY <1>6, SilenceSteps
    <3>2. QED
      BY <1>4, <1>6, <3>1
  <2>2. Asked => Asked'
    <3>1. SUFFICES ASSUME Asked PROVE Asked'
      OBVIOUS
    <3>2. \A m \in LinesOn(out) : m[1] # "AYT?"
      BY <1>3
    <3>3. ~(Head(toU)[1] = "PONG" /\ Head(toU)[2] = probe.outstanding)
      BY <1>2, <1>6
    <3>4. QED
      BY <1>1, <1>3, <1>6, <3>1, <3>2, <3>3, AskedOn
  <2>3. QED
    BY <1>1, <1>6, <2>1, <2>2, PaidOn
<1>7. CASE probe'.sent = probe.sent /\ ages'.rx = 0 /\ ages'.ping = ages.ping /\ kind = "HERE"
  <2>1. Calls => Calls'
    <3>1. Silence' <= Silence
      BY <1>7, SilenceSteps
    <3>2. QED
      BY <1>4, <1>7, <3>1
  <2>2. ~Asked
    <3>1. Has(toU, "HERE")
      BY <1>1, <1>2, <1>7, SinceType, HadBefore
    <3>2. QED
      BY <3>1 DEF Asked
  <2>3. QED
    BY <1>1, <1>7, <2>1, <2>2, PaidOn
<1>8. QED
  BY <1>3, <1>5, <1>6, <1>7

LEMMA PaidPassing ==
  ASSUME TypeOK, TypeOK', QuickAnswers, Diagnosing, Aged, ProbesPaid, Passes
  PROVE  ProbesPaid'
<1>1. /\ UNCHANGED <<pPhase, pAges, pending>> /\ losses' = losses /\ cut = {} /\ ages'.rx = ages.rx
      /\ losses \in Nat /\ probe.sent \in Nat /\ Interval \in Nat /\ ages.ping \in Nat /\ ages.rx \in Nat
      /\ Latency \in Nat /\ 2 * Latency < Interval
  <2>1. UNCHANGED <<pPhase, pAges, pending>> /\ losses' = losses /\ cut = {} /\ ages'.rx = ages.rx
    BY PassShape DEF picoVars, lineVars, Diagnosing
  <2>2. QED
    BY <2>1, KeptTypes DEF QuickAnswers
<1>2. PICK out \in Seq(ToPLine) :
        /\ ServerSends(toU, out)
        /\ \/ /\ ProbeDue /\ ages.rx >= Interval /\ ages'.ping = 0
              /\ \A m \in LinesOn(out) : m[1] # "AYT?"
              /\ out = Beacon \o <<Sent("PING", probe'.outstanding)>> /\ probe'.outstanding \in Bits
              /\ probe'.sent = probe.sent + 1
           \/ ProbeDue /\ ages'.ping = 0 /\ probe'.sent = probe.sent
           \/ /\ ages'.ping = ages.ping /\ \A m \in LinesOn(out) : m[1] # "AYT?"
              /\ probe'.sent = probe.sent /\ probe'.outstanding = probe.outstanding
  BY PassShape
<1>3. Silence' <= Silence => (Calls => Calls')
  <2>1. Silence' \in Nat
    BY SilenceSteps
  <2>2. QED
    BY <1>1, <1>2, <2>1, CallsKept
<1>4. ProbeDue => ~Asked
  <2>1. PICK n \in Nat, o \in Bits \union {None} : n = ages.ping /\ o = probe.outstanding
    BY <1>1, SinceType
  <2>2. ProbeDue => ~UnderAt("PING", "PONG", o, n)
    BY <2>1, NoneUnderAt DEF ProbeDue
  <2>3. QED
    BY <2>1, <2>2 DEF Asked
<1>5. CASE /\ ProbeDue /\ ages.rx >= Interval /\ ages'.ping = 0
           /\ \A m \in LinesOn(out) : m[1] # "AYT?"
           /\ out = Beacon \o <<Sent("PING", probe'.outstanding)>> /\ probe'.outstanding \in Bits
           /\ probe'.sent = probe.sent + 1
  <2>1. Calls => Calls'
    <3>1. Silence' <= Silence
      BY <1>5, SilenceSteps DEF ProbeDue
    <3>2. QED
      BY <1>3, <3>1
  <2>2. PICK o \in Bits : o = probe'.outstanding
    BY <1>5
  <2>3. Carries(toP', "PING", o, 0, 0)
    BY <1>1, <1>2, <1>5, <2>2, ProbeOnWay
  <2>4. ~Has(toP', "AYT?") /\ ~Has(toU', "HERE")
    <3>1. \A m \in LinesOn(toU) \union LinesOn(toP) : m[3] \in Nat /\ m[3] <= Latency
      BY SinceType, LinesOnType, AgesOfLines
    <3>2. \A m \in LinesOn(toP) : m[1] # "AYT?"
      <4>1. ASSUME NEW m \in LinesOn(toP), m[1] = "AYT?" PROVE FALSE
        <5>1. ages.ping <= m[3] /\ ages.ping >= Interval
          BY <1>1, <1>5, <4>1 DEF Aged, ProbeDue
        <5>2. m[3] \in Nat /\ m[3] <= Latency
          BY <3>1, <4>1
        <5>3. QED
          BY <1>1, <5>1, <5>2
      <4>2. QED
        BY <4>1
    <3>3. \A m \in LinesOn(toU) : m[1] # "HERE"
      BY <1>1, <1>5, <3>1 DEF Aged, ProbeDue
    <3>4. /\ LinesOn(toU') \subseteq LinesOn(toU) \union LinesOn(out)
          /\ LinesOn(toP') \subseteq LinesOn(toP) \union LinesOn(out)
      BY <1>2, SinceType, LinesOnSent
    <3>5. \A m \in LinesOn(out) : m[1] # "HERE"
      <4>1. LinesOn(out) \subseteq ToPLine
        <5>1. \A i \in 1 .. Len(out) : out[i] \in ToPLine
          BY ElementOfSeq
        <5>2. QED
          BY <5>1 DEF LinesOn
      <4>2. QED
        BY <4>1 DEF ToPLine, ServerKinds
    <3>6. QED
      BY <1>5, <3>2, <3>3, <3>4, <3>5, HasOn
  <2>5. Asked'
    BY <1>5, <2>2, <2>3, <2>4 DEF Asked, UnderAt
  <2>6. Paid(0) => Paid(0)'
    BY <1>1, <1>4, <1>5, <2>5 DEF Paid
  <2>7. Paid(1) => Paid(1)'
    BY <1>1, <1>4, <1>5, <2>5 DEF Paid
  <2>8. QED
    BY <2>1, <2>6, <2>7 DEF ProbesPaid
<1>6. CASE ProbeDue /\ ages'.ping = 0 /\ probe'.sent = probe.sent
  <2>1. Silence' <= Silence
    BY <1>1, <1>6, SilenceSteps
  <2>2. QED
    BY <1>1, <1>3, <1>4, <1>6, <2>1, PaidOn
<1>7. CASE /\ ages'.ping = ages.ping /\ \A m \in LinesOn(out) : m[1] # "AYT?"
           /\ probe'.sent = probe.sent /\ probe'.outstanding = probe.outstanding
  <2>1. Silence' <= Silence
    BY <1>1, <1>7, SilenceSteps
  <2>2. Asked => Asked'
    BY <1>1, <1>2, <1>7, AskedOn
  <2>3. QED
    BY <1>1, <1>3, <1>7, <2>1, <2>2, PaidOn
<1>8. QED
  BY <1>2, <1>5, <1>6, <1>7

LEMMA CarriedHas ==
  ASSUME NEW s, NEW kind, NEW bit, NEW since, NEW slack, Carries(s, kind, bit, since, slack)
  PROVE  Has(s, kind)
  BY DEF Carries, Has

(* The program reads, beacons or sends its request. *)
LEMMA CallsByPico ==
  ASSUME TypeOK, Diagnosing, OneToken, PicoActs, Calls
  PROVE  Calls'
<1>1. /\ Silence' = Silence /\ Grace' = Grace /\ UNCHANGED losses
      /\ toU \in Seq(ToULine) /\ toP \in Seq(ToULine)
      /\ Silence \in Nat /\ Grace \in Nat /\ Grace + Latency \in Nat /\ Latency \in Nat /\ Latency <= Grace
      /\ None \notin Bits /\ pBit \in Bits
  <2>1. Silence' = Silence /\ UNCHANGED losses
    BY PicoShape DEF Silence, serverVars, lineVars
  <2>2. QED
    BY <2>1, CallTypes, KeptTypes
<1>2. Capped' = Capped
  BY <1>1 DEF Capped
<1>3. PICK n \in Nat, g \in Nat, w \in Bits \union {None} : n = Silence /\ g = Grace /\ w = pending
  BY <1>1, CallTypes
<1>4. PICK l \in Nat : l = Grace + Latency /\ g <= l
  BY <1>1, <1>3
<1>5. /\ RequestOnWay <=> Carries(toU, "GET", 0, n, l)
      /\ RequestOnWay' <=> Carries(toU', "GET", 0, n, l)
      /\ BeaconOnWay <=> Carries(toU, "BEACON_P", w, n, g)
      /\ BeaconOnWay' <=> Carries(toU', "BEACON_P", pending', n, g)
      /\ ReceiptOnWay <=> w # None /\ Carries(toP, "MARK_U", w, n, 0) /\ Capped <= pAges.beacon
      /\ ReceiptOnWay' <=> pending' # None /\ Carries(toP', "MARK_U", pending', n, 0) /\ Capped <= pAges'.beacon
      /\ NextBeacon <=> w = None /\ n <= g /\ Capped <= pAges.beacon
      /\ NextBeacon' <=> pending' = None /\ n <= g /\ Capped <= pAges'.beacon
  BY <1>1, <1>2, <1>3, <1>4 DEF RequestOnWay, BeaconOnWay, ReceiptOnWay, NextBeacon
<1>6. /\ BeaconOnWay => w # None /\ ~Has(toP, "MARK_U") /\ n <= l
      /\ ReceiptOnWay => n <= Latency
  <2>1. BeaconOnWay => w # None /\ ~Has(toP, "MARK_U")
    BY <1>3, <1>5, CarriedHas DEF OneToken
  <2>2. BeaconOnWay => n <= Latency + g
    BY <1>1, <1>5, CarriedInTime
  <2>3. ReceiptOnWay => n <= Latency + 0
    BY <1>1, <1>5, CarriedInTime
  <2>4. QED
    BY <1>1, <1>3, <1>4, <2>1, <2>2, <2>3
<1>7. CASE \E out \in Seq(ToULine) :
             /\ toP # <<>> /\ toP' = Tail(toP) /\ pAges'.beacon = pAges.beacon /\ toU' = toU \o out
             /\ pending' = IF Head(toP)[1] = "MARK_U" /\ Head(toP)[2] = w THEN None ELSE w
             /\ pPhase = "prompt" => pPhase' = "prompt"
  <2>1. PICK out \in Seq(ToULine) :
          /\ toP # <<>> /\ toP' = Tail(toP) /\ pAges'.beacon = pAges.beacon /\ toU' = toU \o out
          /\ pending' = IF Head(toP)[1] = "MARK_U" /\ Head(toP)[2] = w THEN None ELSE w
          /\ pPhase = "prompt" => pPhase' = "prompt"
    BY <1>7
  <2>2. RequestOnWay => RequestOnWay'
    BY <1>1, <1>5, <2>1, CarriedBehind
  <2>3. NextBeacon => NextBeacon'
    BY <1>5, <2>1
  <2>4. BeaconOnWay => BeaconOnWay'
    <3>1. SUFFICES ASSUME BeaconOnWay PROVE BeaconOnWay'
      OBVIOUS
    <3>2. Head(toP)[1] # "MARK_U"
      BY <1>1, <1>6, <2>1, <3>1, HadBefore
    <3>3. Carries(toU', "BEACON_P", w, n, g)
      BY <1>1, <1>5, <2>1, <3>1, CarriedBehind
    <3>4. QED
      BY <1>5, <2>1, <3>2, <3>3
  <2>5. ReceiptOnWay => ReceiptOnWay' \/ NextBeacon'
    <3>1. SUFFICES ASSUME ReceiptOnWay PROVE ReceiptOnWay' \/ NextBeacon'
      OBVIOUS
    <3>2. \/ Head(toP)[1] = "MARK_U" /\ Head(toP)[2] = w
          \/ Carries(Tail(toP), "MARK_U", w, n, 0)
      BY <1>1, <1>5, <2>1, <3>1, CarriedAhead
    <3>3. CASE Head(toP)[1] = "MARK_U" /\ Head(toP)[2] = w
      <4>1. n <= g
        BY <1>1, <1>3, <1>6, <3>1
      <4>2. QED
        BY <1>5, <2>1, <3>1, <3>3, <4>1
    <3>4. CASE Carries(Tail(toP), "MARK_U", w, n, 0)
      <4>1. Has(Tail(toP), "MARK_U") /\ Once(toP, "MARK_U")
        BY <3>4, CarriedHas DEF OneToken
      <4>2. Head(toP)[1] # "MARK_U"
        BY <1>1, <2>1, <4>1, OnceParts
      <4>3. QED
        BY <1>5, <2>1, <3>1, <3>4, <4>2
    <3>5. QED
      BY <3>2, <3>3, <3>4
  <2>6. QED
    BY <2>1, <2>2, <2>3, <2>4, <2>5 DEF Calls
<1>8. CASE /\ toP' = toP /\ toU' = toU \o <<Sent("BEACON_P", pBit)>>
           /\ w = None /\ pending' = pBit /\ pPhase' = "prompt"
  <2>1. Sent("BEACON_P", pBit) \in ToULine /\ <<Sent("BEACON_P", pBit)>> \in Seq(ToULine)
    BY <1>1, SentTypes, OnlyLine DEF PicoKinds
  <2>2. RequestOnWay => RequestOnWay'
    BY <1>1, <1>5, <1>8, <2>1, CarriedBehind
  <2>3. n <= g => Carries(toU', "BEACON_P", pBit, n, g)
    BY <1>1, <1>8, <2>1, CarriedNew
  <2>4. NextBeacon => BeaconOnWay'
    BY <1>5, <1>8, <2>3
  <2>5. QED
    BY <1>5, <1>6, <1>8, <2>2, <2>4 DEF Calls
<1>9. CASE /\ pPhase = "prompt" /\ toP' = toP /\ toU' = toU \o <<Sent("GET", 0)>>
  <2>1. Sent("GET", 0) \in ToULine /\ <<Sent("GET", 0)>> \in Seq(ToULine)
    BY SentTypes, OnlyLine DEF PicoKinds, Bits
  <2>2. RequestOnWay => RequestOnWay'
    BY <1>1, <1>5, <1>9, <2>1, CarriedBehind
  <2>3. NextBeacon \/ BeaconOnWay \/ ReceiptOnWay => n <= l
    BY <1>1, <1>3, <1>4, <1>5, <1>6
  <2>4. n <= l => Carries(toU', "GET", 0, n, l)
    BY <1>1, <1>4, <1>9, <2>1, CarriedNew
  <2>5. QED
    BY <1>5, <2>2, <2>3, <2>4 DEF Calls
<1>10. QED
  BY <1>3, <1>7, <1>8, <1>9, PicoShape

LEMMA PaidByPico ==
  ASSUME TypeOK, Diagnosing, OneToken, PicoActs, ProbesPaid
  PROVE  ProbesPaid'
<1>1. /\ UNCHANGED <<probe, ages, losses>> /\ cut = {} /\ sPhase = "idle"
      /\ toU \in Seq(ToULine) /\ toP \in Seq(ToULine)
  BY PicoShape, SinceType DEF serverVars, lineVars, Diagnosing
<1>2. Asked => Asked'
  <2>1. SUFFICES ASSUME Asked PROVE Asked'
    OBVIOUS
  <2>2. PICK n \in Nat, o \in Bits \union {None} : n = ages.ping /\ o = probe.outstanding
    BY SinceType
  <2>3. UnderAt("PING", "PONG", o, n)'
    <3>1. UnderAt("PING", "PONG", o, n) /\ <<"PING", "PONG">> \in Questions
      BY <2>1, <2>2 DEF Asked, Questions
    <3>2. QED
      BY <1>1, <3>1, PicoKeepsUnderAt DEF PicoActs
  <2>4. ~Has(toP, "AYT?") /\ ~Has(toU, "HERE")
    BY <2>1 DEF Asked
  <2>5. \/ /\ toP # <<>> /\ toP' = Tail(toP)
           /\ \E out \in Seq(ToULine) :
                toU' = toU \o out /\ \A m \in LinesOn(out) : m[1] = "HERE" => Head(toP)[1] = "AYT?"
        \/ toP' = toP /\ toU' = toU \o <<Sent("BEACON_P", pBit)>>
        \/ toP' = toP /\ toU' = toU \o <<Sent("GET", 0)>>
    BY PicoShape
  <2>6. ~Has(toP', "AYT?")
    <3>1. toP # <<>> => ~Has(Tail(toP), "AYT?")
      BY <1>1, <2>4, HadBefore
    <3>2. QED
      BY <2>4, <2>5, <3>1
  <2>7. ~Has(toU', "HERE")
    <3>1. CASE toP # <<>> /\ \E out \in Seq(ToULine) :
                toU' = toU \o out /\ \A m \in LinesOn(out) : m[1] = "HERE" => Head(toP)[1] = "AYT?"
      <4>1. PICK out \in Seq(ToULine) :
              toU' = toU \o out /\ \A m \in LinesOn(out) : m[1] = "HERE" => Head(toP)[1] = "AYT?"
        BY <3>1
      <4>2. Head(toP)[1] # "AYT?"
        BY <1>1, <2>4, <3>1, HadBefore
      <4>3. ~Has(out, "HERE")
        BY <4>1, <4>2, HasOn
      <4>4. QED
        BY <1>1, <2>4, <4>1, <4>3, HadBefore
    <3>2. ASSUME NEW q \in {Sent("BEACON_P", pBit), Sent("GET", 0)}, toU' = toU \o <<q>>
          PROVE  ~Has(toU', "HERE")
      <4>1. /\ <<q>> \in Seq(ToULine) /\ q[1] # "HERE"
        <5>1. Sent("BEACON_P", pBit) \in ToULine /\ Sent("GET", 0) \in ToULine
          BY SentTypes, KeptTypes DEF PicoKinds, Bits
        <5>2. Sent("BEACON_P", pBit)[1] # "HERE" /\ Sent("GET", 0)[1] # "HERE"
          BY DEF Sent
        <5>3. QED
          BY <5>1, <5>2, OnlyLine
      <4>2. ~Has(<<q>>, "HERE")
        BY <1>1, <4>1, HadBefore
      <4>3. QED
        BY <1>1, <2>4, <3>2, <4>1, <4>2, HadBefore
    <3>3. QED
      BY <2>5, <3>1, <3>2
  <2>8. QED
    BY <1>1, <2>2, <2>3, <2>6, <2>7 DEF Asked
<1>3. Calls => Calls'
  BY CallsByPico
<1>4. QED
  BY <1>1, <1>2, <1>3, PaidOn

(* A second passes. *)
LEMMA CallsLater ==
  ASSUME TypeOK, TypeOK', Diagnosing, Tick, Calls
  PROVE  Calls'
<1>1. /\ MayWait(toU) /\ MayWait(toP) /\ toU' = Older(toU) /\ toP' = Older(toP)
      /\ UNCHANGED <<pPhase, pending>> /\ ~PicoBeaconDue
      /\ toU \in Seq(ToULine) /\ toP \in Seq(ToULine)
      /\ Silence \in Nat /\ Grace \in Nat /\ Latency \in Nat /\ Grace + Latency \in Nat /\ Grace' = Grace
      /\ PicoBeacon \in Nat /\ PicoBeacon <= Grace /\ pAges.beacon \in Nat
  BY TickShape, CallTypes, KeptTypes
<1>2. Silence' \in Nat /\ Silence' <= Silence + 1
  <2>1. \A a, b \in Nat : Least(a + 1, b) <= a + 1
    BY DEF Least
  <2>2. ages.rx \in Nat /\ ages.ping \in Nat /\ LongestWait \in Nat /\ Interval \in Nat
    BY KeptTypes, TypeParts, Bounds DEF WorldOK
  <2>3. ages'.rx <= ages.rx + 1 /\ ages'.ping <= ages.ping + 1 /\ probe'.sent = probe.sent
    BY <2>1, <2>2, TickShape
  <2>4. QED
    BY <2>3, SilenceSteps
<1>3. PICK n \in Nat, m \in Nat : n = Silence /\ m = Silence' /\ m <= n + 1
  BY <1>1, <1>2
<1>13. PICK g \in Nat, x \in Nat, p \in Nat : g = Grace /\ x = pAges.beacon /\ p = PicoBeacon /\ p <= g
  BY <1>1
<1>14. PICK w : w = pending
  OBVIOUS
<1>4. PICK l \in Nat : l = Grace + Latency
  BY <1>1
<1>5. pAges'.beacon = Least(x + 1, p) /\ Capped = Least(n, p) /\ Capped' = Least(m, p)
  BY <1>3, <1>13, TickShape DEF Capped
<1>6. /\ RequestOnWay <=> Carries(toU, "GET", 0, n, l)
      /\ RequestOnWay' <=> Carries(toU', "GET", 0, m, l)
      /\ BeaconOnWay <=> Carries(toU, "BEACON_P", w, n, g)
      /\ BeaconOnWay' <=> Carries(toU', "BEACON_P", w, m, g)
      /\ ReceiptOnWay <=> w # None /\ Carries(toP, "MARK_U", w, n, 0) /\ Least(n, p) <= x
      /\ ReceiptOnWay' <=> w # None /\ Carries(toP', "MARK_U", w, m, 0) /\ Least(m, p) <= Least(x + 1, p)
      /\ NextBeacon <=> w = None /\ n <= g /\ Least(n, p) <= x
      /\ NextBeacon' <=> w = None /\ m <= g /\ Least(m, p) <= Least(x + 1, p)
  BY <1>1, <1>3, <1>13, <1>14, <1>4, <1>5 DEF RequestOnWay, BeaconOnWay, ReceiptOnWay, NextBeacon
<1>7. Least(n, p) <= x => Least(m, p) <= Least(x + 1, p)
  BY <1>3, <1>13 DEF Least
<1>8. RequestOnWay => RequestOnWay'
  BY <1>1, <1>3, <1>13, <1>6, CarriedOlder
<1>9. BeaconOnWay => BeaconOnWay'
  BY <1>1, <1>3, <1>13, <1>6, CarriedOlder
<1>10. ReceiptOnWay => ReceiptOnWay'
  <2>1. Carries(toP, "MARK_U", w, n, 0) => Carries(toP', "MARK_U", w, m, 0)
    BY <1>1, <1>3, <1>13, CarriedOlder
  <2>2. QED
    BY <1>6, <1>7, <2>1
<1>11. pPhase = "prompt" /\ NextBeacon => NextBeacon'
  <2>1. SUFFICES ASSUME pPhase = "prompt", w = None, n <= g, Least(n, p) <= x PROVE m <= g
    BY <1>6, <1>7
  <2>2. x < p
    BY <1>1, <1>3, <1>13, <1>14, <2>1 DEF PicoBeaconDue
  <2>3. n < p
    BY <1>3, <1>13, <2>1, <2>2 DEF Least
  <2>4. QED
    BY <1>3, <1>13, <2>3
<1>12. QED
  BY <1>1, <1>8, <1>9, <1>10, <1>11 DEF Calls

LEMMA PaidLater ==
  ASSUME TypeOK, TypeOK', Diagnosing, Tick, ProbesPaid
  PROVE  ProbesPaid'
<1>1. /\ UNCHANGED <<probe, losses>> /\ sPhase = "idle" /\ PicoRuns
      /\ toU' = Older(toU) /\ toP' = Older(toP) /\ toU \in Seq(ToULine) /\ toP \in Seq(ToULine)
  BY TickShape, SinceType DEF Diagnosing
<1>2. Asked => Asked'
  <2>1. SUFFICES ASSUME Asked PROVE Asked'
    OBVIOUS
  <2>2. PICK n \in Nat, m \in Nat, o \in Bits \union {None} : n = ages.ping /\ m = ages'.ping /\ o = probe.outstanding /\ m <= n + 1
    BY <1>1, SinceType, PingGrows
  <2>3. UnderAt("PING", "PONG", o, m)'
    <3>1. UnderAt("PING", "PONG", o, n)
      BY <2>1, <2>2 DEF Asked
    <3>2. QED
      BY <1>1, <2>2, <3>1, TickKeepsUnderAt
  <2>4. ~Has(toP', "AYT?") /\ ~Has(toU', "HERE")
    BY <1>1, <2>1, HadBefore DEF Asked
  <2>5. QED
    BY <1>1, <2>2, <2>3, <2>4 DEF Asked
<1>3. QED
  BY <1>1, <1>2, CallsLater, PaidOn

(* One line is lost, of one kind. *)
LEMMA OneLineLost ==
  ASSUME TypeOK, LoseLine
  PROVE  \E lost : \A kind, bit, since, slack : kind # lost =>
           /\ Carries(toU, kind, bit, since, slack) => Carries(toU', kind, bit, since, slack)
           /\ Carries(toP, kind, bit, since, slack) => Carries(toP', kind, bit, since, slack)
<1>1. toU \in Seq(ToULine) /\ toP \in Seq(ToULine)
  BY SinceType
<1>2. CASE toU # <<>> /\ toU' = Tail(toU) /\ toP' = toP
  <2>1. \A kind, bit, since, slack : kind # Head(toU)[1] =>
           /\ Carries(toU, kind, bit, since, slack) => Carries(toU', kind, bit, since, slack)
           /\ Carries(toP, kind, bit, since, slack) => Carries(toP', kind, bit, since, slack)
    BY <1>1, <1>2, CarriedAhead
  <2>2. QED
    BY <2>1
<1>3. CASE toP # <<>> /\ toP' = Tail(toP) /\ toU' = toU
  <2>1. \A kind, bit, since, slack : kind # Head(toP)[1] =>
           /\ Carries(toU, kind, bit, since, slack) => Carries(toU', kind, bit, since, slack)
           /\ Carries(toP, kind, bit, since, slack) => Carries(toP', kind, bit, since, slack)
    BY <1>1, <1>3, CarriedAhead
  <2>2. QED
    BY <2>1
<1>4. QED
  BY <1>2, <1>3, LossShape

LEMMA PaidByLoss ==
  ASSUME TypeOK, LoseLine, ProbesPaid
  PROVE  ProbesPaid'
<1>1. /\ losses' = losses + 1 /\ losses \in Nat /\ probe.sent \in Nat
      /\ UNCHANGED <<probe, ages, pPhase, pAges, pending>>
      /\ toU \in Seq(ToULine) /\ toP \in Seq(ToULine)
      /\ \/ toU # <<>> /\ toU' = Tail(toU) /\ toP' = toP
         \/ toP # <<>> /\ toP' = Tail(toP) /\ toU' = toU
  BY LossShape, KeptTypes, SinceType DEF serverVars, picoVars
<1>2. Calls /\ Asked => Calls' \/ Asked'
  <2>1. PICK lost : \A kind, bit, since, slack : kind # lost =>
           /\ Carries(toU, kind, bit, since, slack) => Carries(toU', kind, bit, since, slack)
           /\ Carries(toP, kind, bit, since, slack) => Carries(toP', kind, bit, since, slack)
    BY OneLineLost
  <2>2. CASE lost \in {"PING", "PONG"}
    <3>1. Silence' = Silence /\ Grace' = Grace /\ Capped' = Capped
      BY <1>1 DEF Silence, Grace, Capped
    <3>2. /\ RequestOnWay => RequestOnWay'
          /\ BeaconOnWay => BeaconOnWay'
          /\ ReceiptOnWay => ReceiptOnWay'
          /\ NextBeacon => NextBeacon'
      BY <1>1, <2>1, <2>2, <3>1 DEF RequestOnWay, BeaconOnWay, ReceiptOnWay, NextBeacon
    <3>3. QED
      BY <1>1, <3>2 DEF Calls
  <2>3. CASE lost \notin {"PING", "PONG"}
    <3>1. SUFFICES ASSUME Asked PROVE Asked'
      OBVIOUS
    <3>2. UnderAt("PING", "PONG", probe.outstanding, ages.ping)'
      BY <1>1, <2>1, <2>3, <3>1 DEF Asked, UnderAt
    <3>3. ~Has(toP', "AYT?") /\ ~Has(toU', "HERE")
      <4>1. ~Has(toP, "AYT?") /\ ~Has(toU, "HERE")
        BY <3>1 DEF Asked
      <4>2. /\ toP # <<>> => ~Has(Tail(toP), "AYT?")
            /\ toU # <<>> => ~Has(Tail(toU), "HERE")
        BY <1>1, <4>1, HadBefore
      <4>3. QED
        BY <1>1, <4>1, <4>2
    <3>4. QED
      BY <3>2, <3>3 DEF Asked
  <2>4. QED
    BY <2>2, <2>3
<1>3. CASE Paid(1) \/ losses >= probe.sent
  <2>1. losses' >= probe'.sent + 1
    BY <1>1, <1>3 DEF Paid
  <2>2. QED
    BY <2>1 DEF ProbesPaid, Paid
<1>4. CASE ~Paid(1) /\ ~(losses >= probe.sent)
  <2>1. Calls /\ probe.sent >= 1 /\ losses + 1 >= probe.sent /\ Asked
    BY <1>1, <1>4 DEF ProbesPaid, Paid
  <2>2. losses' >= probe'.sent + 0 /\ probe'.sent >= 1 /\ losses' + 1 >= probe'.sent + 1
    BY <1>1, <2>1
  <2>3. QED
    BY <1>2, <2>1, <2>2 DEF ProbesPaid, Paid
<1>5. QED
  BY <1>3, <1>4

LEMMA PaidKept ==
  ASSUME TypeOK, QuickAnswers, [Next]_vars, Diagnosing', Aged, OneToken, ProbesPaid
  PROVE  ProbesPaid'
<1>1. /\ Diagnosing /\ TypeOK'
      /\ UNCHANGED vars \/ (\E bit \in Bits : Hears(bit)) \/ Passes \/ PicoActs \/ Tick \/ LoseLine
  BY DiagnosingSteps, TypeKept
<1>2. CASE UNCHANGED vars
  BY <1>2 DEF vars, serverVars, picoVars, lineVars, ProbesPaid, Paid, Calls, Asked, RequestOnWay, BeaconOnWay,
              ReceiptOnWay, NextBeacon, Silence, Grace, Capped, UnderAt
<1>3. QED
  BY <1>1, <1>2, PaidReading, PaidPassing, PaidByPico, PaidLater, PaidByLoss

-----------------------------------------------------------------------------
(* What a declaration costs. *)

LEMMA CallsEnd == ASSUME TypeOK, Calls PROVE Silence <= Grace + 2 * Latency
<1>1. PICK n \in Nat, g \in Nat, l \in Nat :
        n = Silence /\ g = Grace /\ l = Latency /\ Grace + Latency = g + l /\ Grace + 2 * Latency = g + l + l
  <2>1. Silence \in Nat /\ Grace \in Nat /\ Latency \in Nat
    BY KeptTypes
  <2>2. QED
    BY <2>1
<1>2. toU \in Seq(ToULine) /\ toP \in Seq(ToULine) /\ g + l \in Nat /\ 0 \in Nat
  BY SinceType
<1>3. RequestOnWay => n <= l + (g + l)
  BY <1>1, <1>2, CarriedInTime DEF RequestOnWay
<1>4. BeaconOnWay => n <= l + g
  BY <1>1, <1>2, CarriedInTime DEF BeaconOnWay
<1>5. ReceiptOnWay => n <= l + 0
  BY <1>1, <1>2, CarriedInTime DEF ReceiptOnWay
<1>6. NextBeacon => n <= g
  BY <1>1 DEF NextBeacon
<1>7. n <= g + l + l
  BY <1>3, <1>4, <1>5, <1>6 DEF Calls
<1>8. QED
  BY <1>1, <1>7

(* No receipt for a beacon and no answer to Retries + 1 probes. *)
LEMMA TxLostCosts ==
  ASSUME TypeOK, QuickAnswers, Accounted, LongDiagnosis, TxLost
  PROVE  losses > Tolerated
<1>1. /\ probe.marker \in Nat /\ losses \in Nat /\ Retries \in Nat \ {0} /\ Interval \in Nat /\ every \in Nat
      /\ probe.marker >= Retries + 1 /\ ages.ping >= Interval
  BY SinceType, Constants, KeptTypes DEF TxLost, Unmarked, LastMarkerProbe, ProbeDue
<1>2. ~PingUnder
  BY <1>1, NothingUnder DEF ProbeDue
<1>3. ~Under("AYT?", "HERE", probe.outstanding)
  <2>1. PICK n \in Nat, o \in Bits \union {None} : n = Since /\ o = probe.outstanding /\ n >= Interval
    <3>1. Since = ages.ping /\ Since \in Nat /\ probe.outstanding \in Bits \union {None}
      BY <1>1, SinceType DEF Since
    <3>2. QED
      BY <1>1, <3>1
  <2>2. ~UnderAt("AYT?", "HERE", o, n)
    BY <2>1, NoneUnderAt
  <2>3. QED
    BY <2>1, <2>2 DEF Under
<1>4. losses >= Retries + 2
  <2>1. CASE probe.marker = 2
    BY <1>1, <1>2, <2>1 DEF Accounted
  <2>2. CASE probe.marker >= 3
    BY <1>1, <1>3, <2>2 DEF LongDiagnosis
  <2>3. QED
    BY <1>1, <2>1, <2>2
<1>5. QED
  BY <1>1, <1>4 DEF Tolerated

(* No answer to Retries probes of a silent program, which has not called. *)
LEMMA RxLostCosts ==
  ASSUME TypeOK, QuickAnswers, PatientProgram, every <= Interval => probe.sent = 0, ProbesPaid, RxLost
  PROVE  losses > Tolerated
<1>1. PICK r \in Nat \ {0}, i \in Nat, g \in Nat, l \in Nat, p \in Nat, b \in Nat :
        /\ r = Retries /\ i = Interval /\ g = Grace /\ l = Latency /\ p = ages.ping /\ b = PicoBeacon
        /\ l + l < i /\ p >= i /\ g = IF b < l THEN l ELSE b
  <2>1. Interval \in Nat /\ Grace \in Nat /\ Latency \in Nat /\ ages.ping \in Nat /\ PicoBeacon \in Nat
    BY KeptTypes
  <2>2. 2 * Latency = Latency + Latency
    BY <2>1
  <2>3. Latency + Latency < Interval /\ ages.ping >= Interval
    BY <2>2 DEF QuickAnswers, RxLost, ProbeDue
  <2>4. Grace = IF PicoBeacon < Latency THEN Latency ELSE PicoBeacon
    BY DEF Grace
  <2>5. QED
    BY <2>1, <2>3, <2>4, Constants
<1>2. losses \in Nat /\ probe.sent = r /\ every \in Nat /\ every > i
  BY <1>1, KeptTypes DEF RxLost
<1>3. Silence = r * i + p
  BY <1>1, <1>2 DEF Silence
<1>4. PICK k \in Nat : k = r * i /\ b <= k /\ i <= k
  <2>1. r * i \in Nat /\ 1 * i <= r * i /\ 1 * i = i
    BY <1>1, Products
  <2>2. b <= r * i
    BY <1>1 DEF PatientProgram
  <2>3. QED
    BY <2>1, <2>2
<1>5. ~Calls
  <2>1. Grace + 2 * Latency = g + l + l
    BY <1>1
  <2>2. g + l + l < k + p
    BY <1>1, <1>4
  <2>3. Silence = k + p
    BY <1>3, <1>4
  <2>4. ~(Silence <= Grace + 2 * Latency)
    BY <1>1, <1>4, <2>1, <2>2, <2>3
  <2>5. QED
    BY <2>4, CallsEnd
<1>6. ~Asked
  <2>1. PICK o \in Bits \union {None} : o = probe.outstanding
    BY SinceType
  <2>2. ~UnderAt("PING", "PONG", o, p)
    BY <1>1, NoneUnderAt
  <2>3. QED
    BY <1>1, <2>1, <2>2 DEF Asked
<1>7. losses >= r + 1
  BY <1>2, <1>5, <1>6 DEF ProbesPaid, Paid
<1>8. Tolerated = r
  BY <1>1, <1>2 DEF Tolerated
<1>9. QED
  BY <1>1, <1>2, <1>7, <1>8

(* Nothing heard by the program for as long as it waits. *)
LEMMA RestartCosts ==
  ASSUME TypeOK, PatientProgram, HeardInTime, PicoLost
  PROVE  losses > Tolerated
<1>1. PICK r \in Nat, i \in Nat, l \in Nat, n \in Nat, a \in Nat, t \in Nat, p \in Nat :
        /\ r = Retries /\ i = Interval /\ l = Latency /\ n = losses /\ a = pAges.rx /\ t = PicoTimeout
        /\ p = Patience
  <2>1. /\ Retries \in Nat /\ Interval \in Nat /\ Latency \in Nat /\ losses \in Nat /\ pAges.rx \in Nat
        /\ PicoTimeout \in Nat /\ Patience \in Nat
    BY KeptTypes, Constants
  <2>2. QED
    BY <2>1
<1>2. a >= t /\ l + l + (r + 2) * i < t
  <2>1. 2 * l = l + l
    BY <1>1
  <2>2. 2 * l + (r + 2) * i < t
    BY <1>1 DEF PatientProgram
  <2>3. QED
    BY <1>1, <2>1, <2>2 DEF PicoLost
<1>3. a <= (l + (n + 1) * i) + l
  <2>1. PICK d \in Nat : d = Deaf(losses) /\ d = l + (n + 1) * i
    BY <1>1, KeptTypes DEF Deaf
  <2>2. CASE a + p <= d
    BY <2>1, <2>2
  <2>3. CASE toP # <<>> /\ a <= d + Head(toP)[3]
    <3>1. Head(toP)[3] \in 0 .. l
      BY <1>1, <2>3, SinceType, EndsLeft
    <3>2. QED
      BY <1>1, <2>1, <2>3, <3>1
  <2>4. QED
    BY <1>1, <2>1, <2>2, <2>3 DEF HeardInTime
<1>4. n + 1 > r + 2
  <2>1. SUFFICES ASSUME n + 1 <= r + 2 PROVE FALSE
    OBVIOUS
  <2>2. PICK k \in Nat, m \in Nat : k = (n + 1) * i /\ m = (r + 2) * i /\ k <= m
    <3>1. n + 1 \in Nat /\ r + 2 \in Nat
      OBVIOUS
    <3>2. (n + 1) * i \in Nat /\ (r + 2) * i \in Nat /\ (n + 1) * i <= (r + 2) * i
      BY <2>1, <3>1, Products
    <3>3. QED
      BY <3>2
  <2>3. a >= t /\ l + l + m < t /\ a <= (l + k) + l
    BY <1>2, <1>3, <2>2
  <2>4. QED
    BY <2>2, <2>3
<1>5. QED
  BY <1>1, <1>4 DEF Tolerated

LEMMA LiveKept ==
  ASSUME TypeOK, QuickAnswers, PatientProgram, ProbeInv, KeptInv, [Next]_vars
  PROVE  LiveLinkKept'
<1>1. SUFFICES ASSUME sPhase' = "lost" \/ (pPhase' = "restarted" /\ sPhase' = "idle"), cut' = {}
               PROVE  losses' > Tolerated'
  BY DEF LiveLinkKept
<1>2. losses' >= losses /\ losses \in Nat /\ cut = {} /\ (PicoRuns' => PicoRuns)
  BY <1>1, OnlyGrows, SinceType
<1>3. Tolerated' = Tolerated /\ Tolerated \in Nat
  <2>1. UNCHANGED every
    BY DEF Next, ServerStep, RecvBeacon, RecvMark, RecvPing, RecvPong, RecvHere, RecvOwn, RecvRequest,
           RecvReply, IdlePass, Idle, PicoStep, PicoRecv, PicoRecvMeta, SendPicoBeacon, PicoRestart, Enter,
           PicoAnswers, Tick, LoseLine, Cut, lineVars, vars
  <2>2. QED
    BY <2>1, Constants DEF Tolerated
<1>4. SUFFICES losses > Tolerated
  <2>1. losses' \in Nat
    BY <1>2, OnlyGrows
  <2>2. QED
    BY <1>2, <1>3, <2>1
<1>5. CASE sPhase = "lost" \/ (pPhase = "restarted" /\ sPhase = "idle")
  BY <1>2, <1>5 DEF KeptInv, LiveLinkKept
<1>6. CASE ~(sPhase = "lost" \/ (pPhase = "restarted" /\ sPhase = "idle"))
  <2>1. (IdlePass /\ GiveUp) \/ PicoRestart
    BY <1>1, <1>6 DEF Next, ServerStep, RecvBeacon, RecvMark, RecvPing, RecvPong, RecvHere, RecvOwn,
           RecvRequest, RecvReply, IdlePass, Diagnose, Ask, BeaconOnly, Idle, Leaves, PicoStep, PicoRecv,
           PicoRecvMeta, SendPicoBeacon, Enter, PicoAnswers, Tick, LoseLine, Cut, serverVars, picoVars, vars
  <2>2. CASE IdlePass /\ GiveUp
    <3>1. sPhase = "idle"
      BY <2>2 DEF IdlePass
    <3>2. Diagnosing
      BY <1>2, <1>6, <3>1, TypeParts DEF PicoOK, PicoRuns, Diagnosing
    <3>3. Accounted /\ LongDiagnosis /\ ProbesPaid /\ (every <= Interval => probe.sent = 0)
      BY <3>1, <3>2 DEF ProbeInv, KeptInv
    <3>4. QED
      BY <2>2, <3>3, TxLostCosts, RxLostCosts DEF GiveUp
  <2>3. CASE PicoRestart
    <3>1. PicoLost /\ PicoRuns /\ sPhase' = sPhase /\ pPhase' = "restarted"
      BY <2>3 DEF PicoRestart, PicoLost, serverVars
    <3>2. Diagnosing
      BY <1>1, <1>2, <1>6, <3>1 DEF Diagnosing
    <3>3. HeardInTime
      BY <3>2 DEF KeptInv
    <3>4. QED
      BY <3>1, <3>3, RestartCosts
  <2>4. QED
    BY <2>1, <2>2, <2>3
<1>7. QED
  BY <1>5, <1>6

(* A link whose directions both work is declared lost by the idle loop of   *)
(* recv_line, or by InputAlive$, only after more lines were lost than the   *)
(* retries allow for, for every interval, beacon and number of retries, as  *)
(* long as answers are quick and the program is patient.                    *)
THEOREM LiveLinksAreKept == QuickAnswers /\ PatientProgram => (Spec => []LiveLinkKept)
<1>1. SUFFICES ASSUME QuickAnswers, PatientProgram PROVE Spec => []LiveLinkKept
  OBVIOUS
<1>2. Init => KeptInv
  <2>1. SUFFICES ASSUME Init PROVE KeptInv
    OBVIOUS
  <2>2. TypeOK
    BY <2>1, InitType
  <2>3. /\ toU = <<>> /\ toP = <<>> /\ LinesOn(<<>>) = {} /\ \A kind : ~Has(<<>>, kind)
        /\ probe.sent = 0 /\ probe.marker = 0 /\ ages.rx = 0 /\ ages.ping = 0
        /\ pAges.rx = 0 /\ pAges.beacon = 0 /\ pending = None /\ losses = 0
        /\ sPhase = "idle" /\ pPhase = "prompt"
    BY <2>1, LinesOnParts DEF Init, NoProbe, NoAges, Has
  <2>4. HeardInTime
    <3>1. Patience \in 0 .. Interval /\ Deaf(losses) \in Nat /\ Deaf(losses) >= Latency + Interval
          /\ Latency \in Nat /\ Interval \in Nat
      BY <2>2, KeptTypes
    <3>2. pAges.rx + Patience <= Deaf(losses)
      BY <2>3, <3>1
    <3>3. QED
      BY <3>2 DEF HeardInTime
  <2>5. AnswersFresh /\ LongDiagnosis /\ Aged
    BY <2>3 DEF AnswersFresh, LongDiagnosis, Aged
  <2>6. OneToken
    BY <2>3 DEF OneToken, Once, Has
  <2>7. ProbesPaid
    <3>1. Silence = 0 /\ Capped = 0 /\ Grace \in Nat
      <4>1. Interval \in Nat /\ PicoBeacon \in Nat /\ Grace \in Nat
        BY <2>2, KeptTypes
      <4>2. Least(0, Interval) = 0 /\ Least(0, PicoBeacon) = 0
        BY <4>1 DEF Least
      <4>3. QED
        BY <2>3, <4>1, <4>2 DEF Silence, Capped
    <3>2. NextBeacon /\ Paid(0)
      BY <2>3, <3>1 DEF NextBeacon, Paid
    <3>3. QED
      BY <2>3, <3>2 DEF ProbesPaid, Calls
  <2>8. LiveLinkKept
    BY <2>3 DEF LiveLinkKept
  <2>9. QED
    BY <2>3, <2>4, <2>5, <2>6, <2>7, <2>8 DEF KeptInv
<1>3. TypeOK /\ ProbeInv /\ DeadInv /\ KeptInv /\ [Next]_vars => KeptInv'
  <2>1. SUFFICES ASSUME TypeOK, ProbeInv, DeadInv, KeptInv, [Next]_vars PROVE KeptInv'
    OBVIOUS
  <2>2. sPhase' = "idle" /\ every' <= Interval => probe'.sent = 0
    BY <2>1, RarelyKept DEF DeadInv, KeptInv
  <2>3. LiveLinkKept'
    BY <1>1, <2>1, LiveKept
  <2>4. ASSUME Diagnosing'
        PROVE  HeardInTime' /\ AnswersFresh' /\ LongDiagnosis' /\ Aged' /\ OneToken' /\ ProbesPaid'
    <3>1. HeardInTime /\ AnswersFresh /\ LongDiagnosis /\ Aged /\ OneToken /\ ProbesPaid /\ Accounted
      BY <2>1, <2>4, DiagnosingSteps DEF KeptInv, ProbeInv
    <3>2. QED
      BY <1>1, <2>1, <2>4, <3>1, HeardKept, FreshKept, LongKept, AgedKept, TokenKept, PaidKept
  <2>5. QED
    BY <2>2, <2>3, <2>4 DEF KeptInv
<1>4. KeptInv => LiveLinkKept
  BY DEF KeptInv
<1>5. Spec => []ProbeInv /\ []DeadInv
  BY <1>1, ProbesAccounted, DeadCounted
<1>6. QED
  BY <1>2, <1>3, <1>4, <1>5, IdleTypes, PTL DEF Spec

====
