---------------------------- MODULE DaemonProofs ----------------------------
(***************************************************************************)
(* For every set of transports and every threshold, whatever the cable,    *)
(* the peer and the user do: a session runs on the one open port, Ctrl-C   *)
(* puts no line into a cut payload, and the cable alone stops nothing.     *)
(***************************************************************************)
EXTENDS Daemon, TLAPS

\* Who owns the port in each phase of the recovery, and not only while a
\* session runs: it is closed before the wait, and opened before the splice.
PortOwned ==
    /\ phase \in Sessions \union {"draining"} => linkT = transport /\ open = {transport}
    /\ phase \in {"waiting", "opening"} => linkT = transport /\ open = {}
    /\ phase = "spliced" => open = {linkT}

\* The flags are true in the phases they announce, and Ctrl-C leaves them so.
\* The converse is false: a port error leaves them true as well.
FlagsRaised ==
    /\ phase \in Transferring => transferActive
    /\ phase = "raw" => rawActive
    /\ phase = "closing" /\ struck \in Transferring => transferActive
    /\ phase = "closing" /\ struck = "raw" => rawActive

\* Nothing is said before Ctrl-C, and only Ctrl-C leads to the last phases.
QuietUntilStruck ==
    /\ phase \in Sessions \union Recovering =>
         struck = "never" /\ said = "nothing" /\ exit = "running"
    /\ phase \in {"closing", "lingering"} => struck # "never" /\ exit = "running"
    /\ phase = "closing" => said = "nothing"
    /\ phase = "lingering" => struck \notin Transferring

IInv ==
    /\ TypeOK /\ PortOwned /\ FlagsRaised /\ QuietUntilStruck
    /\ NoLineIntoAFrame /\ CableNeverStops

USE DEF Transferring, Sessions, Recovering, Phases, Exits, Serving, Works, ports, refs, ended

\* The streak of losses starts, restarts and grows inside its range.
LEMMA StreakRange ==
    /\ 0 \in 0..LINK_LOST_THRESHOLD
    /\ lost_streak \in 0..LINK_LOST_THRESHOLD /\ CountLoss =>
         lost_streak' \in 0..LINK_LOST_THRESHOLD
<1>1. LINK_LOST_THRESHOLD \in Nat  BY DaemonAssumption
<1> QED  BY <1>1 DEF CountLoss

LEMMA InitHolds == Init => IInv
<1> SUFFICES ASSUME Init PROVE IInv  OBVIOUS
<1>1. FlagsOK  BY DEF Init, FlagsOK
<1>2. TypeOK  BY <1>1, StreakRange DEF Init, TypeOK
<1> QED
  BY <1>2 DEF Init, IInv, PortOwned, FlagsRaised, QuietUntilStruck, NoLineIntoAFrame,
     CableNeverStops

\* Every step leaves the two flags Boolean.
LEMMA FlagTypesKept == ASSUME TypeOK, [Next]_vars PROVE FlagsOK'
<1> USE DEF TypeOK, FlagsOK, flags
<1>1. CASE Session
  BY <1>1 DEF Session, Greeted, Request, Fetched, FetchRefused, RawStart, RawEnd, Delivered,
     Returned, GoOn
<1>2. CASE LinkLost \/ TransferFailed
  BY <1>2 DEF LinkLost, TransferFailed, FlagsAfterError
<1>3. CASE PortDead \/ FetchReset \/ WriteStalls
  BY <1>3 DEF PortDead, FetchReset, WriteStalls, TakenForDead
<1>4. CASE FetchBroken
  BY <1>4 DEF FetchBroken
<1>5. CASE Recovery
  BY <1>5 DEF Recovery, Recover, Drained, PortSeen, OpenPort, NotReady, Spliced
<1>6. CASE Unplug \/ Plug
  BY <1>6 DEF Unplug, Plug
<1>7. CASE Interrupt
  BY <1>7 DEF Interrupt, FlagsAfterInterrupt
<1>8. CASE Exit
  BY <1>8 DEF Exit, Shutdown, Lingered, Leave
<1>9. CASE UNCHANGED vars
  BY <1>9 DEF vars
<1> QED  BY <1>1, <1>2, <1>3, <1>4, <1>5, <1>6, <1>7, <1>8, <1>9 DEF Next, Failure

\* Every step keeps every variable in its range.
LEMMA TypesKept == ASSUME TypeOK, [Next]_vars PROVE TypeOK'
<1> USE StreakRange DEF TypeOK
<1>0. FlagsOK'  BY FlagTypesKept
<1>1. CASE Session
  <2>1. Returned \/ \E from \in Phases, to \in Phases : GoOn(from, to)
    BY <1>1 DEF Session, Greeted, Request, Fetched, FetchRefused, RawStart, RawEnd, Delivered
  <2>2. CASE Returned
    BY <1>0, <2>2 DEF Returned
  <2>3. ASSUME NEW from \in Phases, NEW to \in Phases, GoOn(from, to) PROVE TypeOK'
    <3> HIDE DEF Phases, Sessions, Recovering, Exits
    <3> QED  BY <1>0, <2>3 DEF GoOn
  <2> QED  BY <2>1, <2>2, <2>3
<1>2. CASE LinkLost
  BY <1>0, <1>2 DEF LinkLost, Reconnect, Closed
<1>3. CASE TransferFailed
  BY <1>0, <1>3 DEF TransferFailed
<1>4. CASE PortDead \/ FetchReset \/ WriteStalls
  <2>1. phase' = "waiting" /\ open' = Closed /\ lost_streak' = 0 /\ UNCHANGED <<port, live, refs, ended>>
    BY <1>4 DEF PortDead, FetchReset, WriteStalls, TakenForDead, Reconnect
  <2>2. "waiting" \in Phases  OBVIOUS
  <2> HIDE DEF Phases, Sessions, Recovering, Exits
  <2> QED  BY <1>0, <2>1, <2>2 DEF Closed
<1>5. CASE FetchBroken
  BY <1>0, <1>5 DEF FetchBroken, Closed
<1>6. CASE Recovery
  <2>1. CASE Drained
    BY <1>0, <2>1 DEF Drained, Recover, Assigned
  <2>2. CASE PortSeen
    BY <1>0, <2>2 DEF PortSeen, Recover, Assigned
  <2>3. CASE OpenPort
    BY <1>0, <2>3 DEF OpenPort, Recover, Assigned
  <2>4. CASE NotReady
    BY <1>0, <2>4 DEF NotReady, Recover, Assigned
  <2>5. CASE Spliced
    BY <1>0, <2>5 DEF Spliced, Recover, Assigned
  <2> QED  BY <1>6, <2>1, <2>2, <2>3, <2>4, <2>5 DEF Recovery
<1>7. CASE Unplug \/ Plug
  BY <1>0, <1>7 DEF Unplug, Plug
<1>8. CASE Interrupt
  BY <1>0, <1>8 DEF Interrupt
<1>9. CASE Exit
  <2>1. phase' \in Phases /\ exit' \in Exits
    BY <1>9 DEF Exit, Shutdown, Lingered, Leave
  <2> HIDE DEF Phases, Sessions, Recovering, Exits
  <2> QED  BY <1>0, <1>9, <2>1 DEF Exit, Shutdown, Lingered, Leave, Closed, Goodbye
<1>10. CASE UNCHANGED vars
  <2> HIDE DEF Phases, Sessions, Recovering, Exits
  <2> QED  BY <1>0, <1>10 DEF vars
<1> QED  BY <1>1, <1>2, <1>3, <1>4, <1>5, <1>6, <1>7, <1>8, <1>9, <1>10 DEF Next, Failure

\* Every step keeps the port owned as its phase says.
LEMMA OwnerKept == ASSUME TypeOK, PortOwned, [Next]_vars PROVE PortOwned'
<1> USE DEF TypeOK, PortOwned
<1>1. CASE Session
  BY <1>1 DEF Session, Greeted, Request, Fetched, FetchRefused, RawStart, RawEnd, Delivered,
     Returned, GoOn
<1>2. CASE LinkLost
  BY <1>2 DEF LinkLost, Reconnect, Closed
<1>3. CASE TransferFailed
  BY <1>3 DEF TransferFailed
<1>4. CASE PortDead \/ FetchReset \/ WriteStalls
  BY <1>4 DEF PortDead, FetchReset, WriteStalls, TakenForDead, Reconnect, Closed
<1>5. CASE FetchBroken
  BY <1>5 DEF FetchBroken
<1>6. CASE Recovery
  BY <1>6 DEF Recovery, Recover, Drained, PortSeen, OpenPort, NotReady, Spliced, Assigned
<1>7. CASE Unplug \/ Plug
  BY <1>7 DEF Unplug, Plug
<1>8. CASE Interrupt
  BY <1>8 DEF Interrupt
<1>9. CASE Exit
  BY <1>9 DEF Exit, Shutdown, Lingered, Leave
<1>10. CASE UNCHANGED vars
  BY <1>10 DEF vars
<1> QED  BY <1>1, <1>2, <1>3, <1>4, <1>5, <1>6, <1>7, <1>8, <1>9, <1>10 DEF Next, Failure

\* Every step keeps the flags up in the phases they announce.
LEMMA FlagsKept ==
  ASSUME TypeOK, FlagsRaised, QuietUntilStruck, [Next]_vars PROVE FlagsRaised'
<1> USE DEF TypeOK, FlagsRaised, flags
<1>1. CASE Session
  BY <1>1 DEF Session, Greeted, Request, Fetched, FetchRefused, RawStart, RawEnd, Delivered,
     Returned, GoOn
<1>2. CASE LinkLost
  BY <1>2 DEF LinkLost, Reconnect
<1>3. CASE TransferFailed
  BY <1>3 DEF TransferFailed
<1>4. CASE PortDead \/ FetchReset \/ WriteStalls
  BY <1>4 DEF PortDead, FetchReset, WriteStalls, TakenForDead, Reconnect
<1>5. CASE FetchBroken
  BY <1>5 DEF FetchBroken
<1>6. CASE Recovery
  BY <1>6 DEF Recovery, Recover, Drained, PortSeen, OpenPort, NotReady, Spliced
<1>7. CASE Unplug \/ Plug
  BY <1>7 DEF Unplug, Plug
<1>8. CASE Interrupt
  BY <1>8 DEF Interrupt, FlagsAfterInterrupt
<1>9. CASE Exit
  BY <1>9 DEF Exit, Shutdown, Lingered, Leave
<1>10. CASE UNCHANGED vars
  BY <1>10 DEF vars
<1> QED  BY <1>1, <1>2, <1>3, <1>4, <1>5, <1>6, <1>7, <1>8, <1>9, <1>10 DEF Next, Failure

\* Every step keeps what was said, and by whom, in order: Shutdown is the only
\* one to speak, and it decides by the flags that Ctrl-C left.
LEMMA SilenceKept ==
  ASSUME TypeOK, FlagsRaised, QuietUntilStruck, NoLineIntoAFrame, CableNeverStops,
         [Next]_vars
  PROVE  QuietUntilStruck' /\ NoLineIntoAFrame' /\ CableNeverStops'
<1> USE DEF TypeOK, QuietUntilStruck, NoLineIntoAFrame, CableNeverStops
<1>1. CASE Session
  BY <1>1 DEF Session, Greeted, Request, Fetched, FetchRefused, RawStart, RawEnd, Delivered,
     Returned, GoOn
<1>2. CASE LinkLost \/ TransferFailed
  BY <1>2 DEF LinkLost, TransferFailed, Reconnect
<1>4. CASE PortDead \/ FetchReset \/ WriteStalls
  BY <1>4 DEF PortDead, FetchReset, WriteStalls, TakenForDead, Reconnect
<1>5. CASE FetchBroken
  BY <1>5 DEF FetchBroken
<1>6. CASE Recovery
  BY <1>6 DEF Recovery, Recover, Drained, PortSeen, OpenPort, NotReady, Spliced
<1>7. CASE Unplug \/ Plug
  BY <1>7 DEF Unplug, Plug
<1>8. CASE Interrupt
  BY <1>8 DEF Interrupt
<1>9. CASE Shutdown
  <2>1. struck \in Transferring => Goodbye # "CLOSE"
    BY <1>9 DEF Shutdown, FlagsRaised, Goodbye
  <2>2. struck = "raw" => Goodbye = "nothing"
    BY <1>9 DEF Shutdown, FlagsRaised, Goodbye
  <2> QED  BY <1>9, <2>1, <2>2 DEF Shutdown, Leave
<1>10. CASE Lingered
  BY <1>10 DEF Lingered, Leave
<1>11. CASE UNCHANGED vars
  BY <1>11 DEF vars
<1> QED  BY <1>1, <1>2, <1>4, <1>5, <1>6, <1>7, <1>8, <1>9, <1>10, <1>11 DEF Next, Failure, Exit

\* The four lemmas together: the invariant is inductive.
LEMMA Invariance == Spec => []IInv
<1>1. IInv /\ [Next]_vars => IInv'
  BY TypesKept, OwnerKept, FlagsKept, SilenceKept DEF IInv
<1> QED  BY InitHolds, <1>1, PTL DEF Spec

\* Every variable of run_serial, of the server's flags and of the port stays
\* in its range, for any number of transports and any threshold.
THEOREM DaemonTypes == Spec => []TypeOK
<1>1. IInv => TypeOK  BY DEF IInv
<1> QED  BY Invariance, <1>1, PTL

\* reconnect never leaves a session on a transport that run_serial will not
\* close, and never leaks an open one.
THEOREM SessionsOwnThePort == Spec => []OnePort
<1>1. IInv => OnePort  BY DEF IInv, PortOwned, OnePort
<1> QED  BY Invariance, <1>1, PTL

\* shutdown writes nothing into a payload that Ctrl-C cut, and no CLOSE into
\* an unfinished transfer.
THEOREM ShutdownRespectsFrames == Spec => []NoLineIntoAFrame
<1>1. IInv => NoLineIntoAFrame  BY DEF IInv
<1> QED  BY Invariance, <1>1, PTL

\* No order of pulled cables, failed opens and dead ports makes run_serial
\* raise unless the user asked it to stop.
THEOREM CableIsSurvived == Spec => []CableNeverStops
<1>1. IInv => CableNeverStops  BY DEF IInv
<1> QED  BY Invariance, <1>1, PTL
=============================================================================
