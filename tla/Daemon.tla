------------------------------- MODULE Daemon -------------------------------
(***************************************************************************)
(* The daemon of src/pcutp/daemon.py around the sessions it serves: which  *)
(* serial port the link writes to, what run_serial makes of every          *)
(* exception serve_once can raise, how reconnect closes the old port and   *)
(* splices a new one into the link while the cable comes and goes, and     *)
(* what shutdown says when a KeyboardInterrupt strikes at any of these     *)
(* places.  A session is reduced to the five states the handlers tell      *)
(* apart; its lines are the subject of Handshake, Transfer and Teardown.   *)
(***************************************************************************)
EXTENDS Naturals, FiniteSets

CONSTANTS
    Handles,              \* SerialTransport objects; a closed one is reused
    LINK_LOST_THRESHOLD   \* losses in a row taken for a pulled cable

ASSUME DaemonAssumption ==
    /\ IsFiniteSet(Handles) /\ Cardinality(Handles) >= 2
    /\ LINK_LOST_THRESHOLD \in Nat \ {0}

VARIABLES
    phase,           \* where run_serial stands
    port,            \* the device path: absent, enumerating or ready
    transport,       \* run_serial's local variable
    linkT,           \* link.t, the transport that sessions read and write
    open,            \* the transports that are not closed
    live,            \* the transports opened since the cable was last plugged
    lost_streak,     \* capped at LINK_LOST_THRESHOLD: only < is ever asked
    transferActive,  \* server._transfer_active
    rawActive,       \* server._raw_write_active
    struck,          \* the phase that Ctrl-C interrupted, or "never"
    said,            \* the line that shutdown put on the wire, or "nothing"
    exit             \* how run_serial ended (an exception: with it), or "running"

ports == <<port, open, live>>
refs  == <<transport, linkT>>
flags == <<transferActive, rawActive>>
ended == <<struck, said, exit>>
vars  == <<phase, ports, refs, lost_streak, flags, ended>>

Transferring == {"fetching", "sending", "raw"}
Sessions     == {"greeting", "asking"} \union Transferring
Recovering   == {"draining", "waiting", "opening", "spliced"}
Phases       == Sessions \union Recovering \union {"closing", "lingering", "over"}

Exits == {"running", "stopped", "SerialException", "HTTPException"}

Serving  == phase \in Sessions
Works(h) == h \in open \intersect live

Init ==
    /\ phase = "greeting" /\ port = "ready"
    /\ \E h \in Handles : transport = h /\ linkT = h /\ open = {h} /\ live = {h}
    /\ lost_streak = 0
    /\ transferActive = FALSE /\ rawActive = FALSE
    /\ struck = "never" /\ said = "nothing" /\ exit = "running"

-----------------------------------------------------------------------------
(* Sessions: serve_once, over a port that answers.                         *)

GoOn(from, to) ==
    /\ phase = from /\ Works(linkT)
    /\ phase' = to
    /\ UNCHANGED <<ports, refs, lost_streak, ended>>

Greeted   == GoOn("greeting", "asking")   /\ UNCHANGED flags
Fetched   == GoOn("fetching", "sending")  /\ UNCHANGED flags
Request   == GoOn("asking", "fetching")   /\ transferActive' = TRUE  /\ UNCHANGED rawActive
Delivered == GoOn("sending", "asking")    /\ transferActive' = FALSE /\ UNCHANGED rawActive
RawStart  == GoOn("sending", "raw")       /\ rawActive' = TRUE  /\ UNCHANGED transferActive
RawEnd    == GoOn("raw", "sending")       /\ rawActive' = FALSE /\ UNCHANGED transferActive

\* A PcutpError of the fetch is answered with ERR and the session goes on.
FetchRefused == GoOn("fetching", "asking") /\ transferActive' = FALSE /\ UNCHANGED rawActive

\* serve_once returns: a refused greeting, or the peer's CLOSE.
Returned ==
    /\ phase \in {"greeting", "asking"} /\ Works(linkT)
    /\ phase' = "greeting" /\ lost_streak' = 0
    /\ UNCHANGED <<ports, refs, flags, ended>>

-----------------------------------------------------------------------------
(* Exceptions of serve_once.                                               *)

\* serve_once clears its flags for a PcutpError inside a GET, and for nothing else.
FlagsAfterError ==
    IF phase \in Transferring
      THEN transferActive' = FALSE /\ rawActive' = FALSE
      ELSE UNCHANGED flags

LeftOpen == open   \* mutant of Closed: no transport.close()
Closed   == open \ {transport}

\* The call of reconnect, after the old transport was closed.
Reconnect ==
    /\ phase' = "waiting"
    /\ open' = Closed
    /\ UNCHANGED <<port, live, refs>>

Uncapped  == lost_streak' = lost_streak + 1   \* mutant of CountLoss
CountLoss ==
    lost_streak' = IF lost_streak < LINK_LOST_THRESHOLD THEN lost_streak + 1 ELSE lost_streak

\* LinkLostError and TimeoutError_: the line is silent, the port is not dead.
LinkLost ==
    /\ phase \in {"greeting", "asking", "sending"} /\ Works(linkT)
    /\ CountLoss
    /\ IF lost_streak + 1 < LINK_LOST_THRESHOLD
         THEN phase' = "draining" /\ UNCHANGED <<ports, refs>>
         ELSE Reconnect
    /\ FlagsAfterError /\ UNCHANGED ended

TransferFailed ==      \* any other PcutpError
    /\ phase \in {"greeting", "asking", "sending"} /\ Works(linkT)
    /\ phase' = "draining"
    /\ FlagsAfterError /\ UNCHANGED <<ports, refs, lost_streak, ended>>

\* The handler of SerialException and OSError.
TakenForDead ==
    /\ lost_streak' = 0
    /\ Reconnect
    /\ UNCHANGED <<flags, ended>>

\* A read or a write of a port whose device has gone.
PortDead == Serving /\ ~Works(linkT) /\ TakenForDead

\* Ten seconds without draining a write: SerialTimeoutException on a live port.
WriteStalls == phase \in Sessions \ {"greeting"} /\ Works(linkT) /\ TakenForDead

\* fetch maps TimeoutError, HTTPError and URLError; a connection reset while the
\* body is read is a plain OSError, and a broken body an HTTPException.
FetchReset == phase = "fetching" /\ TakenForDead

FetchBroken ==
    /\ phase = "fetching"
    /\ phase' = "over" /\ exit' = "HTTPException"
    /\ open' = Closed
    /\ UNCHANGED <<port, live, refs, lost_streak, flags, struck, said>>

-----------------------------------------------------------------------------
(* reconnect and discard_input.                                            *)

Recover(from, to) ==
    /\ phase = from /\ phase' = to
    /\ UNCHANGED <<lost_streak, flags, ended>>

\* Mutant of Drained: the OSError of the drained port escapes.
DrainRaises ==
    /\ phase = "draining" /\ UNCHANGED <<refs, port, live, lost_streak, flags, struck, said>>
    /\ IF Works(linkT) THEN phase' = "greeting" /\ UNCHANGED <<open, exit>>
                       ELSE phase' = "over" /\ open' = Closed /\ exit' = "SerialException"

\* discard_input swallows the OSError of a port that dies under it.
Drained == Recover("draining", "greeting") /\ UNCHANGED <<ports, refs>>

PortSeen == port # "absent" /\ Recover("waiting", "opening") /\ UNCHANGED <<ports, refs>>

\* The port is opened exclusively: not while another transport holds the device.
CanOpen == port = "ready" /\ \A h \in Handles : ~Works(h)

OpenPort ==
    /\ CanOpen /\ Recover("opening", "spliced")
    /\ \E h \in Handles \ (open \union {transport, linkT}) :
         linkT' = h /\ open' = open \union {h} /\ live' = live \union {h}
    /\ UNCHANGED <<transport, port>>

NotReady == ~CanOpen /\ Recover("opening", "waiting") /\ UNCHANGED <<ports, refs>>

Ignored == UNCHANGED transport   \* mutant of Assigned: reconnect's value is dropped
Assigned == transport' = linkT

\* discard_input on the new port, then reconnect's value is assigned.
Spliced == Recover("spliced", "greeting") /\ Assigned /\ UNCHANGED <<ports, linkT>>

-----------------------------------------------------------------------------
(* The cable.                                                              *)

Unplug ==
    /\ port # "absent"
    /\ port' = "absent" /\ live' = {}
    /\ UNCHANGED <<phase, open, refs, lost_streak, flags, ended>>

Plug ==
    /\ port # "ready"
    /\ port' = IF port = "absent" THEN "enumerating" ELSE "ready"
    /\ UNCHANGED <<phase, open, live, refs, lost_streak, flags, ended>>

-----------------------------------------------------------------------------
(* Ctrl-C: the outer handler of run_serial, shutdown and the finally clause. *)

Finally == transferActive' = FALSE /\ rawActive' = FALSE   \* mutant: cleared in a finally
FlagsAfterInterrupt == UNCHANGED flags

Interrupt ==
    /\ phase \in Sessions \union Recovering
    /\ phase' = "closing" /\ struck' = phase
    /\ FlagsAfterInterrupt
    /\ UNCHANGED <<ports, refs, lost_streak, said, exit>>

\* What shutdown writes at once, if anything.
Goodbye ==
    IF ~transferActive THEN "CLOSE" ELSE IF ~rawActive THEN "ERR RETRY" ELSE "nothing"

Leave(how) ==
    /\ phase' = "over" /\ exit' = how
    /\ open' = Closed
    /\ UNCHANGED <<port, live, refs, lost_streak, flags, struck>>

Shutdown ==
    /\ phase = "closing"
    /\ IF Goodbye # "nothing" /\ ~Works(linkT)
         THEN Leave("SerialException") /\ UNCHANGED said
         ELSE /\ said' = Goodbye
              /\ IF Goodbye = "CLOSE"
                   THEN phase' = "lingering"
                        /\ UNCHANGED <<ports, refs, lost_streak, flags, struck, exit>>
                   ELSE Leave("stopped")

\* await_fin and linger end, are cut short by a second Ctrl-C, or meet a dead port.
Lingered ==
    /\ phase = "lingering"
    /\ \E how \in {"stopped", "SerialException"} :
         (how = "SerialException" => ~Works(linkT)) /\ Leave(how)
    /\ UNCHANGED said

-----------------------------------------------------------------------------
Session == \/ Greeted \/ Request \/ Fetched \/ FetchRefused \/ RawStart \/ RawEnd
           \/ Delivered \/ Returned

Failure == LinkLost \/ TransferFailed \/ PortDead \/ FetchReset \/ WriteStalls \/ FetchBroken

Recovery == Drained \/ PortSeen \/ OpenPort \/ NotReady \/ Spliced

Exit == Shutdown \/ Lingered

Next == Session \/ Failure \/ Recovery \/ Unplug \/ Plug \/ Interrupt \/ Exit

Spec == Init /\ [][Next]_vars

\* The process is scheduled: a read of a dead port raises, wait_for_port polls
\* for ever, a silent line ends discard_input, and shutdown's waits are timed.
\* Nothing is assumed of the peer, the cable, or the user.
FairSpec == Spec /\ WF_vars(PortDead) /\ WF_vars(Recovery) /\ WF_vars(Exit)

-----------------------------------------------------------------------------
(* Properties.                                                             *)

FlagsOK == transferActive \in BOOLEAN /\ rawActive \in BOOLEAN

\* Every variable of run_serial, of the server's flags and of the port stays
\* in its range.
TypeOK ==
    /\ phase \in Phases /\ port \in {"absent", "enumerating", "ready"}
    /\ transport \in Handles /\ linkT \in Handles
    /\ open \subseteq Handles /\ live \subseteq Handles
    /\ lost_streak \in 0..LINK_LOST_THRESHOLD
    /\ FlagsOK
    /\ struck \in Sessions \union Recovering \union {"never"}
    /\ said \in {"nothing", "CLOSE", "ERR RETRY"} /\ exit \in Exits

\* Whenever a session runs, the link's transport is the one run_serial will
\* close, and it is the only one open: whatever losses, dead ports and failed
\* opens went before, reconnect neither leaks a port, which is exclusive, nor
\* leaves the link on the old one.
OnePort == Serving => linkT = transport /\ open = {transport}

\* shutdown puts no line into a raw payload that Ctrl-C has cut, and never
\* says CLOSE, which describes a finished transfer, in the middle of one.
NoLineIntoAFrame ==
    /\ struck = "raw" => said = "nothing"
    /\ struck \in Transferring => said # "CLOSE"

\* The cable alone never ends the daemon: a lost port escapes run_serial only
\* through shutdown, after a Ctrl-C, in whatever phase the cable was pulled.
CableNeverStops == exit = "SerialException" => struck # "never"

\* A daemon whose cable stays plugged in is always back, sooner or later, to a
\* session on a port that works, unless it has been stopped: no order of
\* losses, dead ports and failed opens leaves it waiting or deaf.
Reconnects ==
    <>[](port = "ready") =>
      []<>((Serving /\ Works(linkT)) \/ struck # "never" \/ exit # "running")

\* A daemon stopped between transfers tells its peer so with CLOSE
\* (PcutpServer.shutdown's docstring).
IdleStopSaysClose == exit = "stopped" /\ struck = "asking" => said = "CLOSE"
=============================================================================
