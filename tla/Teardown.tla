------------------------------ MODULE Teardown ------------------------------
(***************************************************************************)
(* How a session ends: Link.send_fin, await_fin and linger as they are     *)
(* called by PcutpClient.close, by PcutpServer.serve_once when it reads    *)
(* CLOSE, and by PcutpServer.shutdown when the daemon is interrupted.      *)
(*                                                                         *)
(* Time is counted in seconds.  A line takes milliseconds, so time passes  *)
(* only when nobody has a line to read or a deadline to notice; within one *)
(* second everything that can happen does, in any order.                   *)
(***************************************************************************)
EXTENDS Naturals, Sequences

CONSTANTS
  CloseTimeout,  \* CLOSE_TIMEOUT
  CloseRetries,  \* CLOSE_RETRIES
  LingerTime,    \* LINGER_TIME
  MaxLosses      \* bound: how many lines one behaviour loses

ASSUME TeardownAssumption ==
  /\ CloseTimeout \in Nat \ {0}
  /\ CloseRetries \in Nat \ {0}
  /\ LingerTime \in Nat \ {0}
  /\ MaxLosses \in Nat

Sides  == {"client", "server"}
Phases == {"open", "listen", "fin", "await", "linger", "over"}
Roles  == {"none", "hangup", "answer", "shutdown"}
Kinds  == {"CLOSE", "BYE", "ERR"}

VARIABLES
  phase,   \* what each side does: in session, waiting for HELLO, or closing
  role,    \* which of the three callers is closing
  tries,   \* CLOSE lines sent by send_fin
  timer,   \* seconds left to the current deadline
  spent,   \* seconds since the side began to close
  acked,   \* send_fin returned True
  heard,   \* the peer has read this side's CLOSE and answered it
  lines,   \* what each side has yet to read
  stray,   \* a CLOSE was read as the first line of a session
  losses

vars == <<phase, role, tries, timer, spent, acked, heard, lines, stray, losses>>

Peer(p) == IF p = "client" THEN "server" ELSE "client"

Closing(p) == phase[p] \in {"fin", "await", "linger"}

(* The client of an open session sends and receives only inside get.       *)
Reading(p) == Closing(p) \/ (p = "server" /\ phase[p] \in {"open", "listen"})

-----------------------------------------------------------------------------
(* The line.  A side that is over has closed its port.                     *)

Received(p, rest, out) ==
  lines' = [lines EXCEPT ![p] = rest,
                         ![Peer(p)] = IF phase[Peer(p)] = "over" THEN @ ELSE @ \o out]

Says(p, out) == Received(p, lines[p], out)
Reads(p, kind, out) ==
  /\ lines[p] # <<>> /\ Head(lines[p]) = kind
  /\ Received(p, Tail(lines[p]), out)

Unchanged == UNCHANGED <<role, tries, timer, spent, acked, heard, stray, losses>>

-----------------------------------------------------------------------------
(* send_fin, await_fin and linger. *)

StartFin(p, r) ==
  /\ phase' = [phase EXCEPT ![p] = "fin"]
  /\ role'  = [role EXCEPT ![p] = r]
  /\ tries' = [tries EXCEPT ![p] = 1]
  /\ timer' = [timer EXCEPT ![p] = CloseTimeout]
  /\ spent' = [spent EXCEPT ![p] = 0]
  /\ acked' = [acked EXCEPT ![p] = FALSE]

Enter(p, next, deadline) ==
  /\ phase' = [phase EXCEPT ![p] = next]
  /\ timer' = [timer EXCEPT ![p] = deadline]

(* close waits for the peer's CLOSE only when its own was acknowledged,    *)
(* shutdown always, and serve_once has already read it.                    *)
AfterFin(p, ok) ==
  /\ acked' = [acked EXCEPT ![p] = ok]
  /\ IF role[p] = "shutdown" \/ (role[p] = "hangup" /\ ok)
     THEN Enter(p, "await", CloseTimeout)
     ELSE Enter(p, "linger", LingerTime)

(* Mutant of FinConfirms: the peer's own CLOSE is taken for the answer. *)
AnyFinConfirms(kind) == kind \in {"BYE", "CLOSE"}
FinConfirms(kind)    == kind = "BYE"

HeardBy(p) == heard' = [heard EXCEPT ![Peer(p)] = TRUE]

(* What a side sends back when it reads `kind` while it is closing. *)
Reply(kind) == IF kind = "CLOSE" THEN <<"BYE">> ELSE <<>>

RecvInFin(p) ==
  /\ phase[p] = "fin"
  /\ \E kind \in Kinds :
       /\ Reads(p, kind, Reply(kind))
       /\ IF FinConfirms(kind)
          THEN AfterFin(p, TRUE)
          ELSE UNCHANGED <<phase, timer, acked>>
       /\ IF kind = "CLOSE" THEN HeardBy(p) ELSE UNCHANGED heard
  /\ UNCHANGED <<role, tries, spent, stray, losses>>

OneMoreAttempt(p) == tries[p] > CloseRetries   \* mutant of LastAttempt
LastAttempt(p)    == tries[p] >= CloseRetries

FinTimeout(p) ==
  /\ phase[p] = "fin" /\ timer[p] = 0 /\ lines[p] = <<>>
  /\ \/ /\ ~LastAttempt(p)
        /\ tries' = [tries EXCEPT ![p] = @ + 1]
        /\ timer' = [timer EXCEPT ![p] = CloseTimeout]
        /\ Says(p, <<"CLOSE">>)
        /\ UNCHANGED <<phase, acked>>
     \/ /\ LastAttempt(p)
        /\ AfterFin(p, FALSE)
        /\ UNCHANGED <<tries, lines>>
  /\ UNCHANGED <<role, spent, heard, stray, losses>>

RecvInAwait(p) ==
  /\ phase[p] = "await"
  /\ \E kind \in Kinds :
       /\ Reads(p, kind, Reply(kind))
       /\ IF kind = "CLOSE"
          THEN Enter(p, "linger", LingerTime) /\ HeardBy(p)
          ELSE UNCHANGED <<phase, timer, heard>>
  /\ UNCHANGED <<role, tries, spent, acked, stray, losses>>

NoAwaitDeadline(p) == FALSE   \* mutant of AwaitOver: await_fin waits for ever
AwaitOver(p)       == timer[p] = 0

AwaitTimeout(p) ==
  /\ phase[p] = "await" /\ AwaitOver(p) /\ lines[p] = <<>>
  /\ Enter(p, "linger", LingerTime)
  /\ UNCHANGED <<role, tries, spent, acked, heard, lines, stray, losses>>

(* Mutant of LingerLeft: every repeated CLOSE starts the linger again. *)
LingerAgain(p, kind) == IF kind = "CLOSE" THEN LingerTime ELSE timer[p]
LingerLeft(p, kind)  == timer[p]

RecvInLinger(p) ==
  /\ phase[p] = "linger"
  /\ \E kind \in Kinds :
       /\ Reads(p, kind, Reply(kind))
       /\ timer' = [timer EXCEPT ![p] = LingerLeft(p, kind)]
       /\ IF kind = "CLOSE" THEN HeardBy(p) ELSE UNCHANGED heard
  /\ UNCHANGED <<phase, role, tries, spent, acked, stray, losses>>

LingerTimeout(p) ==
  /\ phase[p] = "linger" /\ timer[p] = 0 /\ lines[p] = <<>>
  /\ phase' = [phase EXCEPT ![p] = IF role[p] = "answer" THEN "listen" ELSE "over"]
  /\ UNCHANGED lines /\ Unchanged

-----------------------------------------------------------------------------
(* Who closes. *)

(* PcutpClient.close. *)
HangUp ==
  /\ phase["client"] = "open"
  /\ StartFin("client", "hangup")
  /\ Says("client", <<"CLOSE">>)
  /\ UNCHANGED <<heard, stray, losses>>

ByeThenClose == <<"BYE", "CLOSE">>

(* serve_once reads CLOSE, acknowledges it and closes its own direction. *)
RecvClose ==
  /\ phase["server"] = "open"
  /\ Reads("server", "CLOSE", ByeThenClose)
  /\ StartFin("server", "answer")
  /\ HeardBy("server")
  /\ UNCHANGED <<stray, losses>>

(* The daemon is interrupted; it may already be closing or between         *)
(* sessions.  A second interrupt stops it at once.                         *)
Interrupt ==
  /\ phase["server"] # "over"
  /\ \/ /\ role["server"] # "shutdown"
        /\ StartFin("server", "shutdown")
        /\ Says("server", <<"CLOSE">>)
        /\ UNCHANGED <<heard, stray, losses>>
     \/ /\ role["server"] = "shutdown"
        /\ phase' = [phase EXCEPT !["server"] = "over"]
        /\ UNCHANGED lines /\ Unchanged

(* The next serve_once: a first line that is not HELLO is refused. *)
RecvFirstLine ==
  /\ phase["server"] = "listen"
  /\ \E kind \in Kinds :
       /\ Reads("server", kind, <<"ERR">>)
       /\ stray' = (stray \/ kind = "CLOSE")
  /\ UNCHANGED <<phase, role, tries, timer, spent, acked, heard, losses>>

(* The keepalive finds that nobody is there any more. *)
SilenceNoticed ==
  /\ phase["server"] = "open" /\ phase["client"] = "over" /\ lines["server"] = <<>>
  /\ phase' = [phase EXCEPT !["server"] = "listen"]
  /\ UNCHANGED lines /\ Unchanged

-----------------------------------------------------------------------------
Tick ==
  /\ \A p \in Sides : /\ Reading(p) => lines[p] = <<>>
                      /\ Closing(p) => timer[p] > 0
  /\ \E p \in Sides : Closing(p)
  /\ timer' = [p \in Sides |-> IF Closing(p) THEN timer[p] - 1 ELSE timer[p]]
  /\ spent' = [p \in Sides |-> IF Closing(p) THEN spent[p] + 1 ELSE spent[p]]
  /\ UNCHANGED <<phase, role, tries, acked, heard, lines, stray, losses>>

LoseLine ==
  /\ losses < MaxLosses /\ losses' = losses + 1
  /\ \E p \in Sides : lines[p] # <<>> /\ lines' = [lines EXCEPT ![p] = Tail(@)]
  /\ UNCHANGED <<phase, role, tries, timer, spent, acked, heard, stray>>

SideStep(p) ==
  \/ RecvInFin(p) \/ FinTimeout(p)
  \/ RecvInAwait(p) \/ AwaitTimeout(p)
  \/ RecvInLinger(p) \/ LingerTimeout(p)

Progress ==
  \/ \E p \in Sides : SideStep(p)
  \/ RecvClose \/ RecvFirstLine \/ SilenceNoticed

Init ==
  /\ phase = [p \in Sides |-> "open"] /\ role = [p \in Sides |-> "none"]
  /\ tries = [p \in Sides |-> 0] /\ timer = [p \in Sides |-> 0] /\ spent = [p \in Sides |-> 0]
  /\ acked = [p \in Sides |-> FALSE] /\ heard = [p \in Sides |-> FALSE]
  /\ lines = [p \in Sides |-> <<>>] /\ stray = FALSE /\ losses = 0

Next == HangUp \/ Interrupt \/ Progress \/ Tick \/ LoseLine

Spec == Init /\ [][Next]_vars

(* The programs run and time passes; nobody is obliged to hang up. *)
FairSpec == Spec /\ WF_vars(Progress) /\ WF_vars(Tick)

-----------------------------------------------------------------------------
(* Properties. *)

(* Every variable has its type, and send_fin sends CLOSE_RETRIES lines at most. *)
TypeOK ==
  /\ phase \in [Sides -> Phases] /\ role \in [Sides -> Roles]
  /\ tries \in [Sides -> 0 .. CloseRetries]
  /\ timer \in [Sides -> Nat] /\ spent \in [Sides -> Nat]
  /\ acked \in [Sides -> BOOLEAN] /\ heard \in [Sides -> BOOLEAN]
  /\ lines \in [Sides -> Seq(Kinds)] /\ stray \in BOOLEAN /\ losses \in Nat

(* send_fin returns True only when the peer has read this side's CLOSE, also *)
(* when both sides close at the same moment.                                *)
AckedIsHeard == \A p \in Sides : acked[p] => heard[p]

(* However many lines are lost, a side that began to close is done within    *)
(* its three attempts, one wait for the peer's CLOSE and one linger.          *)
CloseBound == CloseRetries * CloseTimeout + CloseTimeout + LingerTime
EndsInTime == \A p \in Sides : spent[p] <= CloseBound

(* The seconds a closing side may still need. *)
Remaining(p) ==
  IF phase[p] = "fin"
  THEN timer[p] + (CloseRetries - tries[p]) * CloseTimeout + CloseTimeout + LingerTime
  ELSE IF phase[p] = "await" THEN timer[p] + LingerTime
  ELSE IF phase[p] = "linger" THEN timer[p]
  ELSE 0

(* A side that began to close ends: it is over, or listens for a new session. *)
ClosingEnds == \A p \in Sides : Closing(p) ~> ~Closing(p)

(* A CLOSE of this session is never read as the first control line of the    *)
(* next one.                                                                 *)
NoStrayClose == ~stray

=============================================================================
