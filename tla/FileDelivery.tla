---------------------------- MODULE FileDelivery ----------------------------
(***************************************************************************)
(* What the transfer of one file promises, whichever way its blocks are    *)
(* sent: the receiver's .PART file is always a beginning of the file, the  *)
(* receiver verifies nothing but the whole file and installs nothing it    *)
(* has not verified, and the sender reports success only for a file that   *)
(* the receiver has verified.                                              *)
(***************************************************************************)
EXTENDS Naturals, Sequences

CONSTANT Blocks  \* blocks of the file

VARIABLES
  copy,    \* the blocks in .PART, each named by its number
  holder,  \* what the receiver has made of them
  report   \* what the sender says of the transfer, "none" before it ended

delivery == <<copy, holder, report>>

File == [i \in 1 .. Blocks |-> i - 1]

Init == copy = <<>> /\ holder = "writing" /\ report = "none"

Write ==
  /\ holder = "writing" /\ Len(copy) < Blocks
  /\ copy' = Append(copy, Len(copy))
  /\ UNCHANGED <<holder, report>>

StartAgain ==
  /\ holder = "writing"
  /\ copy' = <<>>
  /\ UNCHANGED <<holder, report>>

Verify ==
  /\ holder = "writing" /\ copy = File
  /\ holder' = "verified"
  /\ UNCHANGED <<copy, report>>

Install ==
  /\ holder = "verified"
  /\ holder' = "installed"
  /\ UNCHANGED <<copy, report>>

(* The receiver gives the file up, or stops before it has installed it;    *)
(* what it had not yet written out is lost.                                 *)
Stop ==
  /\ holder \in {"writing", "verified"}
  /\ holder' = "stopped"
  /\ \/ UNCHANGED copy
     \/ /\ holder = "writing"
        /\ \E n \in 0 .. Len(copy) : copy' = SubSeq(copy, 1, n)
  /\ UNCHANGED report

(* The file is asked for again. *)
AskAgain ==
  /\ holder \in {"stopped", "installed"} /\ report # "none"
  /\ copy' = <<>> /\ holder' = "writing" /\ report' = "none"

Report ==
  /\ report = "none"
  /\ \/ report' = "failed"
     \/ report' = "verified" /\ copy = File /\ holder # "writing"
  /\ UNCHANGED <<copy, holder>>

Next == Write \/ StartAgain \/ Verify \/ Install \/ Stop \/ Report \/ AskAgain

Spec == Init /\ [][Next]_delivery

=============================================================================
