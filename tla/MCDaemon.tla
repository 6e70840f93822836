------------------------------ MODULE MCDaemon ------------------------------
(* Instances of Daemon for TLC, with the code's threshold of two losses.   *)
EXTENDS Daemon

\* Two transports exist at once during a splice; a third shows a leak.
ThreeHandles == 1..3
=============================================================================
