---------------------------- MODULE MCClockSync ----------------------------
(***************************************************************************)
(* ClockSync with two threads and two rounds of a synchronization.         *)
(***************************************************************************)
EXTENDS ClockSync

MCTheta == 5
MCNever == 0 - 100
=============================================================================
