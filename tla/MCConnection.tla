---------------------------- MODULE MCConnection ----------------------------
(***************************************************************************)
(* Connection with two clients, of which one takes the place of the other; *)
(* each of them matches the server, or does not.                           *)
(***************************************************************************)
EXTENDS Connection

\* Zero, or whatever the memory held.
MCUninitialised == {Null, 99}
=============================================================================
