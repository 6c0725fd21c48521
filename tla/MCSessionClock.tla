--------------------------- MODULE MCSessionClock ---------------------------
(* Instances of SessionClock for TLC.                                      *)
EXTENDS SessionClock
=============================================================================
