-------------------------- MODULE MCBlinkDetector --------------------------
(* Instances of BlinkDetector for TLC: small times and closure scales.     *)
EXTENDS BlinkDetector

SmallTimes == 0..5
=============================================================================
