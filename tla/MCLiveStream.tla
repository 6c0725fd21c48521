---------------------------- MODULE MCLiveStream ----------------------------
(* Instances of LiveStream for TLC.                                        *)
EXTENDS LiveStream
=============================================================================
