-------------------------- MODULE MCVideoAnalysis --------------------------
(* Instances of VideoAnalysis for TLC: small times and closure scales.     *)
EXTENDS VideoAnalysis

SmallTimes == 0..5
FewClosures == {1, 2, 4, NoFace}
=============================================================================
