------------------------- MODULE MCInferenceService -------------------------
(* Instances of InferenceService for TLC.                                  *)
EXTENDS InferenceService
=============================================================================
