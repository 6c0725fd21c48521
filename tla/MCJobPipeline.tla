--------------------------- MODULE MCJobPipeline ---------------------------
(* Instances of JobPipeline for TLC.                                       *)
EXTENDS JobPipeline, TLC

(* Jobs, foreign messages and worker loops are interchangeable.            *)
Symmetry == Permutations(Jobs) \cup Permutations(Handlers)
=============================================================================
