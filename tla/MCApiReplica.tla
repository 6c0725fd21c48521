---------------------------- MODULE MCApiReplica ----------------------------
(* Instances of ApiReplica for TLC.                                        *)
EXTENDS ApiReplica
=============================================================================
