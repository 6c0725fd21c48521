-------------------------- MODULE MCWorkerReplica --------------------------
(* Instances of WorkerReplica for TLC.                                     *)
EXTENDS WorkerReplica, TLC

CONSTANTS h1, h2, r1, r2

(* One loop on each of two replicas.                                       *)
Apart == h1 :> r1 @@ h2 :> r2
=============================================================================
