------------------------ MODULE WorkerReplicaProofs ------------------------
(* Theorems about WorkerReplica, for every number of replicas, loops and   *)
(* restarts, and under every fault.                                        *)
EXTENDS WorkerReplica, JobPipelineProofs

-----------------------------------------------------------------------------
(* Every step is a step of the pipeline or leaves it alone.                *)

LEMMA PipelineStep == [ReplicaNext]_allVars => [Next]_vars
  <1> SUFFICES ASSUME [ReplicaNext]_allVars PROVE [Next]_vars
    OBVIOUS
  <1>1. ASSUME NEW r \in Replicas, Start(r) \/ Stop(r) \/ DrainOver(r) \/ Die(r) \/ Close(r)
        PROVE  UNCHANGED vars
    BY <1>1 DEF Start, Stop, DrainOver, Die, Close
  <1>2. ASSUME NEW h \in Handlers, Subscribe(h) \/ Quit(h) PROVE UNCHANGED vars
    BY <1>2 DEF Subscribe, Quit
  <1>3. ASSUME NEW h \in Handlers, Work(h) PROVE Next
    BY <1>3 DEF Work, Next
  <1>4. ASSUME NEW h \in Handlers, Cancel(h) PROVE [Next]_vars
    BY <1>4 DEF Cancel, Next
  <1>5. ASSUME NEW h \in Handlers, NEW m \in Msgs, Fetch(h, m) PROVE Next
    BY <1>5 DEF Fetch, Next
  <1>6. ASSUME Elsewhere PROVE Next
    BY <1>6 DEF Elsewhere, Next
  <1>7. CASE UNCHANGED allVars
    BY <1>7 DEF allVars
  <1>8. QED
    BY <1>1, <1>2, <1>3, <1>4, <1>5, <1>6, <1>7 DEF ReplicaNext

(* The theorems of JobPipelineProofs hold of a fleet of replicas: through  *)
(* starts, drains, deaths and replacements (worker.py:71-107, 202-223) the *)
(* pipeline takes only steps of JobPipeline.                               *)
THEOREM ImplementsPipelineHolds == ReplicaSpec => Spec
  <1>1. ReplicaInit => Init
    BY DEF ReplicaInit
  <1>2. QED
    BY <1>1, PipelineStep, PTL DEF ReplicaSpec, Spec

(* No rollout loses the outcome, the input or the message of a job.        *)
THEOREM RolloutKeepsJobs ==
  ReplicaSpec => [](PersistBeforeAck /\ InputKeptUntilSettled /\ AcceptedIsNotLost)
  BY ImplementsPipelineHolds, PersistBeforeAckHolds, InputKeptHolds,
     AcceptedIsNotLostHolds, PTL

(* A rollout does not put two handlers on one job either, as long as every *)
(* handler stays within job_ack_wait_s.                                    *)
THEOREM RolloutKeepsOneHandler ==
  ASSUME InTime
  PROVE  ReplicaSpec => []OneHandlerPerJob
  BY ImplementsPipelineHolds, OneHandlerPerJobHolds, PTL

(* If in addition no record expires, what a client sees of its job through *)
(* any number of drains, deaths and restarts is a life of JobLifecycle: the*)
(* outcome is final, the attempts do not go back, and an accepted job is   *)
(* found with its video and message until it has an outcome.               *)
THEOREM RolloutKeepsPromises ==
  ASSUME InTime, Unexpired
  PROVE  ReplicaSpec => /\ TerminalIsFinal /\ AttemptsNeverDecrease
                        /\ ImplementsLifecycle /\ []AcceptedIsTracked
  <1>1. Spec => TerminalIsFinal
    BY TerminalIsFinalHolds
  <1>2. Spec => AttemptsNeverDecrease
    BY AttemptsNeverDecreaseHolds
  <1>3. Spec => ImplementsLifecycle
    BY ImplementsLifecycleHolds
  <1>4. Spec => []AcceptedIsTracked
    BY AcceptedIsTrackedHolds
  <1>5. ReplicaSpec => Spec
    BY ImplementsPipelineHolds
  <1>6. QED
    BY <1>1, <1>2, <1>3, <1>4, <1>5

-----------------------------------------------------------------------------
(* Types, and what a drain leaves behind                                   *)

ReplicaTypes ==
  /\ phase \in [Replicas -> Phases]
  /\ stops \in [Replicas -> 0..MaxStops]
  /\ loop \in [Handlers -> LoopStates]
  /\ cut \subseteq Jobs /\ leftover \subseteq Jobs

(* Only a loop that runs, or was cancelled while it ran, holds a message.  *)
IdleUnlessAtWork ==
  \A h \in Handlers : loop[h] \in Ended \cup {"subscribe"} => At(h, "fetch")

ClosedHasEnded == \A h \in Handlers : phase[Home[h]] = "down" => loop[h] \in Ended

ReplicaInv == TypeInv /\ ReplicaTypes /\ IdleUnlessAtWork /\ ClosedHasEnded

LEMMA OneSlot ==
  ASSUME TypeOK, NEW h \in Handlers, NEW m \in Msgs,
         WorkerStep(h) \/ WorkerCrash(h) \/ Deliver(h, m)
  PROVE  \A i \in Handlers : i # h => slot'[i] = slot[i]
  <1>1. CASE GetInput(h) \/ Analyze(h)
    BY <1>1, WorkLemma
  <1>2. CASE Ack(h)
    BY <1>2, AckLemma
  <1>3. CASE Terminate(h) \/ ReadRecord(h)
    BY <1>3 DEF Terminate, ReadRecord, Goto, Release, TypeOK
  <1>4. CASE MarkProcessing(h) \/ Finish(h)
    BY <1>4 DEF MarkProcessing, Finish, Goto, TypeOK
  <1>5. CASE Cleanup(h) \/ Nak(h) \/ WorkerCrash(h)
    BY <1>5 DEF Cleanup, Nak, WorkerCrash, Release, TypeOK
  <1>6. CASE Deliver(h, m)
    BY <1>6 DEF Deliver, TypeOK
  <1>7. QED
    BY <1>1, <1>2, <1>3, <1>4, <1>5, <1>6 DEF WorkerStep

LEMMA ReplicaInvInit == ReplicaInit => ReplicaInv
  <1>1. Init => TypeInv
    BY TypeInit
  <1>2. QED
    BY <1>1, ReplicaAssumption
       DEF ReplicaInit, ReplicaInv, ReplicaTypes, IdleUnlessAtWork, ClosedHasEnded, Phases,
           LoopStates, Ended, Init, Free, At

LEMMA ReplicaInvStep == ReplicaInv /\ [ReplicaNext]_allVars => ReplicaInv'
  <1> SUFFICES ASSUME ReplicaInv, [ReplicaNext]_allVars PROVE ReplicaInv'
    OBVIOUS
  <1> USE ReplicaAssumption
  <1>1. TypeInv'
    BY PipelineStep, TypeStep DEF ReplicaInv
  <1>2. TypeOK
    BY DEF ReplicaInv, TypeInv
  <1> DEFINE Rest == ReplicaTypes' /\ IdleUnlessAtWork' /\ ClosedHasEnded'
  <1>3. ASSUME NEW r \in Replicas, Start(r) \/ Stop(r) \/ DrainOver(r) \/ Die(r) \/ Close(r)
        PROVE  Rest
    <2>1. ReplicaTypes'
      <3>1. phase' \in [Replicas -> Phases]
        BY <1>3 DEF ReplicaInv, ReplicaTypes, Start, Stop, DrainOver, Die, Close, Enters, Phases
      <3>2. stops' \in [Replicas -> 0..MaxStops]
        BY <1>3 DEF ReplicaInv, ReplicaTypes, Start, Stop, DrainOver, Die, Close, StopOnce
      <3>3. loop' \in [Handlers -> LoopStates]
        BY <1>3 DEF ReplicaInv, ReplicaTypes, Start, Stop, DrainOver, Die, Close, CancelLoops,
                    LoopStates
      <3>4. UNCHANGED <<cut, leftover>>
        BY <1>3 DEF Start, Stop, DrainOver, Die, Close
      <3>5. QED
        BY <3>1, <3>2, <3>3, <3>4 DEF ReplicaInv, ReplicaTypes
    <2>2. UNCHANGED slot
      BY <1>3 DEF Start, Stop, DrainOver, Die, Close, vars
    <2>3. CASE Start(r)
      <3>1. \A h \in Handlers : Home[h] = r => At(h, "fetch")
        BY <2>3 DEF Start, Enters, ReplicaInv, IdleUnlessAtWork, ClosedHasEnded
      <3>2. IdleUnlessAtWork'
        BY <2>2, <2>3, <3>1 DEF Start, ReplicaInv, ReplicaTypes, IdleUnlessAtWork, At, Ended
      <3>3. ClosedHasEnded'
        BY <2>3 DEF Start, Enters, ReplicaInv, ReplicaTypes, ClosedHasEnded
      <3>4. QED
        BY <2>1, <3>2, <3>3
    <2>4. CASE Stop(r) \/ DrainOver(r) \/ Die(r) \/ Close(r)
      <3>1. IdleUnlessAtWork'
        BY <2>2, <2>4
           DEF Stop, DrainOver, Die, Close, CancelLoops, ReplicaInv, ReplicaTypes,
               IdleUnlessAtWork, At, Ended
      <3>2. ClosedHasEnded'
        BY <2>4
           DEF Stop, DrainOver, Die, Close, CancelLoops, Enters, ReplicaInv, ReplicaTypes,
               ClosedHasEnded, Ended
      <3>3. QED
        BY <2>1, <3>1, <3>2
    <2>5. QED
      BY <1>3, <2>3, <2>4
  <1>4. ASSUME NEW h \in Handlers, Subscribe(h) \/ Quit(h) PROVE Rest
    <2>1. /\ UNCHANGED <<slot, phase, stops, cut, leftover>> /\ At(h, "fetch")
          /\ \E to \in {"done", "run", "dead"} : Becomes(h, to)
          /\ phase[Home[h]] # "down"
      BY <1>4 DEF Subscribe, Quit, Continue, vars, ReplicaInv, IdleUnlessAtWork,
                  ClosedHasEnded, Ended
    <2>2. QED
      BY <2>1 DEF Becomes, ReplicaInv, ReplicaTypes, IdleUnlessAtWork, ClosedHasEnded, At,
                  LoopStates, Ended
  <1>5. ASSUME NEW h \in Handlers, Work(h) PROVE Rest
    <2>1. \A i \in Handlers : i # h => slot'[i] = slot[i]
      <3>1. None \notin Msgs /\ Msgs # {}
        <4>1. slot[h].at # "fetch"
          BY <1>5 DEF Work, WorkerStep, Terminate, ReadRecord, MarkProcessing, GetInput,
                      Analyze, Finish, Ack, Cleanup, Nak, At
        <4>2. QED
          BY <4>1, MsgAssumption DEF ReplicaInv, TypeInv, SlotsHold
      <3>2. PICK m \in Msgs : TRUE
        BY <3>1
      <3>3. QED
        BY <1>2, <1>5, <3>2, OneSlot DEF Work
    <2>2. slot'[h].msg = None => slot'[h].at = "fetch"
      BY <1>1, MsgAssumption DEF TypeInv, SlotsHold, Msg
    <2>3. /\ loop[h] = "run" /\ UNCHANGED <<phase, stops, cut, leftover>>
          /\ phase[Home[h]] # "down"
      BY <1>5 DEF Work, ReplicaInv, ClosedHasEnded, Ended
    <2>4. CASE slot'[h].msg = None /\ Becomes(h, "done")
      BY <2>1, <2>2, <2>3, <2>4
         DEF Becomes, ReplicaInv, ReplicaTypes, IdleUnlessAtWork, ClosedHasEnded, At,
             LoopStates, Ended
    <2>5. CASE Becomes(h, "run")
      BY <2>1, <2>3, <2>5
         DEF Becomes, ReplicaInv, ReplicaTypes, IdleUnlessAtWork, ClosedHasEnded, At,
             LoopStates, Ended
    <2>6. QED
      BY <1>5, <2>4, <2>5 DEF Work, Continue
  <1>6. ASSUME NEW h \in Handlers, Cancel(h) PROVE Rest
    <2>1. \A i \in Handlers : i # h => slot'[i] = slot[i]
      BY <1>2, <1>6 DEF Cancel, WorkerCrash, Release, vars, TypeOK
    <2>2. At(h, "fetch")'
      BY <1>2, <1>6 DEF Cancel, WorkerCrash, Release, Free, vars, At, TypeOK
    <2>3. /\ Becomes(h, "done") /\ UNCHANGED <<phase, stops>>
          /\ cut' \subseteq Jobs /\ leftover' \subseteq Jobs
      BY <1>6 DEF Cancel, ReplicaInv, ReplicaTypes
    <2>4. QED
      BY <2>1, <2>2, <2>3
         DEF Becomes, ReplicaInv, ReplicaTypes, IdleUnlessAtWork, ClosedHasEnded, At,
             LoopStates, Ended
  <1>7. ASSUME NEW h \in Handlers, NEW m \in Msgs, Fetch(h, m) PROVE Rest
    <2>1. \A i \in Handlers : i # h => slot'[i] = slot[i]
      BY <1>2, <1>7, OneSlot DEF Fetch
    <2>2. QED
      BY <1>7, <2>1 DEF Fetch, replicaVars, ReplicaInv, ReplicaTypes, IdleUnlessAtWork,
                        ClosedHasEnded, At, Ended
  <1>8. ASSUME Elsewhere PROVE Rest
    <2>1. UNCHANGED replicaVars /\ UNCHANGED slot
      BY <1>8 DEF Elsewhere, ApiStep, Upload, SubmitRecord, Publish, PublishAcked, UndoUpload,
                  ApiCrash, ExpireRecord, ExpireInput, ForeignPublish, AckWaitExpires,
                  ExpireMessage, apiRest
    <2>2. QED
      BY <2>1 DEF replicaVars, ReplicaInv, ReplicaTypes, IdleUnlessAtWork, ClosedHasEnded, At
  <1>9. ASSUME UNCHANGED allVars PROVE Rest
    <2>1. UNCHANGED <<slot, phase, stops, loop, cut, leftover>>
      BY <1>9 DEF allVars, replicaVars, vars
    <2>2. QED
      BY <2>1 DEF ReplicaInv, ReplicaTypes, IdleUnlessAtWork, ClosedHasEnded, At
  <1>10. Rest
    BY <1>3, <1>4, <1>5, <1>6, <1>7, <1>8, <1>9 DEF ReplicaNext
  <1>11. QED
    BY <1>1, <1>10 DEF ReplicaInv

LEMMA ReplicaInvariant == ReplicaSpec => []ReplicaInv
  BY ReplicaInvInit, ReplicaInvStep, PTL DEF ReplicaSpec

(* Type correctness of the replicas together with their pipeline.          *)
THEOREM ReplicaTypeCorrect == ReplicaSpec => []ReplicaTypeOK
  <1>1. ReplicaInv => ReplicaTypeOK
    BY DEF ReplicaInv, TypeInv, ReplicaTypes, ReplicaTypeOK
  <1>2. QED
    BY <1>1, ReplicaInvariant, PTL

(* When a replica has closed its bus, none of its loops is left, finished  *)
(* or cancelled as they may be (worker.py:80-87, 218-220).                 *)
THEOREM DrainLeavesNobodyHolds == ReplicaSpec => []DrainLeavesNobody
  <1>1. ReplicaInv => DrainLeavesNobody
    BY DEF ReplicaInv, IdleUnlessAtWork, ClosedHasEnded, DrainLeavesNobody
  <1>2. QED
    BY <1>1, ReplicaInvariant, PTL
=============================================================================
