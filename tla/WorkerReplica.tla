--------------------------- MODULE WorkerReplica ---------------------------
(***************************************************************************)
(* The replicas that run the worker loops of JobPipeline: the lifespan of  *)
(* a worker process (worker.py), with its start, the drain at SIGTERM, its *)
(* death, and its replacement by the deployment. A step of a loop is the   *)
(* step of JobPipeline together with what it means for its task.           *)
(***************************************************************************)
EXTENDS JobPipeline

CONSTANTS
  Replicas,   \* worker processes, each replaced by a new one when it ends
  Home,       \* the replica of each worker loop; worker_concurrency of them on each
  MaxStops,   \* bound: how often a replica is stopped or dies
  Outages     \* TRUE when pull_subscription may fail

ASSUME ReplicaAssumption ==
  Home \in [Handlers -> Replicas] /\ MaxStops \in Nat /\ Outages \in BOOLEAN

VARIABLES
  phase,      \* where the lifespan of a replica is
  stops,      \* how often it was stopped or died
  loop,       \* the task of a worker loop; "dead" when it ended with an exception
  cut,        \* history: jobs whose handler was cancelled in their last delivery
  leftover    \* history: jobs whose handler was cancelled between outcome and cleanup

replicaVars == <<phase, stops, loop, cut, leftover>>
allVars == <<vars, replicaVars>>

Phases == {"down", "up", "stopping", "closing"}
Ended == {"done", "dead"}
LoopStates == {"subscribe", "run", "cancelled"} \cup Ended

ReplicaTypeOK ==
  /\ TypeOK
  /\ phase \in [Replicas -> Phases]
  /\ stops \in [Replicas -> 0..MaxStops]
  /\ loop \in [Handlers -> LoopStates]
  /\ cut \subseteq Jobs /\ leftover \subseteq Jobs

ReplicaInit ==
  /\ Init
  /\ phase = [r \in Replicas |-> "down"]
  /\ stops = [r \in Replicas |-> 0]
  /\ loop = [h \in Handlers |-> "done"]
  /\ cut = {} /\ leftover = {}

-----------------------------------------------------------------------------
(* The lifespan: connect and Worker.start, Worker.stop, JobBus.close       *)

Enters(r, from, to) == phase[r] = from /\ phase' = [phase EXCEPT ![r] = to]

CancelLoops(r) ==
  loop' = [h \in Handlers |->
    IF Home[h] = r /\ loop[h] \notin Ended THEN "cancelled" ELSE loop[h]]

StopOnce(r) == stops[r] < MaxStops /\ stops' = [stops EXCEPT ![r] = @ + 1]

(* The bus is connected, or the process exits and is started again.        *)
Start(r) ==
  /\ Enters(r, "down", "up")
  /\ loop' = [h \in Handlers |-> IF Home[h] = r THEN "subscribe" ELSE loop[h]]
  /\ UNCHANGED <<vars, stops, cut, leftover>>

Stop(r) ==
  /\ Enters(r, "up", "stopping") /\ StopOnce(r)
  /\ UNCHANGED <<vars, loop, cut, leftover>>

(* asyncio.wait returns after job_ack_wait_s at the latest; the tasks that *)
(* have not ended are cancelled.                                           *)
DrainOver(r) ==
  /\ Enters(r, "stopping", "closing")
  /\ CancelLoops(r)
  /\ UNCHANGED <<vars, stops, cut, leftover>>

(* The process dies, its handlers where they are.                          *)
Die(r) ==
  /\ Enters(r, "up", "closing") /\ StopOnce(r)
  /\ CancelLoops(r)
  /\ UNCHANGED <<vars, cut, leftover>>

CloseAtOnce(r) ==  \* mutation: the cancelled tasks are not gathered
  /\ Enters(r, "closing", "down")
  /\ UNCHANGED <<vars, stops, loop, cut, leftover>>

(* gather has seen every task end, and the bus is closed.                  *)
Close(r) ==
  /\ Enters(r, "closing", "down")
  /\ \A h \in Handlers : Home[h] = r => loop[h] \in Ended
  /\ UNCHANGED <<vars, stops, loop, cut, leftover>>

-----------------------------------------------------------------------------
(* A worker loop: Worker._loop                                             *)

Becomes(h, to) == loop' = [loop EXCEPT ![h] = to]

(* `while not self._stopping.is_set()`                                     *)
Continue(h) == IF phase[Home[h]] = "stopping" THEN "done" ELSE "run"

(* pull_subscription is outside the try: when it raises, the task ends.    *)
Subscribe(h) ==
  /\ loop[h] = "subscribe"
  /\ Becomes(h, Continue(h)) \/ (Outages /\ Becomes(h, "dead"))
  /\ UNCHANGED <<vars, phase, stops, cut, leftover>>

(* A fetch that waits may still return a message after Worker.stop.        *)
Fetch(h, m) ==
  /\ loop[h] = "run" /\ Deliver(h, m)
  /\ UNCHANGED replicaVars

Work(h) ==
  /\ loop[h] = "run" /\ WorkerStep(h)
  /\ Becomes(h, IF slot'[h].msg = None THEN Continue(h) ELSE "run")
  /\ UNCHANGED <<phase, stops, cut, leftover>>

(* A fetch that times out or fails looks at the stop event again.          *)
Quit(h) ==
  /\ loop[h] = "run" /\ At(h, "fetch") /\ phase[Home[h]] = "stopping"
  /\ Becomes(h, "done")
  /\ UNCHANGED <<vars, phase, stops, cut, leftover>>

(* The CancelledError passes _handle, which sends neither ack nor nak.     *)
Cancel(h) ==
  /\ loop[h] = "cancelled" /\ Becomes(h, "done")
  /\ \/ At(h, "fetch") /\ UNCHANGED <<vars, cut, leftover>>
     \/ /\ WorkerCrash(h)
        /\ cut' = cut \cup {j \in Jobs : Msg(h) = j /\ slot[h].attempt = MaxDeliver}
        /\ leftover' = leftover \cup
             {j \in Jobs : Msg(h) = j /\ slot[h].at \in {"ack", "cleanup"}}
  /\ UNCHANGED <<phase, stops>>

-----------------------------------------------------------------------------
(* What is not a worker: the API, JetStream and its clocks.                *)
Elsewhere ==
  /\ \/ \E j \in Jobs : ApiStep(j) \/ ApiCrash(j) \/ ExpireRecord(j) \/ ExpireInput(j)
     \/ \E m \in Foreign : ForeignPublish(m)
     \/ \E m \in Msgs : AckWaitExpires(m) \/ ExpireMessage(m)
  /\ UNCHANGED replicaVars

ReplicaNext ==
  \/ \E r \in Replicas : Start(r) \/ Stop(r) \/ DrainOver(r) \/ Die(r) \/ Close(r)
  \/ \E h \in Handlers :
       Subscribe(h) \/ Work(h) \/ Quit(h) \/ Cancel(h) \/ \E m \in Msgs : Fetch(h, m)
  \/ Elsewhere

ReplicaSpec == ReplicaInit /\ [][ReplicaNext]_allVars

(* As in JobPipeline; in addition a replica that ended is replaced, a drain*)
(* is over after its budget, and a task that is cancelled ends.            *)
ReplicaFairSpec ==
  /\ ReplicaSpec
  /\ \A r \in Replicas :
       WF_allVars(Start(r)) /\ WF_allVars(DrainOver(r)) /\ WF_allVars(Close(r))
  /\ \A h \in Handlers :
       WF_allVars(Subscribe(h)) /\ WF_allVars(Work(h)) /\ WF_allVars(Cancel(h))
  /\ \A j \in Jobs : WF_allVars(ApiStep(j) /\ UNCHANGED replicaVars)
  /\ \A m \in Msgs :
       /\ WF_allVars(\E h \in Handlers : Fetch(h, m))
       /\ WF_allVars(Holders(m) = {} /\ AckWaitExpires(m) /\ UNCHANGED replicaVars)

-----------------------------------------------------------------------------
(* Properties                                                              *)

(* When the lifespan has closed the bus and the service, no task of the    *)
(* replica is left that could use them: every handler has finished or was  *)
(* cancelled (worker.py:81, 218-220).                                      *)
DrainLeavesNobody ==
  \A h \in Handlers :
    phase[Home[h]] = "down" => loop[h] \in Ended /\ At(h, "fetch")

(* "Anything unfinished is redelivered" (RUNBOOK.md:95), as far as it is   *)
(* true: through any rollout a job that was published gets its outcome,    *)
(* also one whose client was told otherwise and whose input was deleted    *)
(* under the worker, unless the handler of its last delivery was cancelled,*)
(* or every loop of every replica has died in its subscription, which      *)
(* nothing restarts.                                                       *)
JobsSurviveRollout ==
  \A j \in Jobs :
    queue[j] # "absent" ~>
      (j \in settled \/ j \in cut \/ [](\A h \in Handlers : loop[h] = "dead"))

(* "Uploaded videos are deleted after processing" (ARCHITECTURE.md:104), as*)
(* far as it is true. What stays for the lifecycle rule of the bucket: the *)
(* upload of a request that was cancelled before its message was sent, the *)
(* input of a job that never gets its outcome, and the input of one whose  *)
(* handler was cancelled between outcome and cleanup.                      *)
Excused(j) ==
  \/ j \in leftover
  \/ request[j] \in {"lost", "failed"} /\ queue[j] = "absent"
  \/ j \notin settled /\ j \in cut
UploadIsDeleted ==
  \A j \in Jobs :
    stored[j] ~> (~stored[j] \/ Excused(j) \/ [](\A h \in Handlers : loop[h] = "dead"))
=============================================================================
