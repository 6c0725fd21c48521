---------------------------- MODULE JobPipeline ----------------------------
(***************************************************************************)
(* The asynchronous video pipeline: POST /v1/jobs (api/routes.py), JobBus  *)
(* over a JetStream work queue and a key-value bucket (jobs.py), the object*)
(* store (storage.py) and the worker loops (worker.py).                    *)
(*                                                                         *)
(* One step is the code between two awaits that reach another party: every *)
(* KV, JetStream and S3 call is a step of its own, with its failures.      *)
(***************************************************************************)
EXTENDS Integers

CONSTANTS
  Jobs,         \* jobs submitted through POST /v1/jobs
  Foreign,      \* messages on the job subject that JobMessage does not parse
  Handlers,     \* worker loops over all replicas; each handles one message at a time
  MaxDeliver,   \* job_max_deliver
  DeleteInput,  \* delete_input_after_processing
  Faults,       \* what the environment of this instance may do, see FaultKinds
  None          \* the message of a handler that has none

FaultKinds ==
  { "overrun",     \* a handler is still busy when job_ack_wait_s has passed
    "crash",       \* a process dies, a task is cancelled
    "publish",     \* a job message is not published, or not confirmed within 5 s
    "dependency",  \* a call to NATS or S3 fails, applied or not
    "expiry" }     \* job_ttl_s passes, and later the lifetime of an input

Msgs == Jobs \cup Foreign

ASSUME MsgAssumption == Jobs \cap Foreign = {} /\ None \notin Msgs
ASSUME DeliverAssumption == MaxDeliver \in Nat \ {0}
ASSUME OptionAssumption == DeleteInput \in BOOLEAN /\ Faults \subseteq FaultKinds

VARIABLES
  request,    \* where the POST /v1/jobs call of a job is
  stored,     \* TRUE while the object inputs/<job> exists
  record,     \* the JobRecord in the KV bucket; status "none" without an entry
  settled,    \* history: jobs whose outcome has been persisted at some time
  queue,      \* the message in the stream and at the durable consumer
  delivered,  \* num_delivered of the message
  slot        \* what each worker loop is doing

vars == <<request, stored, record, settled, queue, delivered, slot>>

Terminal == {"succeeded", "failed"}
Statuses == {"queued", "processing"} \cup Terminal
RequestStates ==
  {"idle", "uploaded", "queuing", "sent", "undo", "undoing"} \cup
  {"accepted", "rejected", "failed", "lost"}
QueueStates == {"absent", "ready", "inflight", "exhausted", "acked", "expired"}
Points ==
  {"fetch", "read", "mark", "get", "analyze", "finish", "ack", "ackSeen", "cleanup", "nak"}

Free == [at |-> "fetch", msg |-> None, attempt |-> 0, verdict |-> "failed"]

TypeOK ==
  /\ request \in [Jobs -> RequestStates]
  /\ stored \in [Jobs -> BOOLEAN]
  /\ record \in [Jobs -> [status : Statuses \cup {"none"}, attempts : 0..MaxDeliver]]
  /\ settled \subseteq Jobs
  /\ queue \in [Msgs -> QueueStates]
  /\ delivered \in [Msgs -> 0..MaxDeliver]
  /\ slot \in [Handlers -> [at : Points, msg : Msgs \cup {None},
                            attempt : 0..MaxDeliver, verdict : Terminal]]

Init ==
  /\ request = [j \in Jobs |-> "idle"]
  /\ stored = [j \in Jobs |-> FALSE]
  /\ record = [j \in Jobs |-> [status |-> "none", attempts |-> 0]]
  /\ settled = {}
  /\ queue = [m \in Msgs |-> "absent"]
  /\ delivered = [m \in Msgs |-> 0]
  /\ slot = [h \in Handlers |-> Free]

May(fault) == fault \in Faults

-----------------------------------------------------------------------------
(* JobBus.put_record                                                       *)

Put(j, s, n) ==
  /\ record' = [record EXCEPT ![j] = [status |-> s, attempts |-> n]]
  /\ settled' = IF s \in Terminal THEN settled \cup {j} ELSE settled

(* The call raises DependencyUnavailableError; the write may have landed.  *)
PutFails(j, s, n) ==
  /\ May("dependency")
  /\ Put(j, s, n) \/ UNCHANGED <<record, settled>>

-----------------------------------------------------------------------------
(* POST /v1/jobs: submit_job, JobBus.submit and _best_effort_delete        *)

Moves(j, from, to) ==
  request[j] = from /\ request' = [request EXCEPT ![j] = to]

apiRest == <<queue, delivered, slot>>

Upload(j) ==
  /\ \/ Moves(j, "idle", "uploaded") /\ stored' = [stored EXCEPT ![j] = TRUE]
     \/ /\ May("dependency") /\ Moves(j, "idle", "rejected")
        /\ \E b \in BOOLEAN : stored' = [stored EXCEPT ![j] = b]
  /\ UNCHANGED <<record, settled, apiRest>>

SubmitRecord(j) ==
  /\ \/ Moves(j, "uploaded", "queuing") /\ Put(j, "queued", 0)
     \/ Moves(j, "uploaded", "undo") /\ PutFails(j, "queued", 0)
  /\ UNCHANGED <<stored, apiRest>>

(* The publish reaches the stream, or fails before it does.                *)
Publish(j) ==
  /\ \/ Moves(j, "queuing", "sent") /\ queue' = [queue EXCEPT ![j] = "ready"]
     \/ May("publish") /\ Moves(j, "queuing", "undo") /\ UNCHANGED queue
  /\ UNCHANGED <<stored, record, settled, delivered, slot>>

(* The publish acknowledgement arrives, or its 5 s timeout is over first.  *)
PublishAcked(j) ==
  /\ Moves(j, "sent", "accepted") \/ (May("publish") /\ Moves(j, "sent", "undo"))
  /\ UNCHANGED <<stored, record, settled, apiRest>>

(* _best_effort_delete, in a task of its own: while "undoing" it runs on   *)
(* for a request that is gone.                                             *)
UndoUpload(j) ==
  /\ Moves(j, "undo", "rejected") \/ Moves(j, "undoing", "failed")
  /\ \/ stored' = [stored EXCEPT ![j] = FALSE]
     \/ May("dependency") /\ UNCHANGED stored
  /\ UNCHANGED <<record, settled, apiRest>>

(* The process dies or the request task is cancelled. `except Exception`   *)
(* does not see a cancellation: nothing is undone. A deletion that has     *)
(* begun is shielded, and ends with the process only.                      *)
ApiCrash(j) ==
  /\ May("crash")
  /\ \/ \E p \in {"uploaded", "queuing", "sent"} : Moves(j, p, "lost")
     \/ Moves(j, "undo", "undoing")
     \/ \E p \in {"undo", "undoing"} : Moves(j, p, "failed")
  /\ UNCHANGED <<stored, record, settled, apiRest>>

(* Somebody else publishes on the job subject.                             *)
ForeignPublish(m) ==
  /\ queue[m] = "absent" /\ queue' = [queue EXCEPT ![m] = "ready"]
  /\ UNCHANGED <<request, stored, record, settled, delivered, slot>>

-----------------------------------------------------------------------------
(* JetStream: a stream with work-queue retention and one durable consumer  *)
(* with explicit acknowledgement, ack_wait and max_deliver.                *)

(* An acknowledgement of any delivery removes the message.                 *)
Remove(m) == queue' = [queue EXCEPT ![m] = IF @ = "expired" THEN @ ELSE "acked"]

(* A pending message becomes deliverable again, unless it has been         *)
(* delivered max_deliver times: it then stays in the stream, undelivered.  *)
Requeue(m) ==
  queue' = [queue EXCEPT ![m] =
    IF @ # "inflight" THEN @
    ELSE IF delivered[m] < MaxDeliver THEN "ready" ELSE "exhausted"]

Holders(m) == {h \in Handlers : slot[h].msg = m /\ slot[h].attempt = delivered[m]}

AckWaitExpires(m) ==
  /\ queue[m] = "inflight"
  /\ Holders(m) = {} \/ May("overrun")
  /\ Requeue(m)
  /\ UNCHANGED <<request, stored, record, settled, delivered, slot>>

(* max_age of the stream. A message handed to a worker stays in its hands. *)
ExpireMessage(m) ==
  /\ May("expiry") /\ queue[m] \in {"ready", "inflight", "exhausted"}
  /\ queue' = [queue EXCEPT ![m] = "expired"]
  /\ UNCHANGED <<request, stored, record, settled, delivered, slot>>

(* ttl of the bucket, counted from the last put: an entry that was put     *)
(* before its message can expire before it, a later one cannot.            *)
ExpireRecord(j) ==
  /\ May("expiry") /\ record[j].status # "none"
  /\ record[j].status = "queued" \/ queue[j] \in {"acked", "expired"}
  /\ record' = [record EXCEPT ![j] = [status |-> "none", attempts |-> 0]]
  /\ UNCHANGED <<request, stored, settled, queue, delivered, slot>>

(* The rule for inputs/ in the bucket (ObjectStore.ensure_bucket), a day or*)
(* more, where job_ttl_s is less: the message of the job has gone by then. *)
ExpireInput(j) ==
  /\ May("expiry") /\ stored[j]
  /\ \/ queue[j] \in {"acked", "expired"}
     \/ queue[j] = "absent" /\ request[j] \in {"rejected", "failed", "lost"}
  /\ stored' = [stored EXCEPT ![j] = FALSE]
  /\ UNCHANGED <<request, record, settled, queue, delivered, slot>>

-----------------------------------------------------------------------------
(* The worker: _loop, _handle, _process, _finish and _cleanup              *)

At(h, p) == slot[h].at = p
Msg(h) == slot[h].msg
Goto(h, p) == slot' = [slot EXCEPT ![h].at = p]
Release(h) == slot' = [slot EXCEPT ![h] = Free]
Conclude(h, v) == slot' = [slot EXCEPT ![h].at = "finish", ![h].verdict = v]

Deliver(h, m) ==
  /\ At(h, "fetch") /\ queue[m] = "ready"
  /\ queue' = [queue EXCEPT ![m] = "inflight"]
  /\ delivered' = [delivered EXCEPT ![m] = @ + 1]
  /\ slot' = [slot EXCEPT ![h] =
       [at |-> "read", msg |-> m, attempt |-> delivered[m] + 1, verdict |-> "failed"]]
  /\ UNCHANGED <<request, stored, record, settled>>

(* A message JobMessage rejects is terminated; the term may be lost, or    *)
(* raise, in which case _handle naks.                                      *)
Terminate(h) ==
  /\ At(h, "read") /\ Msg(h) \in Foreign
  /\ \/ Remove(Msg(h)) /\ Release(h)
     \/ May("dependency") /\ UNCHANGED queue /\ (Release(h) \/ Goto(h, "nak"))
  /\ UNCHANGED <<request, stored, record, settled, delivered>>

ReadRecordBlindly(h) ==  \* mutation: the check for a terminal record is gone
  /\ At(h, "read") /\ Msg(h) \in Jobs
  /\ Goto(h, "mark") \/ (May("dependency") /\ Goto(h, "nak"))
  /\ UNCHANGED <<request, stored, record, settled, queue, delivered>>

(* get_record: a missing entry is recreated, a terminal one is only acked. *)
ReadRecord(h) ==
  /\ At(h, "read") /\ Msg(h) \in Jobs
  /\ \/ Goto(h, IF record[Msg(h)].status \in Terminal THEN "ackSeen" ELSE "mark")
     \/ May("dependency") /\ Goto(h, "nak")
  /\ UNCHANGED <<request, stored, record, settled, queue, delivered>>

MarkNothing(h) ==  \* mutation: the record is not marked
  /\ At(h, "mark") /\ Goto(h, "get")
  /\ UNCHANGED <<request, stored, record, settled, queue, delivered>>

MarkProcessing(h) ==
  /\ At(h, "mark")
  /\ \/ Put(Msg(h), "processing", slot[h].attempt) /\ Goto(h, "get")
     \/ PutFails(Msg(h), "processing", slot[h].attempt) /\ Goto(h, "nak")
  /\ UNCHANGED <<request, stored, queue, delivered>>

RetryAndGoOn(h) ==  \* mutation: the `return` after the nak is missing
  IF slot[h].attempt >= MaxDeliver THEN Conclude(h, "failed") /\ UNCHANGED queue
  ELSE Requeue(Msg(h)) /\ Conclude(h, "succeeded")

RetryOnceMore(h) ==  \* mutation: > instead of >=
  /\ IF slot[h].attempt > MaxDeliver THEN Conclude(h, "failed") ELSE Goto(h, "nak")
  /\ UNCHANGED queue

(* An error that is not permanent: retried until the last delivery.        *)
Retry(h) ==
  /\ IF slot[h].attempt >= MaxDeliver THEN Conclude(h, "failed") ELSE Goto(h, "nak")
  /\ UNCHANGED queue

GetInputOrRetry(h) ==  \* mutation: a missing object is retried on every delivery
  /\ At(h, "get") /\ UNCHANGED queue
  /\ Goto(h, IF stored[Msg(h)] THEN "analyze" ELSE "nak")
  /\ UNCHANGED <<request, stored, record, settled, delivered>>

(* A missing object is permanent, a storage outage is not.                 *)
GetInput(h) ==
  /\ At(h, "get")
  /\ \/ stored[Msg(h)] /\ Goto(h, "analyze") /\ UNCHANGED queue
     \/ ~stored[Msg(h)] /\ Conclude(h, "failed") /\ UNCHANGED queue
     \/ May("dependency") /\ Retry(h)
  /\ UNCHANGED <<request, stored, record, settled, delivered>>

(* A result, an input error (4xx), or overload and unexpected errors.      *)
Analyze(h) ==
  /\ At(h, "analyze")
  /\ \/ \E v \in Terminal : Conclude(h, v) /\ UNCHANGED queue
     \/ Retry(h)
  /\ UNCHANGED <<request, stored, record, settled, delivered>>

FinishAckFirst(h) ==  \* mutation: acknowledge, then persist the outcome
  /\ At(h, "finish")
  /\ Remove(Msg(h))
  /\ \/ Put(Msg(h), slot[h].verdict, slot[h].attempt) /\ Goto(h, "ack")
     \/ PutFails(Msg(h), slot[h].verdict, slot[h].attempt) /\ Goto(h, "nak")
  /\ UNCHANGED <<request, stored, delivered>>

FinishWithFreshRecord(h) ==  \* mutation: the outcome goes into a new JobRecord
  /\ At(h, "finish")
  /\ \/ Put(Msg(h), slot[h].verdict, 0) /\ Goto(h, "ack")
     \/ PutFails(Msg(h), slot[h].verdict, 0) /\ Goto(h, "nak")
  /\ UNCHANGED <<request, stored, queue, delivered>>

FinishQuietly(h) ==  \* mutation: _finish swallows a failed put and acknowledges
  /\ At(h, "finish")
  /\ \/ Put(Msg(h), slot[h].verdict, slot[h].attempt)
     \/ PutFails(Msg(h), slot[h].verdict, slot[h].attempt)
  /\ Goto(h, "ack")
  /\ UNCHANGED <<request, stored, queue, delivered>>

(* _finish persists the outcome; a put that raises ends in _handle's nak.  *)
Finish(h) ==
  /\ At(h, "finish")
  /\ \/ Put(Msg(h), slot[h].verdict, slot[h].attempt) /\ Goto(h, "ack")
     \/ PutFails(Msg(h), slot[h].verdict, slot[h].attempt) /\ Goto(h, "nak")
  /\ UNCHANGED <<request, stored, queue, delivered>>

(* msg.ack() is a publish: it arrives, is lost on the way, or raises.      *)
SendAck(h, then) ==
  \/ Remove(Msg(h)) /\ then
  \/ May("dependency") /\ UNCHANGED queue /\ (then \/ Goto(h, "nak"))

Ack(h) ==
  /\ \/ At(h, "ack") /\ SendAck(h, Goto(h, "cleanup"))
     \/ At(h, "ackSeen") /\ SendAck(h, Release(h))
  /\ UNCHANGED <<request, stored, record, settled, delivered>>

CleanupNever(h) ==  \* mutation: the input is never deleted
  /\ At(h, "cleanup")
  /\ Release(h)
  /\ UNCHANGED <<request, stored, record, settled, queue, delivered>>

Cleanup(h) ==
  /\ At(h, "cleanup")
  /\ Release(h)
  /\ \/ DeleteInput /\ stored' = [stored EXCEPT ![Msg(h)] = FALSE]
     \/ (~DeleteInput \/ May("dependency")) /\ UNCHANGED stored
  /\ UNCHANGED <<request, record, settled, queue, delivered>>

NakAndDelete(h) ==  \* mutation: the input is deleted before a retry as well
  /\ At(h, "nak") /\ Requeue(Msg(h)) /\ Release(h)
  /\ stored' = [j \in Jobs |-> stored[j] /\ j # Msg(h)]
  /\ UNCHANGED <<request, record, settled, delivered>>

NakAndTryAgain(h) ==  \* mutation: the handler goes round again after its nak
  /\ At(h, "nak") /\ Requeue(Msg(h)) /\ Goto(h, "read")
  /\ UNCHANGED <<request, stored, record, settled, delivered>>

(* msg.nak(delay) gives the message back after the delay, unless it is lost.*)
Nak(h) ==
  /\ At(h, "nak")
  /\ Requeue(Msg(h)) \/ (May("dependency") /\ UNCHANGED queue)
  /\ Release(h)
  /\ UNCHANGED <<request, stored, record, settled, delivered>>

(* The replica dies, or Worker.stop cancels a job that exceeds the drain   *)
(* budget: CancelledError passes _handle, which sends neither ack nor nak. *)
WorkerCrash(h) ==
  /\ May("crash") /\ ~At(h, "fetch")
  /\ Release(h)
  /\ UNCHANGED <<request, stored, record, settled, queue, delivered>>

-----------------------------------------------------------------------------
ApiStep(j) ==
  Upload(j) \/ SubmitRecord(j) \/ Publish(j) \/ PublishAcked(j) \/ UndoUpload(j)

WorkerStep(h) ==
  \/ Terminate(h) \/ ReadRecord(h) \/ MarkProcessing(h) \/ GetInput(h) \/ Analyze(h)
  \/ Finish(h) \/ Ack(h) \/ Cleanup(h) \/ Nak(h)

Next ==
  \/ \E j \in Jobs : ApiStep(j) \/ ApiCrash(j) \/ ExpireRecord(j) \/ ExpireInput(j)
  \/ \E m \in Foreign : ForeignPublish(m)
  \/ \E m \in Msgs : AckWaitExpires(m) \/ ExpireMessage(m)
  \/ \E h \in Handlers : WorkerStep(h) \/ WorkerCrash(h) \/ \E m \in Msgs : Deliver(h, m)

Spec == Init /\ [][Next]_vars

(* The event loop runs every task that is ready, JetStream delivers to a   *)
(* waiting fetch, and its acknowledgement timer fires for a delivery that  *)
(* nobody works on. Faults are never due.                                  *)
FairSpec ==
  /\ Spec
  /\ \A j \in Jobs : WF_vars(ApiStep(j))
  /\ \A h \in Handlers : WF_vars(WorkerStep(h))
  /\ \A m \in Msgs : WF_vars(\E h \in Handlers : Deliver(h, m))
  /\ \A m \in Msgs : WF_vars(Holders(m) = {} /\ AckWaitExpires(m))

-----------------------------------------------------------------------------
(* Properties                                                              *)

(* "Persist before acknowledge" (worker.py:178): a message is off the work *)
(* queue by acknowledgement only if the outcome of its job was persisted,  *)
(* so no crash or failed write can lose a job together with its message.   *)
PersistBeforeAck == \A j \in Jobs : queue[j] = "acked" => j \in settled

(* The video of an accepted job stays in the object store until an outcome *)
(* is persisted, or the time to live of its message has passed: no retry,  *)
(* redelivery or crash can leave a job that fails as "input not found"     *)
(* although the client was told 202.                                       *)
InputKeptUntilSettled ==
  \A j \in Jobs :
    request[j] = "accepted" /\ j \notin settled /\ queue[j] # "expired" => stored[j]

(* A job the client was told about is in somebody's hands: until its       *)
(* outcome is persisted its message is still in the stream, or the time to *)
(* live of the stream has passed.                                          *)
AcceptedIsNotLost ==
  \A j \in Jobs : request[j] = "accepted" /\ j \notin settled =>
    queue[j] \in {"ready", "inflight", "exhausted"} \cup IF May("expiry") THEN {"expired"} ELSE {}

(* While handlers stay within job_ack_wait_s no two of them ever hold the  *)
(* same job, whatever crashes, naks, lost acknowledgements and redeliveries*)
(* happen in between.                                                      *)
OneHandlerPerJob ==
  \A h, i \in Handlers : Msg(h) = Msg(i) /\ Msg(h) # None => h = i

(* Once a job has succeeded or failed, its record says so for good         *)
(* (worker.py:7-8, handling is idempotent).                                *)
TerminalIsFinal ==
  [][\A j \in Jobs : record[j].status \in Terminal => record'[j] = record[j]]_record

(* The attempts shown to the client never go back.                         *)
AttemptsNeverDecrease ==
  [][\A j \in Jobs : record'[j].attempts >= record[j].attempts]_record

(* "Infrastructure errors are retried with back-off up to                  *)
(* EB_JOB_MAX_DELIVER, then failed" (ARCHITECTURE.md:97-98): a message that*)
(* will not be delivered again and that nobody works on has its outcome.   *)
ExhaustedIsFailed ==
  \A j \in Jobs : queue[j] = "exhausted" /\ Holders(j) = {} => j \in settled

(* A message is never redelivered for ever: it leaves the queue, or parks  *)
(* after max_deliver deliveries, and no handler keeps it.                  *)
Settles(m) == queue[m] \in {"absent", "exhausted", "acked", "expired"}
MessagesSettle ==
  \A m \in Msgs : <>[](Settles(m) /\ \A h \in Handlers : Msg(h) # m)

(* The client-visible life of a job. Whether a client that is gone would   *)
(* have been answered or not, its submission is open until it is undone.   *)
ClientView(r) ==
  IF r = "idle" THEN "none"
  ELSE IF r = "accepted" THEN "accepted"
  ELSE IF r \in {"rejected", "failed"} THEN "rejected"
  ELSE "open"

Lifecycle == INSTANCE JobLifecycle WITH
  request <- [j \in Jobs |-> ClientView(request[j])],
  status <- [j \in Jobs |-> record[j].status],
  input <- stored

ImplementsLifecycle == Lifecycle!Spec
=============================================================================
