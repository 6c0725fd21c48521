---------------------------- MODULE JobLifecycle ----------------------------
(***************************************************************************)
(* What the asynchronous pipeline promises a client about one job: the     *)
(* status behind GET /v1/jobs/{id} only moves forward, a request is        *)
(* accepted only once the job is on record, and the uploaded video is kept *)
(* until the outcome is on record or the submission has failed.            *)
(* JobPipeline implements this specification as long as no handler outlives*)
(* the acknowledgement deadline and no record reaches its time to live.    *)
(***************************************************************************)
CONSTANT Jobs

VARIABLES
  request,  \* the submission: open until it is accepted, or undone or given up
  status,   \* JobStatus of the record, "none" when there is no record
  input     \* TRUE while the uploaded video is in the object store

vars == <<request, status, input>>

Outcomes == {"succeeded", "failed"}

Init ==
  /\ request = [j \in Jobs |-> "none"]
  /\ status = [j \in Jobs |-> "none"]
  /\ input = [j \in Jobs |-> FALSE]

Set(f, j, v) == [f EXCEPT ![j] = v]

(* The upload is stored and the call goes on, or the upload itself fails.  *)
Open(j) ==
  /\ request[j] = "none"
  /\ \/ request' = Set(request, j, "open") /\ input' = Set(input, j, TRUE)
     \/ request' = Set(request, j, "rejected") /\ \E b \in BOOLEAN : input' = Set(input, j, b)
  /\ UNCHANGED status

Queue(j) ==
  /\ request[j] = "open" /\ status[j] = "none"
  /\ status' = Set(status, j, "queued")
  /\ UNCHANGED <<request, input>>

Accept(j) ==
  /\ request[j] = "open" /\ status[j] # "none"
  /\ request' = Set(request, j, "accepted")
  /\ UNCHANGED <<status, input>>

Reject(j) ==
  /\ request[j] = "open"
  /\ request' = Set(request, j, "rejected")
  /\ \E b \in BOOLEAN : input' = Set(input, j, b /\ input[j])
  /\ UNCHANGED status

Start(j) ==
  /\ status[j] = "queued"
  /\ status' = Set(status, j, "processing")
  /\ UNCHANGED <<request, input>>

Finish(j) ==
  /\ status[j] = "processing"
  /\ \E s \in Outcomes : status' = Set(status, j, s)
  /\ UNCHANGED <<request, input>>

DropInput(j) ==
  /\ status[j] \in Outcomes
  /\ input' = Set(input, j, FALSE)
  /\ UNCHANGED <<request, status>>

Next ==
  \E j \in Jobs :
    Open(j) \/ Queue(j) \/ Accept(j) \/ Reject(j) \/ Start(j) \/ Finish(j) \/ DropInput(j)

Spec == Init /\ [][Next]_vars
=============================================================================
