-------------------------- MODULE InferenceService --------------------------
(***************************************************************************)
(* BlinkService (service.py) with its LandmarkerPool (landmarker.py) and   *)
(* the resources of a video analysis (video.py). A request is a task of the*)
(* event loop that has a thread do the work. A cancelled task stops waiting*)
(* for its thread; the thread goes on. The API serves images, a worker     *)
(* videos; the class serves both.                                          *)
(***************************************************************************)
EXTENDS Integers, FiniteSets

CONSTANTS
  Images, Videos,  \* requests: eye_state and analyze_video_bytes
  Landmarkers,     \* the pool; there are as many video slots (max_concurrent_inference)
  Threads,         \* capacity of the thread limiter
  MaxVideoFrames,  \* max_video_frames
  None             \* no landmarker

Requests == Images \cup Videos

ASSUME RequestAssumption == Images \cap Videos = {} /\ IsFiniteSet(Requests)
ASSUME PoolAssumption == IsFiniteSet(Landmarkers) /\ None \notin Landmarkers
ASSUME LimitAssumption == Threads \in Nat \ {0} /\ MaxVideoFrames \in Nat \ {0}

VARIABLES
  task,    \* where the task of a request is
  thread,  \* what its thread is about to do
  result,  \* what the thread has come to
  free,    \* LandmarkerPool._free
  lent,    \* the landmarker a thread has borrowed
  slots,   \* the value of the semaphore _video_slots
  held,    \* what an analysis has open
  frames,  \* frames it has decoded
  phase    \* of the service: "drained" once the server cancels the requests' tasks

vars == <<task, thread, result, free, lent, slots, held, frames, phase>>

Results == {"ok", "failed", "overloaded"}
Ended == Results \cup {"cancelled"}
Holding == {"start", "thread"}
TaskPoints == {"new", "slot"} \cup Holding \cup Ended
ThreadPoints ==
  {"off", "decode", "borrow", "analyze", "giveBack", "file", "open", "load", "frames", "release",
   "unlink"}

TypeOK ==
  /\ task \in [Requests -> TaskPoints]
  /\ thread \in [Requests -> ThreadPoints]
  /\ result \in [Requests -> Results]
  /\ free \subseteq Landmarkers
  /\ lent \in [Requests -> Landmarkers \cup {None}]
  /\ slots \in 0..Cardinality(Landmarkers)
  /\ held \in [Requests -> SUBSET {"file", "capture", "landmarker"}]
  /\ frames \in [Requests -> 0..MaxVideoFrames]
  /\ phase \in {"building", "serving", "drained", "closed"}

Init ==
  /\ task = [r \in Requests |-> "new"] /\ thread = [r \in Requests |-> "off"]
  /\ result = [r \in Requests |-> "ok"]
  /\ free = Landmarkers /\ lent = [r \in Requests |-> None]
  /\ slots = Cardinality(Landmarkers)
  /\ held = [r \in Requests |-> {}] /\ frames = [r \in Requests |-> 0]
  /\ phase = "building"

-----------------------------------------------------------------------------
(* The task                                                                *)

drained == phase \in {"drained", "closed"}
TaskAt(r, p) == task[r] = p
TaskGoto(r, p) == task' = [task EXCEPT ![r] = p]
threadSide == <<thread, result, free, lent, held, frames>>

StartImage(r) ==
  /\ r \in Images /\ TaskAt(r, "new") /\ phase = "serving" /\ TaskGoto(r, "start")
  /\ UNCHANGED <<slots, phase, threadSide>>

StartVideo(r) ==
  /\ r \in Videos /\ TaskAt(r, "new") /\ phase = "serving" /\ TaskGoto(r, "slot")
  /\ UNCHANGED <<slots, phase, threadSide>>

(* The tasks are cancelled at one time, so nobody gets a slot after that.  *)
AcquireSlot(r) ==
  /\ TaskAt(r, "slot") /\ slots > 0 /\ ~drained
  /\ slots' = slots - 1 /\ TaskGoto(r, "start")
  /\ UNCHANGED <<phase, threadSide>>

SlotTimesOutIgnored(r) ==  \* mutation: a TimeoutError is swallowed
  /\ TaskAt(r, "slot") /\ TaskGoto(r, "start")
  /\ UNCHANGED <<slots, phase, threadSide>>

(* wait_for gives up after inference_queue_timeout_s.                      *)
SlotTimesOut(r) ==
  /\ TaskAt(r, "slot") /\ TaskGoto(r, "overloaded")
  /\ UNCHANGED <<slots, phase, threadSide>>

Busy == {r \in Requests : task[r] = "thread"}

StartThread(r) ==
  /\ TaskAt(r, "start") /\ Cardinality(Busy) < Threads /\ ~drained
  /\ TaskGoto(r, "thread")
  /\ thread' = [thread EXCEPT ![r] = IF r \in Images THEN "decode" ELSE "file"]
  /\ UNCHANGED <<slots, result, free, lent, held, frames, phase>>

LeaveWithSlot(r, p) ==  \* mutation: the slot is given back by successful analyses only
  /\ TaskGoto(r, p)
  /\ slots' = IF r \in Videos /\ p = "ok" THEN slots + 1 ELSE slots

(* The `finally` clause gives the slot back.                               *)
Leave(r, p) ==
  /\ TaskGoto(r, p)
  /\ slots' = IF r \in Videos /\ task[r] \in Holding THEN slots + 1 ELSE slots

Return(r) ==
  /\ TaskAt(r, "thread") /\ thread[r] = "off" /\ Leave(r, result[r])
  /\ UNCHANGED <<phase, threadSide>>

Cancel(r) ==
  /\ drained /\ task[r] \in {"slot"} \cup Holding /\ Leave(r, "cancelled")
  /\ UNCHANGED <<phase, threadSide>>

(* build_service: one inference on a landmarker, borrowed and given back,  *)
(* before anything is served.                                              *)
WarmUp ==
  /\ phase = "building" /\ phase' = "serving"
  /\ UNCHANGED <<task, slots, threadSide>>

(* Worker.stop after its drain budget, or the server's own limit.          *)
DrainEnds ==
  /\ phase = "serving" /\ phase' = "drained"
  /\ UNCHANGED <<task, slots, threadSide>>

Waiting == {r \in Requests : task[r] \notin {"new"} \cup Ended}

CloseEarly ==  \* mutation: the requests' tasks are not awaited
  /\ phase = "drained" /\ phase' = "closed"
  /\ UNCHANGED <<task, slots, threadSide>>

(* The lifespan ends with BlinkService.close: every landmarker is closed,  *)
(* also one that a thread has borrowed.                                    *)
Close ==
  /\ phase = "drained" /\ Waiting = {} /\ phase' = "closed"
  /\ UNCHANGED <<task, slots, threadSide>>

-----------------------------------------------------------------------------
(* The thread                                                              *)

ThreadAt(r, p) == thread[r] = p
ThreadGoto(r, p) == thread' = [thread EXCEPT ![r] = p] /\ UNCHANGED result
EndsWith(r, p, o) == thread' = [thread EXCEPT ![r] = p] /\ result' = [result EXCEPT ![r] = o]
taskSide == <<task, slots, phase>>

Decode(r) ==
  /\ ThreadAt(r, "decode")
  /\ ThreadGoto(r, "borrow") \/ EndsWith(r, "off", "failed")
  /\ UNCHANGED <<taskSide, free, lent, held, frames>>

(* LandmarkerPool.acquire: the first landmarker that is free, or           *)
(* queue.Empty after inference_queue_timeout_s.                            *)
Borrow(r) ==
  /\ ThreadAt(r, "borrow")
  /\ \/ \E l \in free :
          /\ free' = free \ {l} /\ lent' = [lent EXCEPT ![r] = l] /\ ThreadGoto(r, "analyze")
     \/ free = {} /\ EndsWith(r, "off", "overloaded") /\ UNCHANGED <<free, lent>>
  /\ UNCHANGED <<taskSide, held, frames>>

AnalyzeUnguarded(r) ==  \* mutation: `try`/`finally` around the yield are missing
  /\ ThreadAt(r, "analyze")
  /\ EndsWith(r, "giveBack", "ok") \/ EndsWith(r, "off", "failed")
  /\ UNCHANGED <<taskSide, free, lent, held, frames>>

Analyze(r) ==
  /\ ThreadAt(r, "analyze")
  /\ EndsWith(r, "giveBack", "ok") \/ EndsWith(r, "giveBack", "failed")
  /\ UNCHANGED <<taskSide, free, lent, held, frames>>

GiveBack(r) ==
  /\ ThreadAt(r, "giveBack") /\ ThreadGoto(r, "off")
  /\ free' = free \cup {lent[r]} /\ lent' = [lent EXCEPT ![r] = None]
  /\ UNCHANGED <<taskSide, held, frames>>

poolSide == <<free, lent>>
Opens(r, what) == held' = [held EXCEPT ![r] = @ \cup {what}]

(* An unknown container, or a file that cannot be written: it is removed.  *)
WriteFile(r) ==
  /\ ThreadAt(r, "file")
  /\ \/ ThreadGoto(r, "open") /\ Opens(r, "file")
     \/ EndsWith(r, "off", "failed") /\ UNCHANGED held
  /\ UNCHANGED <<taskSide, poolSide, frames>>

(* probe() checks the header.                                              *)
OpenVideo(r) ==
  /\ ThreadAt(r, "open") /\ Opens(r, "capture")
  /\ ThreadGoto(r, "load") \/ EndsWith(r, "release", "failed")
  /\ UNCHANGED <<taskSide, poolSide, frames>>

LoadModelFirst(r) ==  \* mutation: the model is loaded before the `try`
  /\ ThreadAt(r, "load")
  /\ \/ ThreadGoto(r, "frames") /\ Opens(r, "landmarker")
     \/ EndsWith(r, "unlink", "failed") /\ UNCHANGED held
  /\ UNCHANGED <<taskSide, poolSide, frames>>

LoadModel(r) ==
  /\ ThreadAt(r, "load")
  /\ \/ ThreadGoto(r, "frames") /\ Opens(r, "landmarker")
     \/ EndsWith(r, "release", "failed") /\ UNCHANGED held
  /\ UNCHANGED <<taskSide, poolSide, frames>>

ReadFrameInARow(r) ==  \* mutation: counts the frames skipped since the last one analysed
  /\ ThreadAt(r, "frames")
  /\ \/ /\ frames[r] < MaxVideoFrames /\ ThreadGoto(r, "frames")
        /\ \E n \in {0, frames[r] + 1} : frames' = [frames EXCEPT ![r] = n]
     \/ EndsWith(r, "release", "failed") /\ UNCHANGED frames
     \/ frames[r] > 0 /\ EndsWith(r, "release", "ok") /\ UNCHANGED frames
  /\ UNCHANGED <<taskSide, poolSide, held>>

ReadFrameTooMany(r) ==  \* mutation: `>` for `>=` in the frame limit
  /\ ThreadAt(r, "frames")
  /\ \/ /\ frames[r] <= MaxVideoFrames /\ ThreadGoto(r, "frames")
        /\ frames' = [frames EXCEPT ![r] = @ + 1]
     \/ EndsWith(r, "release", "failed") /\ UNCHANGED frames
     \/ frames[r] > 0 /\ EndsWith(r, "release", "ok") /\ UNCHANGED frames
  /\ UNCHANGED <<taskSide, poolSide, held>>

(* A frame is skipped or analysed; the frame limit, the time budget, a     *)
(* large frame or the analysis raise; or the video ends, which is an error *)
(* for an empty one.                                                       *)
ReadFrame(r) ==
  /\ ThreadAt(r, "frames")
  /\ \/ /\ frames[r] < MaxVideoFrames /\ ThreadGoto(r, "frames")
        /\ frames' = [frames EXCEPT ![r] = @ + 1]
     \/ EndsWith(r, "release", "failed") /\ UNCHANGED frames
     \/ frames[r] > 0 /\ EndsWith(r, "release", "ok") /\ UNCHANGED frames
  /\ UNCHANGED <<taskSide, poolSide, held>>

(* The `finally` clauses, inside out.                                      *)
Release(r) ==
  /\ ThreadAt(r, "release") /\ ThreadGoto(r, "unlink")
  /\ held' = [held EXCEPT ![r] = @ \ {"capture", "landmarker"}]
  /\ UNCHANGED <<taskSide, poolSide, frames>>

Unlink(r) ==
  /\ ThreadAt(r, "unlink") /\ ThreadGoto(r, "off")
  /\ held' = [held EXCEPT ![r] = @ \ {"file"}]
  /\ UNCHANGED <<taskSide, poolSide, frames>>

-----------------------------------------------------------------------------
TaskStep(r) == AcquireSlot(r) \/ SlotTimesOut(r) \/ StartThread(r) \/ Return(r) \/ Cancel(r)

ThreadStep(r) ==
  \/ Decode(r) \/ Borrow(r) \/ Analyze(r) \/ GiveBack(r)
  \/ WriteFile(r) \/ OpenVideo(r) \/ LoadModel(r) \/ ReadFrame(r) \/ Release(r) \/ Unlink(r)

Next ==
  \/ WarmUp \/ DrainEnds \/ Close
  \/ \E r \in Requests : StartImage(r) \/ StartVideo(r) \/ TaskStep(r) \/ ThreadStep(r)

Spec == Init /\ [][Next]_vars

(* Tasks that are ready run, and every call of a thread returns.           *)
FairSpec == Spec /\ \A r \in Requests : WF_vars(TaskStep(r)) /\ WF_vars(ThreadStep(r))

-----------------------------------------------------------------------------
(* Properties                                                              *)

Borrowers(l) == {r \in Requests : lent[r] = l /\ thread[r] \in {"analyze", "giveBack"}}

(* Landmarkers are not thread-safe (landmarker.py:111): each is free or in *)
(* the hands of one thread, and none is lost when an analysis raises, a    *)
(* request times out, or its task is cancelled under the thread.           *)
PoolExact ==
  \A l \in Landmarkers : IF l \in free THEN Borrowers(l) = {} ELSE Cardinality(Borrowers(l)) = 1

(* A landmarker is closed under a thread that uses it only when nobody is  *)
(* waiting for what that thread finds: no answer comes from a closed pool. *)
ClosedUnderNobody ==
  phase = "closed" => \A r \in Requests : thread[r] # "off" => task[r] = "cancelled"

SlotHolders == {r \in Videos : task[r] \in Holding}

(* A video slot is given back once on every path.                          *)
SlotsExact == slots + Cardinality(SlotHolders) = Cardinality(Landmarkers)

(* There are never more analyses at work than slots, although a cancelled  *)
(* task gives its slot back while its thread goes on.                      *)
AnalysesBounded == Cardinality({r \in Videos : thread[r] # "off"}) <= Cardinality(Landmarkers)

(* "A private temporary file that is always removed" (video.py:8): whatever*)
(* step fails, no analysis leaves its file, decoder or landmarker behind.  *)
NothingLeftBehind == \A r \in Videos : thread[r] = "off" => held[r] = {}

(* Every request is answered: threads, slots and landmarkers are waited for*)
(* in an order that cannot close a circle, and the frame limit ends every  *)
(* video ("runtime limits that do not trust the header", ARCHITECTURE.md:73)*)
RequestsEnd == \A r \in Requests : task[r] # "new" ~> task[r] \in Ended
=============================================================================
