# Verification of the eye-blink detection service

TLA+ models of the parts of `eye_blink` whose behaviour is hard to test: the asynchronous video
pipeline with the replicas that work on it, the inference service, the live stream in an API replica, and the blink
state machine. TLC checks them on small instances, and TLAPS
proves the safety properties for every value of the constants. Paths below are relative to the
repository (`eye_blink/...` is `src/eye_blink/...`).

## 1. The system

| Component | State it keeps | Operations | Hard behaviour |
|---|---|---|---|
| Asynchronous pipeline: `api/routes.py` (`submit_job`, `get_job`), `jobs.py`, `storage.py`, `worker.py` | the upload in the object store, the `JobRecord` in the KV bucket, the message in the JetStream work queue with its delivery count, what each worker loop is doing | submit, deliver, process, retry, finish, acknowledge, clean up | several loops and replicas; crashes and cancellations between any two calls; calls that fail after they took effect; redelivery; the acknowledgement deadline; the last delivery |
| Blink detector: `blink.py` | open closure, its peak, last sighting, counters | `update`, `finish` | boundaries of thresholds and durations; lost faces |
| Live stream session: `_run_stream` in `api/routes.py`, `StreamSession.process` | mailbox, wake-up event, outcome, deadline; the last time-stamp | reader task, pump, both on one event loop; a frame is decoded, stamped, analysed | lost wake-ups, outcomes found while the pump is busy, failing sends; frames that wait for a slow analysis |
| Rate limit: the token bucket in the reader | tokens, time of the last refill | one frame arrives | bursts, jitter, boundaries |
| Stream admission: `stream` in `api/routes.py`, `AppState` | `active_streams`, `shutting_down`, native landmarkers | admit, refuse, create, end, close | cancellation and failure at every await, cleanup order |
| Readiness: `readyz`, `AppState.storage_healthy`, the lifespan of `api/app.py` | the time until which the store counts as healthy | start, probe, shutdown | overlapping probes, slow checks, outages, a shutdown under a probe |
| Worker replica: `Worker.start/_loop/stop/healthy`, the lifespan of `worker.py` | loop tasks, the stop event | start, subscribe, fetch, drain, close | loops that die, a bounded drain that cancels handlers anywhere |
| Inference service: `service.py`, `LandmarkerPool` | free landmarkers, video slots | warm up, acquire, analyse, close | slot timeouts, tasks cancelled under their threads, closing what is in use |
| Video analysis: `video.py` | the temporary file, decoder and landmarker of one analysis, frame counters, timestamps | one pass over a file | failures between acquisitions, limits, frame selection |
| Configuration, authentication, middleware, metrics, schemas, CLI | none across requests | | |

How they interact: the API stores the upload, then the record, then publishes the message; a worker
loop fetches the message, reads and writes the record, reads the upload, has the video analysed (which
feeds the blink detector, in a thread that holds a video slot), writes the outcome, acknowledges, deletes the upload. A live session feeds
its own detector frame by frame; its reader and its pump share a single-slot mailbox and an event. The deployment starts,
probes, stops and replaces the replicas of both kinds.

## 2. The modules

| Module | Models | Theorems in |
|---|---|---|
| `JobLifecycle` | what the pipeline promises a client about one job: an abstract specification | |
| `JobPipeline` | the pipeline in full; `ImplementsLifecycle` states that it implements `JobLifecycle` | `JobPipelineProofs` |
| `WorkerReplica` | worker replicas around the loops of `JobPipeline`, which it extends and implements | `WorkerReplicaProofs` |
| `BlinkDetector` | `blink.py`, with a declarative definition of the expected events to compare with | `BlinkDetectorProofs` |
| `VideoAnalysis` | the users of `BlinkDetector`: a live session, and the frames of a video as `analyze_video` goes through them | `BlinkDetectorProofs` |
| `LiveStream` | `_run_stream` | `LiveStreamProofs` |
| `TokenBucket` | the rate limit of the reader | `TokenBucketProofs` |
| `SessionClock` | a session in time, around `TokenBucket`: mailbox, analysis, time-stamps | `TokenBucketProofs` |
| `StreamCapacity` | `stream` around `_run_stream` | `StreamCapacityProofs` |
| `ApiReplica` | an API replica around `StreamCapacity`: its lifespan and its readiness | `ApiReplicaProofs` |
| `InferenceService` | `service.py`, the pool of `landmarker.py`, the resources of `video.py` | `InferenceServiceProofs` |
| `MC...` | instances for TLC | |

Operators marked `mutation:` are not part of the models. Each is a plausible mistake in the definition
after it, kept to show that the properties notice it.

### JobPipeline

One step is the code between two awaits that reach another party, so every KV, JetStream and S3 call
is a step of its own: it may take effect, fail, or take effect and still raise (`PutFails`,
`PublishAcked`, `SendAck`). `request` is where `submit_job` is: *idle*, *uploaded* (after
`store.put`), *queuing* (after the record), *sent* (message in the stream), *undo* (in the `except`
clause), then *accepted*, *rejected*, or *lost* when the process dies or the task is cancelled before the `except` clause, which
a cancellation does not enter. The deletion in that clause is shielded (`asyncio.shield`): a request cancelled there leaves it
running (*undoing*) until it is done or the process dies (*failed*). For the client-visible `JobLifecycle` a submission is open until it is undone or given up.
`record` is the KV entry, `stored` the object, `queue` and `delivered` the message as JetStream keeps
it. `slot[h]` is a worker loop: where it is in `_process`, its message, its attempt
(`msg.metadata.num_delivered`), and the outcome it is about to persist. `settled` is a history variable:
the jobs whose outcome was ever persisted.

JetStream is external and modelled from the configuration in `jobs.py`: a work-queue stream with
`max_age`, and one durable consumer with explicit acknowledgement, `ack_wait` and `max_deliver`. An
acknowledgement of any delivery removes the message; a nak or the acknowledgement timer makes a pending
message deliverable again, or parks it (*exhausted*) once it has been delivered `max_deliver` times.
The delay of a nak is not modelled: a delayed message is one that is not delivered yet. Two limits are
left out because nothing here depends on them: `max_ack_pending` (32 with the defaults, above the
number of loops) and the duplicate window (each job id is published once). The lifecycle rule for `inputs/` that `ensure_bucket` sets is
`ExpireInput`. It counts whole days, `job_ttl_s` is an hour by default, and the model assumes that it is less than `expire_days`:
an input expires only when its message has gone, or was never published.

The constant `Faults` selects what the environment may do in an instance: *overrun* (a handler is still
busy when `job_ack_wait_s` is over), *crash* (a process dies or a task is cancelled), *publish* (a job message does not reach
the stream, or does and is not confirmed within 5 s), *dependency* (any other call fails), *expiry* (`job_ttl_s` passes, and later the lifetime of an input). Failures of the analysis itself are always possible.

### WorkerReplica

Each worker loop of `JobPipeline` belongs to a replica (`Home`). `phase[r]` is the lifespan of a worker
process: *down*, *up* (the bus is connected and `Worker.start` has made the tasks), *stopping* (SIGTERM has set the
stop event, `Worker.stop` waits for the loops), *closing* (the budget is over and what still ran is cancelled, or the
process has died). `Close` is the end of the lifespan: `gather` has seen every task end, and the bus is closed; the deployment
then starts a new process in its place. `loop[h]` is the task of a loop: it *subscribes*, *runs*, is *cancelled*, is *done*, or
*dead* when `pull_subscription` raised. Fetching and handling are steps of `JobPipeline`, each taken
together with what it means for the task: after a handler, and after a fetch that comes back empty, the loop looks at the stop event. A fetch
that waits when the event is set may still return one more message. A cancelled handler sends neither ack nor nak: `Cancel`
is `WorkerCrash`, at any point of the handler. A replica whose loops are dead stays up, as its liveness
probe asks for `/healthz`; `healthy` only reads. The history variables `cut` and `leftover` record the jobs whose
handler was cancelled in their last delivery, and between the outcome and the cleanup.

### BlinkDetector

Closures are whole numbers of a scale `0..Full` and times are milliseconds; the comparisons are those
of the code. `update` is split by its branches (`FaceLost`, `BadClosure`, `StillOpen`, `StillClosed`,
`Reopens`), and a timestamp that does not increase enables none of them: the code raises first. The
history variables `events`, `opened` and `frames` record what went in and out. `ExpectedEvents` says
what the events should be from the frames alone, without any of the detector's variables.

### VideoAnalysis

`stage` tells the detector of a live session, which takes any step of `BlinkDetector`, from the analysis of a video. There `film` is what
the frames decoded so far show, and `sampled` the frame last analysed. A frame is skipped as long as it is not `1 / video_analysis_fps`
after that one (`Due`), else stamped with its place in the film in whole milliseconds (`Stamp`). Rates are whole numbers, and
fractions exact; the tolerance of `1e-6` in the code is what makes floats behave like them. `EndOfVideo` finishes the
detector, `Abort` stands for everything that raises. `ShowsClosure` says from the film alone where somebody's eyes were closed.

### LiveStream, TokenBucket, StreamCapacity

Reader and pump run on one event loop: the code between two awaits is one step. Frames are numbered in
the order of arrival. The rate limit is a choice in `LiveStream` (a frame passes or does not) and exact in
`TokenBucket`, where tokens are thousandths of a frame and times milliseconds, so that the refill
`(now - last_refill) * fps` is a whole number; rounding of floats and fractional frame rates are
abstracted. `session.process` answers, raises an `AppError`, or raises something else. `_run_stream` as a
whole is the place *running* of `StreamCapacity`, which models what surrounds it: admission, the handshake, the `finally` clause,
and the threads in which the landmarker is made, used for a frame and closed. `threads[c]` are the calls at work for a connection,
whether or not its task still waits for them. `Call` is the moment at which `run_sync` is past its checkpoint and the thread
limiter. There are two kinds of cancellation. That of an anyio cancel scope (`ScopeCancel`) waits until a thread has returned, and the
shield of `routes.py:229` stops it. `Task.cancel` (`TaskCancel`), which uvicorn uses when `--timeout-graceful-shutdown` is over (`Dockerfile:73`), does neither: the
task leaves its `await` at once while the thread goes on, and in the `finally` clause `session.close` is not called at all if its thread
had not begun. The history `cut` records where such a cancellation met a connection; the exceptions that the properties name are
read off it. `shutting_down` may become true at any time in `StreamCapacity`; which sessions are still there then is up to the server.

### SessionClock

The same session, reduced to what takes time. The bucket's step for a frame (`Admit`, `DropFrame`) also
fills the mailbox; the pump takes the frame (`Take`), which is decoded after a time of `Decoding`, stamped
with `max(now, last_ts + 1)`, and answered after a time of `Analysing`. `clock` goes from event to event, never past one that is due
(`Quiet`). An analysis takes at least a millisecond, and then the stamp is always the time itself. Times count from the
start of the session; the reader and the session read their clocks a moment apart, which moves all stamps alike.

### ApiReplica

`lifespan` serves nothing before the service is built and the bus connected, and sets `shutting_down` first when it ends; the sessions are
those of `StreamCapacity`. A call of `readyz` reads the time and the cache (`Ask`); a miss awaits `head_bucket` in a
thread (`CheckBucket`) and fills the cache from the time it read before (`Conclude`, `Remember`). Time is counted in ages: `cacheLeft` is what is
left of the cache, `probe[p].age` how long ago a call read the time, `upAge` how long ago the bucket
was last reachable. The bucket comes and goes freely, several calls may overlap, and whether NATS is connected is a free choice of each.

### InferenceService

A request is a task of the event loop with a thread behind it. `task` is where the coroutine is
(`eye_state` or `analyze_video_bytes`): waiting for a video *slot*, about to *start* a thread, waiting for
its *thread*, or ended. `thread` is what the thread does next: *decode*, *borrow*, *analyze*, *giveBack*
for an image; *file*, *open*, *load*, *frames*, *release*, *unlink* for a video, each of which may fail.
The `finally` clauses and context managers are the steps a failure goes through on its way out. `held` is
what an analysis has open, `frames` the frames it has decoded, up to `max_video_frames`; the time budget
may end it at any frame.

From anyio and asyncio the model takes two facts. A thread needs a place in the thread limiter, which it
gives back when its *task* stops waiting for it. And a task that is cancelled (`Task.cancel`, as in
`Worker.stop`) stops waiting at once while its thread goes on, so the slot is given back
with the analysis still running. `phase` is the service's own: *building* until `WarmUp` (one inference on a borrowed landmarker),
*serving*, *drained* from the moment the tasks are cancelled, all of them together (`worker.py:85-86`), after
which no task takes a slot or a thread, and *closed* by `BlinkService.close`, which the lifespans call when no task is left and which
closes every landmarker of the pool, also one that the thread of a cancelled task still has. In production the API serves the images
and a worker the videos; the class allows both at a time, and so does the model.

## 3. What the runs show

| Run | Instance | Shows |
|---|---|---|
| `jobs_in_time` | 2 jobs, 2 loops, `max_deliver` 2, crash + publish + dependency | one handler per job; an outcome is final; attempts never go back; the pipeline implements `JobLifecycle` |
| `jobs_all_faults` | 1 job, 1 foreign message, 2 loops, `max_deliver` 2, all faults | persist before acknowledge; an accepted job keeps its input and its message until it has an outcome; every message leaves the queue or parks, and no handler keeps it |
| `jobs_rollout` | 1 job, 2 replicas with a loop each, `max_deliver` 3, a stop or death of each replica, subscriptions that fail, overrun + publish + crash of the API | when a replica has closed its bus none of its tasks is left; every published job gets its outcome, also when the API, told that the publish failed, deletes its input under the worker; every upload is deleted; but for the cases that `JobsSurviveRollout` and `UploadIsDeleted` name |
| `blink_analysis` | sessions: times 0..5, closures on a scale of 4 and one above; videos: 8 frames of 4 kinds, 5, 8 and 12 fps under caps of 5, 6 and 12 | events match `ExpectedEvents`; accounting, order, soundness; no closure of a film is lost with the frames that are skipped |
| `stream_session` | 4 frames, all faults | no lost or idle wake-up; newest frame next, once; nothing accepted is left behind; the session ends when its client or its reader is done, and after its deadline |
| `stream_clock` | 6 frames, 12 fps, gaps of 0, 20, 83, 84 and 1000 ms, decoding 0 or 30 ms, analysing 1 or 60 ms | the rate bound, and its converse: only excess is dropped; a frame is dealt with within two analyses of its reception; its stamp is late by less than that |
| `api_replica` | 2 connections, 1 slot, 2 probes, a cache of 2 ticks, checks of up to 1 tick, all faults | exact count; no landmarker leaks or is closed in use, and every session leaves, with the exceptions of `Task.cancel` that the properties name; *ready* is fresh, and a lasting outage is reported |
| `inference` | 2 images, 2 videos, 1 landmarker and slot, 2 threads, 2 frames | types; pool and slots are exact; never more analyses than slots; nothing is left behind; the pool is closed under nobody who waits; every request ends |

Four runs check a statement of the documentation and find a behaviour of the code against it:

| Run | Statement | What happens |
|---|---|---|
| `jobs_overrun` | redelivered terminal jobs are skipped (`worker.py:7-8`, `ARCHITECTURE.md:94`) | the check precedes the analysis; a handler that outlives `job_ack_wait_s` (30 s, against 300 s for `video_timeout_s`) overwrites the outcome persisted by a second one. It may also put a finished job back to *processing*, for good when its own attempt is then retried |
| `jobs_kv_outage` | infrastructure errors end as `failed_exhausted` (`ARCHITECTURE.md:97-98`) | a KV error is answered with a nak whatever the attempt: on the last delivery nothing is recorded |
| `blink_gap` | a closure is discarded when the face is lost for longer than `max_face_gap_ms` (`ARCHITECTURE.md:47`) | only if a frame *without* a face falls past the limit |
| `stream_too_big` | oversized frames end the session (`README.md:86`, `ARCHITECTURE.md:62`) | not when the pump is woken once for an undecodable frame and for the oversized one behind it: it answers the first with an error and waits, without looking at the outcome, for the maximum duration |

Where a statement of the documentation holds but for a few cases, the property names them, and each case is one the run reaches.

* What a drain leaves unfinished "is redelivered" (`RUNBOOK.md:95`, `worker.py:85`), but not on the last delivery: the
  message parks with its record in *processing* (`cut` in `JobsSurviveRollout`).
* `pull_subscription` is outside the `try` (`worker.py:90`): a loop that starts while NATS is away ends, and nothing restarts it.
  The replica goes on with the loops it has left; when all loops of all replicas end that way, jobs stay queued.
* Uploads are deleted after processing (`ARCHITECTURE.md:104`), except that of a request cancelled, with its process or alone, before its
  message was sent (`routes.py:156`; a cancellation is not an `Exception`), or whose process died in the deletion, and that of a
  handler cancelled between the outcome and the cleanup (`worker.py:144`; the redelivery is acknowledged as a duplicate). The lifecycle rule of the bucket removes those.
* A `pong` that raises kills the reader without a word (`routes.py:267`), and the session keeps its slot until the maximum
  duration: `EndIsNoticed` excepts this case, as it excepts that of `stream_too_big`.
* The native landmarker "cannot leak when a connection is torn down" (`ARCHITECTURE.md:62-63`), except when `Task.cancel`, which the anyio shield
  does not stop, meets the connection while a thread makes the landmarker (nobody gets it) or before a thread has begun to close it
  (`Abandoned` in `NoLandmarkerLeaks` and `AdmittedEnds`). Only `close()` counts as freeing a landmarker, not the garbage collector.
* A landmarker is never closed under an analysis, except when `Task.cancel` takes the task from the thread that analyses a frame: the `finally`
  clause then closes it there (`cut` in `NotClosedInUse`).
* The slot of a session is given back before its landmarker is closed (`routes.py:224`), so there can be more native landmarkers than
  `stream_max_sessions`, by which ADR 0002 bounds them. No bound is stated of them, as the code has none; `SessionsBounded` is one of the sessions.
* Timestamps are "the server's receive time" (`ARCHITECTURE.md:54`) up to the lag that `StampLag` bounds: a frame is stamped when it has been
  decoded, after it may have waited for the one before it.

**Bounds.** Jobs do not interact except through the loops that serve them, so two jobs and two loops show
every sharing of loops, and one job with two loops every race on a job: a stale handler and a
current one. `max_deliver` of 2 and 3 has first, middle and last deliveries; 3 is used with the replicas, so that a job can survive
the stops of both, each at any point of a handler. Six frames
fit a closure, a break, another closure and an event of each kind. Eight frames of a video fit a closure with two of every three frames
skipped, seen from before its beginning to after its end; the rates and caps divide each other or not, and times are cut to whole units. Four stream frames fill the mailbox
while one frame is analysed, another answered. Six frames at 12 fps empty the bucket (its burst is 2.4 frames) and see it
refill, and two of them pass while a third is analysed. Two connections for one slot refuse, release and admit again, and with two probes one can end its check after the other
began; a cache of two ticks is used, ages, and would be prolonged by a hit if hits did that. A check that takes longer than the cache lasts is left to the proof. With one landmarker, one slot and two of each kind of request there is competition for each, and with two threads
a thread can be short; two frames reach the frame limit. Terminal
states are legal everywhere: jobs finish, sessions return and the bounded
environments stop, so deadlock is not checked.

**Symmetry** (of jobs and of loops) is used in `jobs_in_time` only, which has no liveness property.

**Fairness.** In `JobPipeline`: a task of the event loop that can run does run, each handler and each
request on its own (weak fairness of `WorkerStep(h)` and `ApiStep(j)`); a ready message is delivered to
some loop that fetches; the acknowledgement timer fires for a delivery nobody works on. In
`LiveStream`: the pump runs, and the reader notices a disconnect; no frame, timeout or deadline is ever
due. In `WorkerReplica` the same as in `JobPipeline`, for loops that run; in addition a replica that ended is started again, which
is what the deployment is for, the drain budget ends (`asyncio.wait` has a timeout), and a cancelled task ends. Stops and deaths are never due. In `StreamCapacity` and
`ApiReplica`: handlers run, threads return, and a session ends between two of its frames (strong fairness, as it can end only while no frame is
analysed), which `LiveStream` justifies (`DeadlineEndsSession`); time passes, and a check
returns; probes, outages and the shutdown are never due. In `InferenceService`: tasks that can run do, and the calls of a thread return, so it
reaches its next step; requests, failures and cancellations are never due. Faults are never fair.

## 4. What is proved

All of it for every value of the constants, under the assumptions named in the modules.

* **JobPipeline.** `TypeCorrect`; under *all* faults `PersistBeforeAckHolds`, `InputKeptHolds`,
  `AcceptedIsNotLostHolds`. Their invariants strengthen the properties with what the handlers know: a
  handler about to acknowledge works on a settled job; an upload is deleted only after the outcome or
  by an undone request; a job that is past publication has its message in the stream. With `InTime` (no
  overruns) `OneHandlerPerJobHolds`: a message has a holder only while it is in flight, and only the
  holder of its last delivery. With `InTime` and `Unexpired` also `TerminalIsFinalHolds`,
  `AttemptsNeverDecreaseHolds` and `ImplementsLifecycleHolds`: while a handler works on a job past its
  first read, the record says what the handler last wrote, so each write moves the record forward, and
  each step is a step of `JobLifecycle` or leaves the client's view alone. `AcceptedIsTrackedHolds` reads off what
  a polling client gets: it finds its job, and as long as it finds no outcome the video and the message are there. It needs
  `SettledIsOnRecord`, that an outcome once persisted is still on record. `jobs_overrun` shows that `InTime` is needed.
  With `Undisturbed` (no crashes and no dependency errors, while handlers may overrun and jobs expire)
  `ExhaustedIsFailedHolds` is the statement that `jobs_kv_outage` refutes; the invariant `LastConcludes` follows
  the last delivery: nobody answers it with a nak, so its handler still has it or the outcome is persisted.
  `InputDeletedHolds`, under the same assumption, says that the video of a settled job is deleted or about to be; it
  needs `SettledWasUploaded`, as an upload after the cleanup would stay.
* **WorkerReplica.** `ImplementsPipelineHolds`, the refinement lemma: each step of a replica is a step of `JobPipeline` or leaves it alone, so
  `RolloutKeepsJobs` carries the safety theorems over to any rollout. `ReplicaTypeCorrect` and `DrainLeavesNobodyHolds`
  rest on `ReplicaInv`: a task that is not running its handler's message has none, and a replica that is down has only ended tasks.
  Without overruns `RolloutKeepsOneHandler`, and without expiry too `RolloutKeepsPromises`: outcomes, attempts and
  `JobLifecycle` survive any sequence of drains, deaths and restarts.
* **BlinkDetector.** `TypeCorrect`, `AccountedHolds`, `EventsOrderedHolds`, `EventsSoundHolds`.
  The invariant adds that an open closure began at a closing peak no later than the last frame, and that all events
  ended by then. `MatchesReferenceHolds`: the set of events is that of `ExpectedEvents`, for every history; that none is emitted twice and
  all are in order is `EventsOrderedHolds`. No induction over
  the history is needed, because the invariant `HistoryInv` says what the detector's few variables know of it: `lastSeen` is the time of
  the last frame with a face (`LastFace`), and the detector is closed exactly while a closure of the history is not over, with its
  beginning and its peak (`OpenClosure`). One more frame then ends that closure, lets it go on, or breaks it, and changes
  nothing about the frames before. `GapsToleratedHolds` is what is true of the statement that `blink_gap` refutes: no
  event spans a frame *without* a face past `max_face_gap_ms`. It adds that frames are in the order of their times (`InOrder`).
* **VideoAnalysis.** `VideoEventsHold` and `VideoMatchesReference`: the same properties for every video, frame rate and cap.
  `ClosureIsReportedHolds`: frames that a cap skips never hide a closure that the film shows long enough. Its invariant (`FilmInv`)
  follows a closure through the film: less than `Stride` frames have passed since the last one analysed (`Dense`), which decides whether the
  detector is open or closed (`Follows`); a closure that the film is in was opened at most that many frames late (`InClosure`), and one
  that it has left is still open or is an event with nearly its times (`AfterClosure`). `FrameTimesHold`: a frame is
  stamped with its own time, as no two frames fall into one millisecond at the rates `probe` accepts, so `last_ts + 1` is never used.
* **LiveStream.** `TypeCorrect`, `WaitingFrameWakesHolds`, `DrainedBeforeReturnHolds`,
  `NewestFrameNextHolds`. The invariant (`Mailbox`) says that the mailbox holds the last accepted frame or
  nothing, and that a waiting frame always has the event set, also while the pump is busy. `EndIsFinalHolds`: the reader's reason
  stays, and nothing happens once the pump has left. `OutcomeWakesHolds`: without undecodable frames a pump never
  waits unwoken for a session that is over, so the path of `stream_too_big` (an error answered with `continue`) is the only one that does.
* **StreamCapacity.** `TypeCorrect`, `CountIsExactHolds`, `SessionsBoundedHolds`, `NoLandmarkerLeaksHolds`, `NotClosedInUseHolds`. The invariant (`ThreadInv`)
  says of each connection which threads it can have at each place, and that a thread at work without its task, or a landmarker without both, has
  its cancellation in `cut`. `CleanWithoutTaskCancelHolds`: where `Task.cancel` does not happen nothing is excepted, whatever fails and whatever scope is cancelled.
* **ApiReplica.** `SessionsOfReplica` (each step is one of `StreamCapacity` or leaves it alone, so the theorems above hold of a
  replica, `ReplicaKeepsSessions`), `ReplicaTypeCorrect`, and `ReadyIsFreshHolds`. The invariant (`CacheInv`) says that what is left of the cache and the
  age of the last success together never exceed its life, and that a check that was answered began no later than that success.
* **InferenceService.** `TypeCorrect`, `PoolExactHolds`, `SlotsExactHolds`, `AnalysesBoundedHolds`,
  `NothingLeftBehindHolds`, `ClosedUnderNobodyHolds`. The invariant (`ServiceInv`) says that a landmarker is lent exactly while its one
  borrower uses it (`Lending`), what is open at each place of an analysis (`Opened`), and that until the tasks
  are cancelled every working thread has a task that waits for it (`Started`), hence a slot; afterwards the
  set of working threads only shrinks, and those with nobody waiting belong to cancelled tasks.
* **TokenBucket.** `TypeCorrect`, `RateBoundedHolds`, `OnlyExcessDroppedHolds`. The invariant relates the
  tokens to every window of admitted frames: they never exceed what the allowance of the window
  leaves (`NeverOver`), and equal it for some window unless the bucket is full (`Tight`).
* **SessionClock.** `BucketOfSession` (each step is one of `TokenBucket` or leaves it alone), `ClockTypeCorrect`,
  hence `SessionKeepsRate`, `LatencyBoundedHolds`, `StampLagHolds`. The invariant (`ClockInv`) says when the frame in hand was begun: no later than one
  analysis after it was received, and before any frame that now waits was received (`Busy`).

**The safety behind the liveness.** Liveness rests on fairness, which is out of the prover's reach. What is proved is why nothing can go
on for ever: that fair steps come to an end is a fact about steps, and holds under every fault but where the table says otherwise.

| Liveness property | Proved of every step |
|---|---|
| `MessagesSettle` | `HandlersMoveOnHolds`: a handler comes nearer to its next fetch or uses up one of the `max_deliver` deliveries of a message, which nothing gives back. `GoneIsGoneHolds`: what is acknowledged, expired or parked is never delivered again |
| `UploadIsDeleted` | `InputDeletedHolds`, without crashes and dependency errors |
| `DeadlineEndsSession` | `DeadlineIsNearHolds`: after the deadline the pump makes three steps at most |
| `OutageIsReported` | `OutageBoundedHolds`: no probe is answered *ready* once the bucket is away for the time to live and longer than the slowest check |
| `RequestsEnd` | `RequestsGoOnHolds`: a task or a thread comes nearer to its end, starts its one analysis, or decodes one of `max_video_frames` |

Types are proved for every module and checked in `inference` too. `SessionsBounded`, `CleanWithoutTaskCancel` and the properties that the proof modules define
themselves (`AcceptedIsTracked`, `GapsTolerated`, the variants of the table) are proved only.

Only model-checked: the liveness properties, `MessagesSettle`, `JobsSurviveRollout`, `UploadIsDeleted`, `EndIsNoticed`,
`DeadlineEndsSession`, `AdmittedEnds`, `OutageIsReported` and `RequestsEnd`. That the variants above make them true is the
argument from fairness, which TLC checks on the instances. `JobsSurviveRollout` and `EndIsNoticed` have no variant here: they depend
on what the environment does next (a deployment that starts replicas again, a client that disconnects).

## 5. What is not modelled, and the plan

The order of what is next, most important first:

1. The composition of `JobPipeline` with `InferenceService`, whose `OverloadedError` costs a job one of its deliveries, and
   of `StreamCapacity` with `LiveStream`: a session as an abstract one-step `_run_stream`, which `LiveStream` implements.
2. A consumer that keeps its `ack_wait` and `max_deliver` when the settings change (`jobs.py:233`), with the provisioning of stream and
   bucket at the start of each process.

Not planned: pixels, that is decoding and landmarks (OpenCV, MediaPipe, arithmetic on pixels), the
rates that are computed from a finished analysis, configuration parsing, authentication,
middleware, metrics, schemas, CLI, deployment. They keep no state between
requests, or nothing reads it back.

## 6. Running

`tlc -config <run>.cfg <module>`, with `MCJobPipeline` for `jobs_in_time`, `jobs_all_faults`, `jobs_overrun` and `jobs_kv_outage`,
`MCWorkerReplica` for `jobs_rollout`, `MCVideoAnalysis` for `blink_analysis`, `MCBlinkDetector` for `blink_gap`, `MCLiveStream` for `stream_session` and `stream_too_big`,
`MCSessionClock` for `stream_clock`, `MCApiReplica` for `api_replica`, `MCInferenceService` for `inference`; and
`tlapm <Module>Proofs.tla`. `PROJECT.json` lists the runs, the lines
each definition models, the mutations, the findings and the hazards of the code.
