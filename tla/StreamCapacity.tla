--------------------------- MODULE StreamCapacity ---------------------------
(***************************************************************************)
(* The admission of live sessions: stream() of api/routes.py around        *)
(* _run_stream, which LiveStream models. Every connection is a task of the *)
(* event loop; the code between two awaits is one step. The landmarker of a*)
(* session is made, used and closed in threads that the task awaits.       *)
(***************************************************************************)
EXTENDS Integers, FiniteSets

CONSTANTS
  Connections,  \* WebSocket connections, in the life of one replica
  MaxSessions,  \* stream_max_sessions
  Faults        \* what may happen to a connection, see FaultKinds

FaultKinds ==
  { "handshake",   \* accept() or the session raises, the landmarker does not load
    "scope",       \* an anyio cancel scope around the task is cancelled
    "cancel" }     \* Task.cancel, as by the server when its graceful shutdown times out

ASSUME ConnectionsAssumption == IsFiniteSet(Connections)
ASSUME CapacityAssumption == MaxSessions \in Nat \ {0} /\ Faults \subseteq FaultKinds

VARIABLES
  task,          \* where the handler of a connection is
  threads,       \* what threads do for it, whether or not it still waits for them
  activeStreams, \* AppState.active_streams
  shuttingDown,  \* AppState.shutting_down
  landmarker,    \* the native landmarker made for a connection
  cut            \* history: where Task.cancel met a connection and a thread of it

vars == <<task, threads, activeStreams, shuttingDown, landmarker, cut>>

Counted == {"accepting", "creating", "running"}
Calls == {"make", "analyse", "close"}
Landmarkers == {"none", "open", "closed"}
Points == {"new", "closing", "gone"} \cup Counted

TypeOK ==
  /\ task \in [Connections -> Points]
  /\ threads \in [Connections -> SUBSET Calls]
  /\ activeStreams \in 0..MaxSessions
  /\ shuttingDown \in BOOLEAN
  /\ landmarker \in [Connections -> Landmarkers]
  /\ cut \in [Connections -> SUBSET {"creating", "running", "closing"}]

Init ==
  /\ task = [c \in Connections |-> "new"]
  /\ threads = [c \in Connections |-> {}]
  /\ activeStreams = 0 /\ shuttingDown = FALSE
  /\ landmarker = [c \in Connections |-> "none"]
  /\ cut = [c \in Connections |-> {}]

May(fault) == fault \in Faults
At(c, p) == task[c] = p
Goto(c, p) == task' = [task EXCEPT ![c] = p]
Becomes(c, s) == landmarker' = [landmarker EXCEPT ![c] = s]
NoThread(c) == threads[c] = {}

native == <<threads, landmarker, cut>>
AtCapacity == shuttingDown \/ activeStreams >= MaxSessions

-----------------------------------------------------------------------------
(* The handshake                                                           *)

(* authenticate_websocket fails: close with 1008.                          *)
Unauthorized(c) ==
  /\ At(c, "new") /\ Goto(c, "gone")
  /\ UNCHANGED <<activeStreams, shuttingDown, native>>

(* Over the limit: accept, then close with 1013.                           *)
Refuse(c) ==
  /\ At(c, "new") /\ AtCapacity /\ Goto(c, "gone")
  /\ UNCHANGED <<activeStreams, shuttingDown, native>>

(* The check and the increment have no await between them.                 *)
Admit(c) ==
  /\ At(c, "new") /\ ~AtCapacity
  /\ activeStreams' = activeStreams + 1 /\ Goto(c, "accepting")
  /\ UNCHANGED <<shuttingDown, native>>

Accept(c) ==
  /\ At(c, "accepting") /\ Goto(c, "creating")
  /\ UNCHANGED <<activeStreams, shuttingDown, native>>

-----------------------------------------------------------------------------
(* The threads: new_stream_session, session.process and session.close, each*)
(* awaited by the task with anyio.to_thread.run_sync.                      *)

CallAt(p) ==
  IF p = "creating" THEN "make" ELSE IF p = "running" THEN "analyse" ELSE "close"

(* run_sync has passed its checkpoint and the thread limiter.              *)
Call(c) ==
  /\ task[c] \in {"creating", "running", "closing"}
  /\ CallAt(task[c]) \notin threads[c]
  /\ threads' = [threads EXCEPT ![c] = @ \cup {CallAt(task[c])}]
  /\ UNCHANGED <<task, activeStreams, shuttingDown, landmarker, cut>>

Returns(c, call) ==
  call \in threads[c] /\ threads' = [threads EXCEPT ![c] = @ \ {call}]

(* A landmarker that nobody waits for any more is made all the same.       *)
Made(c) ==
  /\ Returns(c, "make") /\ Becomes(c, "open")
  /\ IF At(c, "creating") THEN Goto(c, "running") ELSE UNCHANGED task
  /\ UNCHANGED <<activeStreams, shuttingDown, cut>>

(* The result of a frame, or an error that _run_stream answers.            *)
Analysed(c) ==
  /\ Returns(c, "analyse")
  /\ UNCHANGED <<task, activeStreams, shuttingDown, landmarker, cut>>

Closed(c) ==
  /\ Returns(c, "close") /\ Becomes(c, "closed")
  /\ IF At(c, "closing") THEN Goto(c, "gone") ELSE UNCHANGED task
  /\ UNCHANGED <<activeStreams, shuttingDown, cut>>

-----------------------------------------------------------------------------
(* The `finally` clause: the slot is free from here on; a session that was *)
(* made is closed next, in a thread, shielded from cancel scopes.          *)
LeaveKeepingSlot(c) ==  \* mutation: the slot is not given back without a session
  /\ Goto(c, IF At(c, "running") THEN "closing" ELSE "gone")
  /\ activeStreams' = activeStreams - (IF At(c, "running") THEN 1 ELSE 0)

LeaveAtOnce(c) ==  \* mutation: the session is not closed
  Goto(c, "gone") /\ activeStreams' = activeStreams - 1

Leave(c) ==
  /\ Goto(c, IF At(c, "running") THEN "closing" ELSE "gone")
  /\ activeStreams' = activeStreams - 1

(* _run_stream returns, or raises; it awaits the thread of a frame.        *)
SessionEnds(c) ==
  /\ At(c, "running") /\ NoThread(c) /\ Leave(c)
  /\ UNCHANGED <<shuttingDown, native>>

(* accept() raises, or the constructor of the session does.                *)
Fails(c) ==
  /\ May("handshake")
  /\ \/ At(c, "accepting") /\ UNCHANGED threads
     \/ At(c, "creating") /\ Returns(c, "make")
  /\ Leave(c) /\ UNCHANGED <<shuttingDown, landmarker, cut>>

ScopeCancelUnshielded(c) ==  \* mutation: the `finally` clause has no shield
  /\ May("scope") /\ NoThread(c)
  /\ \/ task[c] \in Counted /\ Leave(c)
     \/ At(c, "closing") /\ Goto(c, "gone") /\ UNCHANGED activeStreams
  /\ UNCHANGED <<shuttingDown, native>>

ScopeCancelAbandoning(c) ==  \* mutation: abandon_on_cancel=True
  /\ May("scope") /\ task[c] \in Counted
  /\ Leave(c) /\ UNCHANGED <<shuttingDown, native>>

(* A cancel scope waits until a thread has returned.                       *)
ScopeCancel(c) ==
  /\ May("scope") /\ task[c] \in Counted /\ NoThread(c)
  /\ Leave(c) /\ UNCHANGED <<shuttingDown, native>>

(* Task.cancel does not wait: the thread goes on, and what it returns is   *)
(* dropped (`session` stays None). In the `finally` clause it ends the wait*)
(* for session.close, which is not called if its thread had not begun.     *)
Met(c) ==
  {p \in {"creating", "running"} : At(c, p) /\ ~NoThread(c)} \cup
  {p \in {"closing"} : At(c, p) /\ "close" \notin threads[c]}

TaskCancel(c) ==
  /\ May("cancel")
  /\ \/ task[c] \in Counted /\ Leave(c)
     \/ At(c, "closing") /\ Goto(c, "gone") /\ UNCHANGED activeStreams
  /\ cut' = [cut EXCEPT ![c] = @ \cup Met(c)]
  /\ UNCHANGED <<threads, shuttingDown, landmarker>>

(* The end of lifespan(): sessions that run are left to end by themselves. *)
Shutdown ==
  /\ ~shuttingDown /\ shuttingDown' = TRUE
  /\ UNCHANGED <<task, activeStreams, native>>

-----------------------------------------------------------------------------
ThreadReturns(c) == Made(c) \/ Analysed(c) \/ Closed(c)
Handle(c) == Accept(c) \/ Call(c) \/ ThreadReturns(c)

ConnectionStep(c) ==
  \/ Unauthorized(c) \/ Refuse(c) \/ Admit(c) \/ Handle(c) \/ SessionEnds(c)
  \/ Fails(c) \/ ScopeCancel(c) \/ TaskCancel(c)

Next == Shutdown \/ \E c \in Connections : ConnectionStep(c)

Spec == Init /\ [][Next]_vars

(* A task that is ready runs, and threads return. A session ends between   *)
(* two frames, at the latest after stream_max_duration_s (LiveStream,      *)
(* DeadlineEndsSession).                                                   *)
FairSpec ==
  Spec /\ \A c \in Connections : WF_vars(Handle(c)) /\ SF_vars(SessionEnds(c))

-----------------------------------------------------------------------------
(* Properties                                                              *)

Sessions == {c \in Connections : task[c] \in Counted}
Native == {c \in Connections : landmarker[c] = "open"}

(* The counter that admission goes by is the number of sessions, however   *)
(* they fail, are cancelled or end: a slot is neither leaked nor given back*)
(* twice (test_session_slot_and_landmarker_are_released_on_disconnect).    *)
CountIsExact == activeStreams = Cardinality(Sessions)

(* "Over the limit the socket is accepted then closed" (ARCHITECTURE.md:60)*)
(* there are never more sessions than stream_max_sessions.                 *)
SessionsBounded == Cardinality(Sessions) <= MaxSessions

(* "Cleanup of the native landmarker is shielded from cancellation, so it  *)
(* cannot leak when a connection is torn down" (ARCHITECTURE.md:62-63), as *)
(* far as it is true: a landmarker that was made and not closed has a task *)
(* or a thread that will close it, unless Task.cancel met the connection   *)
(* while a thread made its landmarker, or before one began to close it.    *)
WillBeClosed(c) == At(c, "running") \/ At(c, "closing") \/ "close" \in threads[c]
Abandoned(c) == cut[c] \cap {"creating", "closing"} # {}
NoLandmarkerLeaks == \A c \in Native : WillBeClosed(c) \/ Abandoned(c)

(* A landmarker is not thread-safe (landmarker.py:111): none is closed     *)
(* while a thread analyses a frame with it, unless Task.cancel took the    *)
(* task away from that thread.                                             *)
NotClosedInUse ==
  \A c \in Connections : "analyse" \in threads[c] /\ "running" \notin cut[c] =>
    landmarker[c] = "open" /\ "close" \notin threads[c]

(* Every admitted connection comes to its end: its task and its threads are*)
(* done, and no landmarker is open but one that Task.cancel left behind.   *)
AdmittedEnds ==
  \A c \in Connections :
    At(c, "accepting") ~> At(c, "gone") /\ NoThread(c) /\ (c \in Native => Abandoned(c))
=============================================================================
