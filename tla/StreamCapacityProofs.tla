------------------------ MODULE StreamCapacityProofs ------------------------
(* What TLAPS proves of StreamCapacity, for any number of connections.     *)
EXTENDS StreamCapacity, FiniteSetTheorems, TLAPS

CapacityInv == TypeOK /\ CountIsExact

-----------------------------------------------------------------------------
LEMMA SessionsFinite ==
  IsFiniteSet(Sessions) /\ Cardinality(Sessions) \in Nat
<1>1. Sessions \subseteq Connections
  BY DEF Sessions
<1> QED
  BY <1>1, ConnectionsAssumption, FS_Subset, FS_CardinalityType

(* A task that goes from one place to another changes the set of sessions  *)
(* by at most itself.                                                      *)
LEMMA GotoLemma ==
  ASSUME TypeOK, NEW c \in Connections, NEW p \in Points, Goto(c, p)
  PROVE /\ task' \in [Connections -> Points]
        /\ Sessions' = IF p \in Counted THEN Sessions \cup {c} ELSE Sessions \ {c}
<1>1. task' = [task EXCEPT ![c] = p] /\ task \in [Connections -> Points]
  BY DEF Goto, TypeOK
<1>2. \A d \in Connections : task'[d] = IF d = c THEN p ELSE task[d]
  BY <1>1
<1> QED
  BY <1>1, <1>2 DEF Sessions

(* A step within the counted places, or within the others, keeps the count.*)
LEMMA SameSide ==
  ASSUME CapacityInv, NEW c \in Connections, NEW p \in Points, Goto(c, p),
         (task[c] \in Counted) <=> (p \in Counted),
         UNCHANGED activeStreams
  PROVE task' \in [Connections -> Points] /\ Sessions' = Sessions /\ CountIsExact'
<1>1. task' \in [Connections -> Points] /\ Sessions' = Sessions
  BY GotoLemma DEF CapacityInv, Sessions
<1> QED
  BY <1>1 DEF CapacityInv, CountIsExact

(* The `finally` clause gives back exactly the slot of its own session.    *)
LEMMA LeaveLemma ==
  ASSUME CapacityInv, NEW c \in Connections, task[c] \in Counted, Leave(c)
  PROVE /\ task' \in [Connections -> Points] /\ activeStreams' \in 0..MaxSessions
        /\ CountIsExact'
<1>1. PICK p \in {"closing", "gone"} : Goto(c, p)
  BY DEF Leave
<1>2. p \in Points /\ p \notin Counted
  BY DEF Points, Counted
<1>3. task' \in [Connections -> Points] /\ Sessions' = Sessions \ {c}
  BY <1>1, <1>2, GotoLemma DEF CapacityInv
<1>4. c \in Sessions
  BY DEF Sessions
<1>5. Cardinality(Sessions \ {c}) = Cardinality(Sessions) - 1
  BY <1>4, SessionsFinite, FS_RemoveElement
<1>6. /\ activeStreams' = activeStreams - 1 /\ activeStreams = Cardinality(Sessions)
      /\ activeStreams \in 0..MaxSessions
  BY DEF Leave, CapacityInv, CountIsExact, TypeOK
<1>7. Cardinality(Sessions) # 0
  BY <1>4, SessionsFinite, FS_EmptySet
<1>8. activeStreams' \in 0..MaxSessions
  BY <1>6, <1>7, SessionsFinite, CapacityAssumption
<1> QED
  BY <1>3, <1>5, <1>6, <1>8 DEF CountIsExact

LEMMA CapacityInit == Init => CapacityInv
<1> SUFFICES ASSUME Init PROVE CapacityInv
  OBVIOUS
<1>1. TypeOK
  <2>1. 0 \in 0..MaxSessions /\ "new" \in Points
    BY CapacityAssumption DEF Points
  <2> QED
    BY <2>1 DEF Init, TypeOK, Landmarkers
<1>2. Sessions = {}
  BY DEF Init, Sessions, Counted
<1> QED
  BY <1>1, <1>2, FS_EmptySet DEF Init, CapacityInv, CountIsExact

(* What the threads and their histories look like after a step.            *)
NativeTypeOK ==
  /\ threads \in [Connections -> SUBSET Calls]
  /\ landmarker \in [Connections -> Landmarkers]
  /\ cut \in [Connections -> SUBSET {"creating", "running", "closing"}]

LEMMA NativeStep ==
  ASSUME TypeOK, NEW c \in Connections, ConnectionStep(c)
  PROVE NativeTypeOK'
<1> USE DEF TypeOK, NativeTypeOK, Landmarkers, Calls
<1>1. CASE Unauthorized(c) \/ Refuse(c) \/ Admit(c) \/ Accept(c) \/ SessionEnds(c) \/ ScopeCancel(c)
  BY <1>1 DEF Unauthorized, Refuse, Admit, Accept, SessionEnds, ScopeCancel, native
<1>2. CASE Call(c)
  <2>1. CallAt(task[c]) \in Calls
    BY <1>2 DEF Call, CallAt
  <2> QED
    BY <1>2, <2>1 DEF Call
<1>3. CASE Made(c) \/ Analysed(c) \/ Closed(c)
  BY <1>3 DEF Made, Analysed, Closed, Returns, Becomes
<1>4. CASE Fails(c)
  BY <1>4 DEF Fails, Returns
<1>5. CASE TaskCancel(c)
  BY <1>5 DEF TaskCancel, Met
<1> QED
  BY <1>1, <1>2, <1>3, <1>4, <1>5 DEF ConnectionStep, Handle, ThreadReturns

LEMMA CapacityStep ==
  ASSUME CapacityInv, Next
  PROVE CapacityInv'
<1> USE DEF Points, Counted
<1>1. CASE Shutdown
  BY <1>1 DEF Shutdown, native, CapacityInv, TypeOK, CountIsExact, Sessions
<1>2. SUFFICES ASSUME NEW c \in Connections, ConnectionStep(c) PROVE CapacityInv'
  BY <1>1 DEF Next
<1>3. NativeTypeOK' /\ shuttingDown' \in BOOLEAN
  <2>1. UNCHANGED shuttingDown
    BY <1>2 DEF ConnectionStep, Unauthorized, Refuse, Admit, Handle, Accept, Call, ThreadReturns,
         Made, Analysed, Closed, SessionEnds, Fails, ScopeCancel, TaskCancel
  <2> QED
    BY <1>2, <2>1, NativeStep DEF CapacityInv, TypeOK
<1>4. SUFFICES /\ task' \in [Connections -> Points] /\ activeStreams' \in 0..MaxSessions
               /\ CountIsExact'
  BY <1>3 DEF CapacityInv, TypeOK, NativeTypeOK
<1>5. CASE UNCHANGED <<task, activeStreams>>
  BY <1>5 DEF CapacityInv, TypeOK, CountIsExact, Sessions
<1>6. ASSUME NEW p \in Points, Goto(c, p), (task[c] \in Counted) <=> (p \in Counted),
             UNCHANGED activeStreams
      PROVE /\ task' \in [Connections -> Points] /\ activeStreams' \in 0..MaxSessions
            /\ CountIsExact'
  BY <1>6, SameSide DEF CapacityInv, TypeOK
<1>7. CASE Unauthorized(c) \/ Refuse(c)
  BY <1>6, <1>7 DEF Unauthorized, Refuse, At
<1>8. CASE Admit(c)
  <2>1. /\ Goto(c, "accepting") /\ task[c] = "new" /\ activeStreams < MaxSessions
        /\ activeStreams' = activeStreams + 1 /\ activeStreams \in 0..MaxSessions
    BY <1>8, CapacityAssumption DEF Admit, At, AtCapacity, CapacityInv, TypeOK
  <2>2. task' \in [Connections -> Points] /\ Sessions' = Sessions \cup {c}
    BY <2>1, GotoLemma DEF CapacityInv
  <2>3. c \notin Sessions
    BY <2>1 DEF Sessions
  <2>4. Cardinality(Sessions \cup {c}) = Cardinality(Sessions) + 1
    BY <2>3, SessionsFinite, FS_AddElement
  <2>5. CountIsExact'
    BY <2>1, <2>2, <2>4 DEF CapacityInv, CountIsExact
  <2> QED
    BY <2>1, <2>2, <2>5, CapacityAssumption
<1>9. CASE Accept(c) \/ Call(c) \/ Analysed(c)
  BY <1>5, <1>6, <1>9 DEF Accept, Call, Analysed, At
<1>10. CASE Made(c) \/ Closed(c)
  BY <1>5, <1>6, <1>10 DEF Made, Closed, At
<1>11. CASE SessionEnds(c) \/ Fails(c) \/ ScopeCancel(c)
  <2>1. Leave(c) /\ task[c] \in Counted
    BY <1>11 DEF SessionEnds, Fails, ScopeCancel, At
  <2> QED
    BY <2>1, LeaveLemma
<1>12. CASE TaskCancel(c)
  <2>1. CASE task[c] \in Counted /\ Leave(c)
    BY <2>1, LeaveLemma
  <2>2. CASE At(c, "closing") /\ Goto(c, "gone") /\ UNCHANGED activeStreams
    BY <1>6, <2>2 DEF At
  <2> QED
    BY <1>12, <2>1, <2>2 DEF TaskCancel
<1> QED
  BY <1>2, <1>7, <1>8, <1>9, <1>10, <1>11, <1>12 DEF ConnectionStep, Handle, ThreadReturns

LEMMA CapacityInvHolds == Spec => []CapacityInv
<1>1. ASSUME CapacityInv, [Next]_vars PROVE CapacityInv'
  <2>1. CASE Next
    BY <1>1, <2>1, CapacityStep
  <2>2. CASE UNCHANGED vars
    BY <1>1, <2>2 DEF vars, CapacityInv, TypeOK, CountIsExact, Sessions
  <2> QED
    BY <1>1, <2>1, <2>2
<1> QED
  BY <1>1, CapacityInit, PTL DEF Spec

-----------------------------------------------------------------------------
(* What the threads of a connection and its landmarker can be at each      *)
(* place of its task, and what Task.cancel may have left behind.           *)
ConnectionInv(c) ==
  /\ task[c] \in {"new", "accepting", "creating", "running"} => cut[c] = {}
  /\ task[c] \in {"new", "accepting"} => threads[c] = {} /\ landmarker[c] = "none"
  /\ At(c, "creating") => threads[c] \subseteq {"make"} /\ landmarker[c] = "none"
  /\ At(c, "running") => threads[c] \subseteq {"analyse"} /\ landmarker[c] = "open"
  /\ At(c, "closing") => "make" \notin threads[c] /\ landmarker[c] = "open"
  /\ task[c] \in {"closing", "gone"} /\ "analyse" \in threads[c] => "running" \in cut[c]
  /\ At(c, "gone") /\ "make" \in threads[c] =>
       threads[c] = {"make"} /\ landmarker[c] = "none" /\ "creating" \in cut[c]
  /\ "close" \in threads[c] => landmarker[c] = "open" /\ task[c] \in {"closing", "gone"}
  /\ At(c, "gone") /\ landmarker[c] = "open" => "close" \in threads[c] \/ Abandoned(c)
  /\ ~May("cancel") => cut[c] = {}

ThreadInv == \A c \in Connections : ConnectionInv(c)

(* A step of one connection leaves the others as they are.                 *)
LEMMA OthersKept ==
  ASSUME CapacityInv, NEW c \in Connections, ConnectionStep(c),
         NEW d \in Connections, d # c, ConnectionInv(d)
  PROVE ConnectionInv(d)'
<1>1. /\ task \in [Connections -> Points] /\ threads \in [Connections -> SUBSET Calls]
      /\ landmarker \in [Connections -> Landmarkers]
      /\ cut \in [Connections -> SUBSET {"creating", "running", "closing"}]
  BY DEF CapacityInv, TypeOK
<1>2. task'[d] = task[d]
  BY <1>1 DEF ConnectionStep, Unauthorized, Refuse, Admit, Handle, Accept, Call, ThreadReturns,
       Made, Analysed, Closed, SessionEnds, Fails, ScopeCancel, TaskCancel, Leave, Goto
<1>3. threads'[d] = threads[d] /\ landmarker'[d] = landmarker[d]
  BY <1>1 DEF ConnectionStep, Unauthorized, Refuse, Admit, Handle, Accept, Call, ThreadReturns,
       Made, Analysed, Closed, SessionEnds, Fails, ScopeCancel, TaskCancel, Returns, Becomes, native
<1>4. cut'[d] = cut[d]
  BY <1>1 DEF ConnectionStep, Unauthorized, Refuse, Admit, Handle, Accept, Call, ThreadReturns,
       Made, Analysed, Closed, SessionEnds, Fails, ScopeCancel, TaskCancel, native
<1> QED
  BY <1>2, <1>3, <1>4 DEF ConnectionInv, At, Abandoned

LEMMA OwnStep ==
  ASSUME CapacityInv, NEW c \in Connections, ConnectionStep(c), ConnectionInv(c)
  PROVE ConnectionInv(c)'
<1>1. /\ task \in [Connections -> Points] /\ threads \in [Connections -> SUBSET Calls]
      /\ landmarker \in [Connections -> Landmarkers]
      /\ cut \in [Connections -> SUBSET {"creating", "running", "closing"}]
  BY DEF CapacityInv, TypeOK
<1>2. threads[c] \subseteq {"make", "analyse", "close"}
  BY <1>1 DEF Calls
<1> USE DEF ConnectionInv, At, Abandoned, Counted
<1>3. CASE Unauthorized(c) \/ Refuse(c) \/ Admit(c) \/ Accept(c)
  <2>1. /\ task[c] \in {"new", "accepting"} /\ UNCHANGED <<threads, landmarker, cut>>
        /\ task'[c] \in {"accepting", "creating", "gone"}
        /\ (task'[c] = "accepting" => task[c] = "new")
    BY <1>1, <1>3 DEF Unauthorized, Refuse, Admit, Accept, Goto, native
  <2> QED
    BY <2>1
<1>4. CASE Call(c)
  <2>1. /\ UNCHANGED <<task, landmarker, cut>>
        /\ threads'[c] = threads[c] \cup {CallAt(task[c])}
        /\ task[c] \in {"creating", "running", "closing"}
    BY <1>1, <1>4 DEF Call
  <2>2. CASE At(c, "creating")
    BY <2>1, <2>2 DEF CallAt
  <2>3. CASE At(c, "running")
    BY <2>1, <2>3 DEF CallAt
  <2>4. CASE At(c, "closing")
    BY <2>1, <2>4 DEF CallAt
  <2> QED
    BY <2>1, <2>2, <2>3, <2>4
<1>5. CASE Made(c)
  <2>1. /\ "make" \in threads[c] /\ threads'[c] = threads[c] \ {"make"} /\ UNCHANGED cut
        /\ landmarker'[c] = "open"
        /\ task'[c] = IF At(c, "creating") THEN "running" ELSE task[c]
    BY <1>1, <1>5 DEF Made, Returns, Becomes, Goto
  <2>2. At(c, "creating") \/ At(c, "gone")
    BY <1>1, <2>1 DEF Points
  <2> QED
    BY <1>2, <2>1, <2>2
<1>6. CASE Analysed(c)
  <2>1. /\ threads'[c] = threads[c] \ {"analyse"} /\ UNCHANGED <<task, landmarker, cut>>
        /\ "analyse" \in threads[c]
    BY <1>1, <1>6 DEF Analysed, Returns
  <2> QED
    BY <2>1
<1>7. CASE Closed(c)
  <2>1. /\ "close" \in threads[c] /\ threads'[c] = threads[c] \ {"close"} /\ UNCHANGED cut
        /\ landmarker'[c] = "closed" /\ task[c] \in {"closing", "gone"} /\ task'[c] = "gone"
    BY <1>1, <1>7 DEF Closed, Returns, Becomes, Goto
  <2> QED
    BY <2>1
<1>8. CASE SessionEnds(c) \/ ScopeCancel(c)
  <2>1. /\ task[c] \in Counted /\ threads[c] = {} /\ UNCHANGED <<threads, landmarker, cut>>
        /\ task'[c] = IF At(c, "running") THEN "closing" ELSE "gone"
    BY <1>1, <1>8 DEF SessionEnds, ScopeCancel, NoThread, Leave, Goto, native
  <2> QED
    BY <2>1
<1>9. CASE Fails(c)
  <2>1. /\ task[c] \in {"accepting", "creating"} /\ UNCHANGED <<landmarker, cut>>
        /\ threads'[c] = {} /\ task'[c] = "gone"
    BY <1>1, <1>9 DEF Fails, Returns, Leave, Goto
  <2> QED
    BY <2>1
<1>10. CASE TaskCancel(c)
  <2>1. /\ UNCHANGED <<threads, landmarker>> /\ cut'[c] = cut[c] \cup Met(c) /\ May("cancel")
        /\ task[c] \in {"accepting", "creating", "running", "closing"}
        /\ task'[c] = IF At(c, "running") THEN "closing" ELSE "gone"
    BY <1>1, <1>10 DEF TaskCancel, Leave, Goto
  <2>2. CASE At(c, "accepting")
    BY <2>1, <2>2
  <2>3. CASE At(c, "creating")
    <3>1. "make" \in threads[c] => "creating" \in Met(c)
      BY <2>3 DEF Met, NoThread
    <3> QED
      BY <2>1, <2>3, <3>1
  <2>4. CASE At(c, "running")
    <3>1. "analyse" \in threads[c] => "running" \in Met(c)
      BY <2>4 DEF Met, NoThread
    <3> QED
      BY <2>1, <2>4, <3>1
  <2>5. CASE At(c, "closing")
    <3>1. "close" \notin threads[c] => "closing" \in Met(c)
      BY <2>5 DEF Met
    <3> QED
      BY <2>1, <2>5, <3>1
  <2> QED
    BY <2>1, <2>2, <2>3, <2>4, <2>5
<1> QED
  BY <1>3, <1>4, <1>5, <1>6, <1>7, <1>8, <1>9, <1>10 DEF ConnectionStep, Handle, ThreadReturns

LEMMA ThreadInvHolds == Spec => []ThreadInv
<1>1. Init => ThreadInv
  BY DEF Init, ThreadInv, ConnectionInv, At
<1>2. ASSUME CapacityInv, ThreadInv, [Next]_vars PROVE ThreadInv'
  <2>1. CASE UNCHANGED vars \/ Shutdown
    BY <1>2, <2>1 DEF vars, Shutdown, native, ThreadInv, ConnectionInv, At, Abandoned
  <2>2. ASSUME NEW c \in Connections, ConnectionStep(c), NEW d \in Connections
        PROVE ConnectionInv(d)'
    BY <1>2, <2>2, OwnStep, OthersKept DEF ThreadInv
  <2> QED
    BY <1>2, <2>1, <2>2 DEF Next, ThreadInv
<1> QED
  BY <1>1, <1>2, CapacityInvHolds, PTL DEF Spec

-----------------------------------------------------------------------------
(* Every place, thread, landmarker and count is one the code knows, and the*)
(* count never passes stream_max_sessions.                                 *)
THEOREM TypeCorrect == Spec => []TypeOK
BY CapacityInvHolds, PTL DEF CapacityInv

(* active_streams is the number of sessions after any failure,             *)
(* cancellation or end, in any order.                                      *)
THEOREM CountIsExactHolds == Spec => []CountIsExact
BY CapacityInvHolds, PTL DEF CapacityInv

(* There are never more sessions than stream_max_sessions.                 *)
THEOREM SessionsBoundedHolds == Spec => []SessionsBounded
<1>1. CapacityInv => SessionsBounded
  BY CapacityAssumption DEF CapacityInv, TypeOK, CountIsExact, SessionsBounded
<1> QED
  BY <1>1, CapacityInvHolds, PTL

(* A native landmarker has a task or a thread that will close it, unless   *)
(* Task.cancel came while a thread made it, or before one began to close it*)
THEOREM NoLandmarkerLeaksHolds == Spec => []NoLandmarkerLeaks
<1>1. CapacityInv /\ ThreadInv => NoLandmarkerLeaks
  BY DEF CapacityInv, TypeOK, Points, Counted, ThreadInv, ConnectionInv, NoLandmarkerLeaks, Native,
         WillBeClosed, At
<1> QED
  BY <1>1, CapacityInvHolds, ThreadInvHolds, PTL

(* No landmarker is closed while a thread uses it, unless Task.cancel came *)
(* while that thread was at work.                                          *)
THEOREM NotClosedInUseHolds == Spec => []NotClosedInUse
<1>1. CapacityInv /\ ThreadInv => NotClosedInUse
  BY DEF CapacityInv, TypeOK, Points, Counted, ThreadInv, ConnectionInv, NotClosedInUse, At
<1> QED
  BY <1>1, CapacityInvHolds, ThreadInvHolds, PTL

(* Where nobody calls Task.cancel, nothing is excepted: cancel scopes,     *)
(* failures and disconnects leak no landmarker and close none in use.      *)
CleanWithoutTaskCancel ==
  ~May("cancel") =>
    /\ \A c \in Native : WillBeClosed(c)
    /\ \A c \in Connections : "analyse" \in threads[c] => At(c, "running") /\ c \in Native

(* The shield of routes.py:229 keeps what ARCHITECTURE.md:62-63 says, from *)
(* anything but Task.cancel.                                               *)
THEOREM CleanWithoutTaskCancelHolds == Spec => []CleanWithoutTaskCancel
<1>1. CapacityInv /\ ThreadInv => CleanWithoutTaskCancel
  BY DEF CapacityInv, TypeOK, Points, Counted, ThreadInv, ConnectionInv, CleanWithoutTaskCancel,
         Native, WillBeClosed, Abandoned, At
<1> QED
  BY <1>1, CapacityInvHolds, ThreadInvHolds, PTL
=============================================================================
