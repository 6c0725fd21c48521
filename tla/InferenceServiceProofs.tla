---------------------- MODULE InferenceServiceProofs ----------------------
(* What TLAPS proves of InferenceService, for any requests, pool and limits*)
EXTENDS InferenceService, FiniteSetTheorems, TLAPS

USE DEF drained

SlotInv == TypeOK /\ SlotsExact

Using == {"analyze", "giveBack"}

(* A landmarker is lent to the one thread that is using it, or free.       *)
Lending ==
  /\ \A r \in Requests : lent[r] # None <=> thread[r] \in Using
  /\ \A r \in Requests : lent[r] \notin free
  /\ \A q, r \in Requests : lent[q] = lent[r] /\ lent[q] # None => q = r
  /\ \A l \in Landmarkers \ free : \E r \in Requests : lent[r] = l

(* What an analysis has open where it is.                                  *)
Opened ==
  \A r \in Requests :
    /\ thread[r] \in {"off", "decode", "borrow", "file"} \cup Using => held[r] = {}
    /\ thread[r] = "unlink" => held[r] \subseteq {"file"}

(* A thread is at work for a task that waits for it, until the tasks are   *)
(* cancelled; no task waits once the pool is closed.                       *)
Started ==
  \A r \in Requests :
    /\ task[r] \in {"new", "slot", "start"} \cup Results => thread[r] = "off"
    /\ phase = "closed" => task[r] \in {"new"} \cup Ended
    /\ task[r] = "slot" => r \in Videos
    /\ ~drained /\ thread[r] # "off" => task[r] = "thread"

ServiceInv == SlotInv /\ Lending /\ Opened /\ Started

-----------------------------------------------------------------------------
(* The sets that are counted are finite.                                   *)
LEMMA Counting ==
  /\ Cardinality(Landmarkers) \in Nat
  /\ \A S \in SUBSET Videos : IsFiniteSet(S) /\ Cardinality(S) \in Nat
<1>1. IsFiniteSet(Landmarkers)
  BY PoolAssumption
<1>2. ASSUME NEW S \in SUBSET Videos PROVE IsFiniteSet(S)
  <2>1. S \subseteq Requests
    BY DEF Requests
  <2> QED
    BY <2>1, RequestAssumption, FS_Subset
<1> QED
  BY <1>1, <1>2, FS_CardinalityType

(* A task that goes from one place to another changes the holders of slots *)
(* by at most itself.                                                      *)
LEMMA GotoLemma ==
  ASSUME TypeOK, NEW r \in Requests, NEW p \in TaskPoints, TaskGoto(r, p)
  PROVE /\ task' \in [Requests -> TaskPoints]
        /\ \A q \in Requests : task'[q] = IF q = r THEN p ELSE task[q]
        /\ SlotHolders' = IF r \in Videos /\ p \in Holding THEN SlotHolders \cup {r}
                          ELSE SlotHolders \ {r}
<1>1. task' = [task EXCEPT ![r] = p] /\ task \in [Requests -> TaskPoints]
  BY DEF TaskGoto, TypeOK
<1>2. \A q \in Requests : task'[q] = IF q = r THEN p ELSE task[q]
  BY <1>1
<1> QED
  BY <1>1, <1>2 DEF SlotHolders, Requests

(* A step that leaves the slots alone and neither enters nor leaves the    *)
(* holders.                                                                *)
LEMMA SameHolders ==
  ASSUME SlotInv, NEW r \in Requests, NEW p \in TaskPoints, TaskGoto(r, p),
         (r \in SlotHolders) <=> (r \in Videos /\ p \in Holding), UNCHANGED slots
  PROVE task' \in [Requests -> TaskPoints] /\ SlotsExact'
<1>1. task' \in [Requests -> TaskPoints] /\ SlotHolders' = SlotHolders
  BY GotoLemma DEF SlotInv
<1> QED
  BY <1>1 DEF SlotInv, SlotsExact

(* The `finally` clause gives back exactly the slot of its own request.    *)
LEMMA LeaveLemma ==
  ASSUME SlotInv, NEW r \in Requests, NEW p \in Ended, Leave(r, p)
  PROVE /\ task' \in [Requests -> TaskPoints]
        /\ slots' \in 0..Cardinality(Landmarkers) /\ SlotsExact'
<1>1. TaskGoto(r, p) /\ p \in TaskPoints /\ p \notin Holding
  BY DEF Leave, TaskPoints, Ended, Results, Holding
<1>2. CASE r \in SlotHolders
  <2>1. task' \in [Requests -> TaskPoints] /\ SlotHolders' = SlotHolders \ {r}
    BY <1>1, GotoLemma DEF SlotInv
  <2>2. IsFiniteSet(SlotHolders) /\ Cardinality(SlotHolders) \in Nat
    BY Counting DEF SlotHolders
  <2>3. Cardinality(SlotHolders \ {r}) = Cardinality(SlotHolders) - 1
    BY <1>2, <2>2, FS_RemoveElement
  <2>4. Cardinality(SlotHolders) # 0
    BY <1>2, <2>2, FS_EmptySet
  <2>5. slots' = slots + 1
    BY <1>2 DEF Leave, SlotHolders
  <2>6. slots \in Nat /\ slots + Cardinality(SlotHolders) = Cardinality(Landmarkers)
    BY Counting DEF SlotInv, TypeOK, SlotsExact
  <2>7. slots' \in 0..Cardinality(Landmarkers)
    BY <2>2, <2>4, <2>5, <2>6, Counting
  <2>8. slots' + Cardinality(SlotHolders') = Cardinality(Landmarkers)
    BY <2>1, <2>2, <2>3, <2>5, <2>6, Counting
  <2> QED
    BY <2>1, <2>7, <2>8 DEF SlotsExact
<1>3. CASE r \notin SlotHolders
  <2>1. UNCHANGED slots
    BY <1>3 DEF Leave, SlotHolders
  <2>2. task' \in [Requests -> TaskPoints] /\ SlotsExact'
    BY <1>1, <1>3, <2>1, SameHolders
  <2> QED
    BY <2>1, <2>2 DEF SlotInv, TypeOK
<1> QED
  BY <1>2, <1>3

(* A step of a thread changes what the thread has only, within the types.  *)
LEMMA ThreadTypes ==
  ASSUME TypeOK, Lending, NEW r \in Requests, ThreadStep(r)
  PROVE /\ thread' \in [Requests -> ThreadPoints] /\ result' \in [Requests -> Results]
        /\ free' \subseteq Landmarkers /\ lent' \in [Requests -> Landmarkers \cup {None}]
        /\ held' \in [Requests -> SUBSET {"file", "capture", "landmarker"}]
        /\ frames' \in [Requests -> 0..MaxVideoFrames]
        /\ UNCHANGED taskSide
<1> USE DEF ThreadPoints, Results, ThreadGoto, EndsWith, ThreadAt, taskSide, poolSide
<1>1. CASE Decode(r) \/ Analyze(r)
  BY <1>1 DEF Decode, Analyze, TypeOK
<1>2. CASE Borrow(r)
  BY <1>2 DEF Borrow, TypeOK
<1>3. CASE GiveBack(r)
  <2>1. lent[r] \in Landmarkers
    BY <1>3 DEF GiveBack, Lending, Using, TypeOK
  <2> QED
    BY <1>3, <2>1 DEF GiveBack, TypeOK
<1>4. CASE WriteFile(r) \/ OpenVideo(r) \/ LoadModel(r)
  BY <1>4 DEF WriteFile, OpenVideo, LoadModel, Opens, TypeOK
<1>5. CASE ReadFrame(r)
  BY <1>5, LimitAssumption DEF ReadFrame, TypeOK
<1>6. CASE Release(r) \/ Unlink(r)
  BY <1>6 DEF Release, Unlink, TypeOK
<1> QED
  BY <1>1, <1>2, <1>3, <1>4, <1>5, <1>6 DEF ThreadStep

-----------------------------------------------------------------------------
LEMMA ServiceInit == Init => ServiceInv
<1> SUFFICES ASSUME Init PROVE ServiceInv
  OBVIOUS
<1>1. TypeOK
  <2>1. /\ 0 \in 0..MaxVideoFrames
        /\ Cardinality(Landmarkers) \in 0..Cardinality(Landmarkers)
    BY LimitAssumption, Counting
  <2>2. "new" \in TaskPoints /\ "off" \in ThreadPoints /\ "ok" \in Results
    BY DEF TaskPoints, ThreadPoints, Results
  <2> QED
    BY <2>1, <2>2 DEF Init, TypeOK
<1>2. SlotHolders = {}
  BY DEF Init, SlotHolders, Holding, Requests
<1>3. SlotsExact
  BY <1>2, Counting, FS_EmptySet DEF Init, SlotsExact
<1>4. Lending
  BY PoolAssumption DEF Init, Lending, Using
<1>5. Opened /\ Started
  BY DEF Init, Opened, Started
<1> QED
  BY <1>1, <1>3, <1>4, <1>5 DEF ServiceInv, SlotInv

(* The steps of a task keep types and slots.                               *)
LEMMA TaskSlots ==
  ASSUME ServiceInv, NEW r \in Requests,
         StartImage(r) \/ StartVideo(r) \/ TaskStep(r)
  PROVE SlotInv'
<1> USE DEF ServiceInv, SlotInv
<1>1. CASE StartImage(r) \/ StartVideo(r) \/ SlotTimesOut(r)
  <2>1. PICK p \in {"start", "slot", "overloaded"} :
          /\ TaskGoto(r, p) /\ r \notin SlotHolders /\ ~(r \in Videos /\ p \in Holding)
          /\ UNCHANGED <<slots, phase, threadSide>>
    BY <1>1, RequestAssumption
       DEF StartImage, StartVideo, SlotTimesOut, TaskAt, SlotHolders, Holding
  <2>2. p \in TaskPoints
    BY DEF TaskPoints, Holding, Ended, Results
  <2>3. task' \in [Requests -> TaskPoints] /\ SlotsExact'
    BY <2>1, <2>2, SameHolders
  <2> QED
    BY <2>1, <2>3 DEF threadSide, TypeOK
<1>2. CASE AcquireSlot(r)
  <2>1. /\ TaskGoto(r, "start") /\ task[r] = "slot" /\ slots > 0 /\ slots' = slots - 1
        /\ UNCHANGED <<phase, threadSide>>
    BY <1>2 DEF AcquireSlot, TaskAt
  <2>2. "start" \in TaskPoints /\ "start" \in Holding
    BY DEF TaskPoints, Holding
  <2>3. r \in Videos
    BY <2>1 DEF Started
  <2>4. SlotInv'
    <3>1. task' \in [Requests -> TaskPoints] /\ SlotHolders' = SlotHolders \cup {r}
      BY <2>1, <2>2, <2>3, GotoLemma
    <3>2. r \notin SlotHolders
      BY <2>1 DEF SlotHolders, Holding
    <3>3. IsFiniteSet(SlotHolders) /\ Cardinality(SlotHolders) \in Nat
      BY Counting DEF SlotHolders
    <3>4. Cardinality(SlotHolders \cup {r}) = Cardinality(SlotHolders) + 1
      BY <3>2, <3>3, FS_AddElement
    <3>5. slots \in 1..Cardinality(Landmarkers) /\ slots' \in 0..Cardinality(Landmarkers)
      BY <2>1, Counting DEF TypeOK
    <3>6. SlotsExact'
      BY <2>1, <3>1, <3>3, <3>4, <3>5, Counting DEF SlotsExact
    <3> QED
      BY <2>1, <3>1, <3>5, <3>6 DEF threadSide, TypeOK
  <2> QED
    BY <2>4
<1>3. CASE StartThread(r)
  <2>1. /\ TaskGoto(r, "thread") /\ task[r] = "start"
        /\ thread' = [thread EXCEPT ![r] = IF r \in Images THEN "decode" ELSE "file"]
        /\ UNCHANGED <<slots, result, free, lent, held, frames, phase>>
    BY <1>3 DEF StartThread, TaskAt
  <2>2. "thread" \in TaskPoints /\ (r \in SlotHolders <=> r \in Videos /\ "thread" \in Holding)
    BY <2>1 DEF TaskPoints, Holding, SlotHolders
  <2>3. task' \in [Requests -> TaskPoints] /\ SlotsExact'
    BY <2>1, <2>2, SameHolders
  <2> QED
    BY <2>1, <2>3 DEF TypeOK, ThreadPoints
<1>4. CASE Return(r) \/ Cancel(r)
  <2>1. PICK p \in Ended : Leave(r, p) /\ UNCHANGED <<phase, threadSide>>
    BY <1>4 DEF Return, Cancel, Ended, TypeOK
  <2>2. /\ task' \in [Requests -> TaskPoints]
        /\ slots' \in 0..Cardinality(Landmarkers) /\ SlotsExact'
    BY <2>1, LeaveLemma
  <2> QED
    BY <2>1, <2>2 DEF threadSide, TypeOK
<1> QED
  BY <1>1, <1>2, <1>3, <1>4 DEF TaskStep

(* The steps of a task leave its thread alone, but for the one that starts *)
(* it.                                                                     *)
LEMMA TaskThreads ==
  ASSUME ServiceInv, NEW r \in Requests,
         StartImage(r) \/ StartVideo(r) \/ TaskStep(r)
  PROVE Lending' /\ Opened' /\ Started'
<1> USE DEF ServiceInv, SlotInv
<1>1. CASE StartThread(r)
  <2>1. PICK p \in {"decode", "file"} :
          /\ task[r] = "start" /\ ~drained /\ TaskGoto(r, "thread")
          /\ thread' = [thread EXCEPT ![r] = p]
          /\ UNCHANGED <<slots, result, free, lent, held, frames, phase>>
    BY <1>1 DEF StartThread, TaskAt
  <2>2. /\ thread[r] = "off"
        /\ \A q \in Requests : thread'[q] = IF q = r THEN p ELSE thread[q]
        /\ \A q \in Requests : task'[q] = IF q = r THEN "thread" ELSE task[q]
    BY <2>1 DEF Started, TypeOK, TaskGoto
  <2>3. Lending'
    BY <2>1, <2>2 DEF Lending, Using
  <2>4. Opened'
    BY <2>1, <2>2 DEF Opened, Using
  <2> QED
    BY <2>1, <2>2, <2>3, <2>4 DEF Started, Results
<1>2. ASSUME StartImage(r) \/ StartVideo(r) \/ AcquireSlot(r) \/ SlotTimesOut(r)
             \/ Return(r) \/ Cancel(r)
      PROVE Lending' /\ Opened' /\ Started'
  <2>1. UNCHANGED <<phase, threadSide>>
    BY <1>2 DEF StartImage, StartVideo, AcquireSlot, SlotTimesOut, Return, Cancel
  <2>2. PICK p : TaskGoto(r, p) /\ (~drained => thread[r] = "off")
                 /\ (p \in {"new", "slot", "start"} \cup Results => thread[r] = "off")
                 /\ (phase = "closed" => p \in {"new"} \cup Ended)
                 /\ (p = "slot" => r \in Videos)
    <3>1. CASE StartImage(r) \/ StartVideo(r) \/ AcquireSlot(r) \/ SlotTimesOut(r)
      BY <3>1 DEF StartImage, StartVideo, AcquireSlot, SlotTimesOut, TaskAt, Started, Ended, Results
    <3>2. CASE Return(r)
      <4>1. result[r] \in {"ok", "failed", "overloaded"}
        BY DEF TypeOK, Results
      <4> QED
        BY <3>2, <4>1 DEF Return, Leave, Ended, Results
    <3>3. CASE Cancel(r)
      BY <3>3 DEF Cancel, Leave, Ended, Results
    <3> QED
      BY <1>2, <3>1, <3>2, <3>3
  <2>3. \A q \in Requests : task'[q] = IF q = r THEN p ELSE task[q]
    BY <2>2 DEF TaskGoto, TypeOK
  <2>4. Started'
    BY <2>1, <2>2, <2>3 DEF Started, threadSide
  <2> QED
    BY <2>1, <2>4 DEF threadSide, Lending, Opened
<1> QED
  BY <1>1, <1>2 DEF TaskStep

(* The steps of a thread keep the pool.                                    *)
LEMMA ThreadLending ==
  ASSUME ServiceInv, NEW r \in Requests, ThreadStep(r)
  PROVE Lending'
<1> USE DEF ServiceInv, SlotInv, ThreadGoto, EndsWith, ThreadAt, poolSide, taskSide, Using
<1>1. CASE Borrow(r)
  <2>1. CASE free' = free
    BY <1>1, <2>1 DEF Borrow, Lending, TypeOK
  <2>2. ASSUME NEW l \in free, free' = free \ {l}, lent' = [lent EXCEPT ![r] = l],
               thread' = [thread EXCEPT ![r] = "analyze"]
        PROVE Lending'
    <3>1. l # None /\ l \in Landmarkers
      BY PoolAssumption DEF TypeOK
    <3>2. \A q \in Requests : lent[q] # l
      BY DEF Lending
    <3>3. \A q \in Requests : /\ thread'[q] = IF q = r THEN "analyze" ELSE thread[q]
                              /\ lent'[q] = IF q = r THEN l ELSE lent[q]
      BY <2>2 DEF TypeOK
    <3>4. thread[r] = "borrow" /\ lent[r] = None
      BY <1>1 DEF Borrow, Lending
    <3>5. \A q \in Requests : lent'[q] # None <=> thread'[q] \in Using
      BY <3>1, <3>3 DEF Lending
    <3>6. \A q \in Requests : lent'[q] \notin free'
      BY <2>2, <3>3 DEF Lending
    <3>7. \A q, s \in Requests : lent'[q] = lent'[s] /\ lent'[q] # None => q = s
      BY <3>2, <3>3 DEF Lending
    <3>8. \A m \in Landmarkers \ free' : \E q \in Requests : lent'[q] = m
      <4> SUFFICES ASSUME NEW m \in Landmarkers \ free' PROVE \E q \in Requests : lent'[q] = m
        OBVIOUS
      <4>1. CASE m = l
        BY <3>3, <4>1
      <4>2. CASE m # l
        <5>1. PICK q \in Requests : lent[q] = m
          BY <2>2, <4>2 DEF Lending
        <5>2. q # r
          BY <3>4, <5>1, PoolAssumption
        <5> QED
          BY <3>3, <5>1, <5>2
      <4> QED
        BY <4>1, <4>2
    <3> QED
      BY <3>5, <3>6, <3>7, <3>8 DEF Lending
  <2> QED
    BY <1>1, <2>1, <2>2 DEF Borrow
<1>2. CASE GiveBack(r)
  <2>1. thread[r] = "giveBack" /\ lent[r] \in Landmarkers
    BY <1>2 DEF GiveBack, Lending, TypeOK
  <2>2. \A q \in Requests : /\ thread'[q] = IF q = r THEN "off" ELSE thread[q]
                            /\ lent'[q] = IF q = r THEN None ELSE lent[q]
    BY <1>2 DEF GiveBack, TypeOK
  <2>3. free' = free \cup {lent[r]} /\ None \notin free'
    BY <1>2, <2>1, PoolAssumption DEF GiveBack, TypeOK
  <2> QED
    BY <2>1, <2>2, <2>3 DEF Lending
<1>3. ASSUME UNCHANGED poolSide,
             NEW p, thread' = [thread EXCEPT ![r] = p], p \in Using <=> thread[r] \in Using
      PROVE Lending'
  <2>1. \A q \in Requests : thread'[q] = IF q = r THEN p ELSE thread[q]
    BY <1>3 DEF TypeOK
  <2> QED
    BY <1>3, <2>1 DEF Lending
<1>4. CASE Decode(r) \/ Analyze(r)
  BY <1>3, <1>4 DEF Decode, Analyze
<1>5. CASE WriteFile(r) \/ OpenVideo(r) \/ LoadModel(r)
  BY <1>3, <1>5 DEF WriteFile, OpenVideo, LoadModel
<1>6. CASE ReadFrame(r) \/ Release(r) \/ Unlink(r)
  BY <1>3, <1>6 DEF ReadFrame, Release, Unlink
<1> QED
  BY <1>1, <1>2, <1>4, <1>5, <1>6 DEF ThreadStep

(* The steps of a thread open and close what the place says.               *)
LEMMA ThreadOpened ==
  ASSUME ServiceInv, NEW r \in Requests, ThreadStep(r)
  PROVE Opened' /\ Started'
<1> USE DEF ServiceInv, SlotInv, ThreadGoto, EndsWith, ThreadAt, poolSide, taskSide, Using, Opens
<1>1. PICK p : thread' = [thread EXCEPT ![r] = p]
  BY DEF ThreadStep, Decode, Borrow, Analyze, GiveBack, WriteFile, OpenVideo, LoadModel,
         ReadFrame, Release, Unlink
<1>2. \A q \in Requests : thread'[q] = IF q = r THEN p ELSE thread[q]
  BY <1>1 DEF TypeOK
<1>3. \A q \in Requests : q # r => held'[q] = held[q]
  BY DEF TypeOK, ThreadStep, Decode, Borrow, Analyze, GiveBack, WriteFile, OpenVideo,
         LoadModel, ReadFrame, Release, Unlink
<1>4. thread[r] # "off" /\ UNCHANGED taskSide
  BY DEF ThreadStep, Decode, Borrow, Analyze, GiveBack, WriteFile, OpenVideo, LoadModel,
         ReadFrame, Release, Unlink
<1>5. Started'
  BY <1>2, <1>4 DEF Started
<1>6. /\ p \in {"off", "decode", "borrow", "file"} \cup Using => held'[r] = {}
      /\ p = "unlink" => held'[r] \subseteq {"file"}
  <2>1. CASE Decode(r) \/ Borrow(r) \/ Analyze(r) \/ GiveBack(r)
    BY <2>1, <1>1 DEF Decode, Borrow, Analyze, GiveBack, TypeOK, Opened
  <2>2. CASE WriteFile(r)
    BY <2>2, <1>1 DEF WriteFile, TypeOK, Opened
  <2>3. CASE OpenVideo(r) \/ LoadModel(r) \/ ReadFrame(r)
    BY <2>3, <1>1 DEF OpenVideo, LoadModel, ReadFrame, TypeOK
  <2>4. CASE Release(r)
    BY <2>4, <1>1 DEF Release, TypeOK
  <2>5. CASE Unlink(r)
    BY <2>5, <1>1 DEF Unlink, TypeOK, Opened
  <2> QED
    BY <2>1, <2>2, <2>3, <2>4, <2>5 DEF ThreadStep
<1> QED
  BY <1>2, <1>3, <1>5, <1>6 DEF Opened

LEMMA ServiceStep ==
  ASSUME ServiceInv, [Next]_vars
  PROVE ServiceInv'
<1>1. CASE UNCHANGED vars
  BY <1>1 DEF vars, ServiceInv, SlotInv, TypeOK, SlotsExact, SlotHolders, Lending, Opened, Started
<1>2. CASE WarmUp \/ DrainEnds \/ Close
  <2>1. /\ phase' \in {"serving", "drained", "closed"} /\ UNCHANGED <<task, slots, threadSide>>
        /\ (~drained' => ~drained) /\ (phase' = "closed" => Waiting = {})
    BY <1>2 DEF WarmUp, DrainEnds, Close
  <2>2. SlotInv'
    BY <2>1 DEF threadSide, ServiceInv, SlotInv, TypeOK, SlotsExact, SlotHolders
  <2>3. Lending' /\ Opened'
    BY <2>1 DEF threadSide, ServiceInv, Lending, Opened
  <2>4. Started'
    BY <2>1 DEF threadSide, ServiceInv, Started, Waiting
  <2> QED
    BY <2>2, <2>3, <2>4 DEF ServiceInv
<1>3. ASSUME NEW r \in Requests, StartImage(r) \/ StartVideo(r) \/ TaskStep(r)
      PROVE ServiceInv'
  BY <1>3, TaskSlots, TaskThreads DEF ServiceInv
<1>4. ASSUME NEW r \in Requests, ThreadStep(r)
      PROVE ServiceInv'
  <2>1. TypeOK' /\ UNCHANGED taskSide
    BY <1>4, ThreadTypes DEF ServiceInv, SlotInv, TypeOK, taskSide
  <2>2. SlotsExact'
    BY <2>1 DEF taskSide, ServiceInv, SlotInv, SlotsExact, SlotHolders
  <2> QED
    BY <1>4, <2>1, <2>2, ThreadLending, ThreadOpened DEF ServiceInv, SlotInv
<1> QED
  BY <1>1, <1>2, <1>3, <1>4 DEF Next

LEMMA ServiceInvHolds == Spec => []ServiceInv
BY ServiceInit, ServiceStep, PTL DEF Spec

-----------------------------------------------------------------------------
(* Every place, landmarker, slot and frame is one the code knows; a video  *)
(* never has more than max_video_frames decoded, and the semaphore never   *)
(* passes its initial value.                                               *)
THEOREM TypeCorrect == Spec => []TypeOK
BY ServiceInvHolds, PTL DEF ServiceInv, SlotInv

(* The slot of every analysis is given back exactly once, whether it       *)
(* succeeds, fails, or is cancelled.                                       *)
THEOREM SlotsExactHolds == Spec => []SlotsExact
BY ServiceInvHolds, PTL DEF ServiceInv, SlotInv

(* Every landmarker of the pool is free or with the one thread that uses   *)
(* it, after any failure, timeout or cancellation.                         *)
THEOREM PoolExactHolds == Spec => []PoolExact
<1>1. ASSUME ServiceInv PROVE PoolExact
  <2> SUFFICES ASSUME NEW l \in Landmarkers
               PROVE IF l \in free THEN Borrowers(l) = {} ELSE Cardinality(Borrowers(l)) = 1
    BY DEF PoolExact
  <2>1. CASE l \in free
    BY <1>1, <2>1 DEF ServiceInv, Lending, Borrowers
  <2>2. CASE l \notin free
    <3>1. l # None
      BY PoolAssumption
    <3>2. PICK r \in Requests : lent[r] = l
      BY <1>1, <2>2 DEF ServiceInv, Lending
    <3>3. thread[r] \in {"analyze", "giveBack"}
      BY <1>1, <3>1, <3>2 DEF ServiceInv, Lending, Using
    <3>4. \A q \in Requests : lent[q] = l => q = r
      BY <1>1, <3>1, <3>2 DEF ServiceInv, Lending
    <3>5. Borrowers(l) = {r}
      BY <3>2, <3>3, <3>4 DEF Borrowers
    <3> QED
      BY <2>2, <3>5, FS_Singleton
  <2> QED
    BY <2>1, <2>2
<1> QED
  BY <1>1, ServiceInvHolds, PTL

(* Analyses at work are as many as slots at most, those whose task has     *)
(* been cancelled under the thread included.                               *)
THEOREM AnalysesBoundedHolds == Spec => []AnalysesBounded
<1> DEFINE Active == {r \in Videos : thread[r] # "off"}
<1>1. Init => AnalysesBounded
  <2> SUFFICES ASSUME Init PROVE AnalysesBounded
    OBVIOUS
  <2>1. Active = {}
    BY DEF Init, Requests
  <2> QED
    BY <2>1, FS_EmptySet, Counting DEF AnalysesBounded
<1>2. ASSUME ServiceInv, ~drained PROVE AnalysesBounded
  <2>1. Active \subseteq SlotHolders
    BY <1>2 DEF ServiceInv, Started, SlotHolders, Holding, Requests
  <2>2. Cardinality(Active) <= Cardinality(SlotHolders)
    BY <2>1, Counting, FS_Subset DEF SlotHolders
  <2>3. /\ Cardinality(SlotHolders) \in Nat /\ Cardinality(Active) \in Nat
        /\ slots \in Nat /\ slots + Cardinality(SlotHolders) = Cardinality(Landmarkers)
    BY <1>2, Counting DEF SlotHolders, ServiceInv, SlotInv, TypeOK, SlotsExact
  <2> QED
    BY <2>2, <2>3, Counting DEF AnalysesBounded
<1>3. ASSUME ServiceInv, [Next]_vars, drained' PROVE Active' \subseteq Active
  <2>1. CASE UNCHANGED thread
    BY <2>1
  <2>2. ASSUME NEW r \in Requests, StartImage(r) \/ StartVideo(r) \/ TaskStep(r)
        PROVE UNCHANGED thread
    BY <1>3, <2>2 DEF StartImage, StartVideo, TaskStep, AcquireSlot, SlotTimesOut, StartThread,
                      Return, Cancel, threadSide
  <2>3. ASSUME NEW r \in Requests, ThreadStep(r) PROVE Active' \subseteq Active
    <3>1. PICK p : thread' = [thread EXCEPT ![r] = p] /\ thread[r] # "off"
      BY <2>3 DEF ThreadStep, Decode, Borrow, Analyze, GiveBack, WriteFile, OpenVideo, LoadModel,
                  ReadFrame, Release, Unlink, ThreadAt, ThreadGoto, EndsWith
    <3>2. \A q \in Requests : q # r => thread'[q] = thread[q]
      BY <1>3, <3>1 DEF ServiceInv, SlotInv, TypeOK
    <3> QED
      BY <3>1, <3>2 DEF Requests
  <2> QED
    BY <1>3, <2>1, <2>2, <2>3 DEF Next, WarmUp, DrainEnds, Close, threadSide, vars
<1>4. ASSUME ServiceInv, AnalysesBounded, [Next]_vars PROVE AnalysesBounded'
  <2>1. CASE ~drained'
    <3>1. ServiceInv'
      BY <1>4, ServiceStep
    <3>2. (ServiceInv /\ ~drained => AnalysesBounded)'
      BY <1>2, PTL
    <3> QED
      BY <2>1, <3>1, <3>2
  <2>2. CASE drained'
    <3>1. Active' \subseteq Active
      BY <1>3, <1>4, <2>2
    <3>2. IsFiniteSet(Active)
      BY Counting
    <3>3. Cardinality(Active') <= Cardinality(Active)
      BY <3>1, <3>2, FS_Subset
    <3>4. Cardinality(Active') \in Nat /\ Cardinality(Active) \in Nat
      BY Counting
    <3> QED
      BY <1>4, <3>3, <3>4, Counting DEF AnalysesBounded
  <2> QED
    BY <2>1, <2>2
<1> QED
  BY <1>1, <1>4, ServiceInvHolds, PTL DEF Spec

(* No analysis of a video leaves its file, decoder or landmarker behind,   *)
(* whatever step fails and whether or not anybody still waits for it.      *)
THEOREM NothingLeftBehindHolds == Spec => []NothingLeftBehind
<1>1. ServiceInv => NothingLeftBehind
  BY DEF ServiceInv, Opened, NothingLeftBehind, Requests
<1> QED
  BY <1>1, ServiceInvHolds, PTL

(* Once the pool is closed, a thread that still uses a landmarker works for*)
(* a task that was cancelled.                                              *)
THEOREM ClosedUnderNobodyHolds == Spec => []ClosedUnderNobody
<1>1. ServiceInv => ClosedUnderNobody
  BY DEF ServiceInv, Started, Ended, ClosedUnderNobody
<1> QED
  BY <1>1, ServiceInvHolds, PTL

-----------------------------------------------------------------------------
(* Why every request ends                                                  *)

(* What a task and its thread have before them.                            *)
TaskLeft(p) ==
  CASE p = "new" -> 4 [] p = "slot" -> 3 [] p = "start" -> 2 [] p = "thread" -> 1 [] OTHER -> 0
ThreadLeft(p) ==
  CASE p = "file" -> 6 [] p = "open" -> 5 [] p \in {"load", "decode"} -> 4
    [] p \in {"frames", "borrow"} -> 3 [] p \in {"release", "analyze"} -> 2
    [] p \in {"unlink", "giveBack"} -> 1 [] OTHER -> 0

(* A task goes on with every step, and an answer is final; a thread is     *)
(* started once, by its task, and then goes on, too, or decodes one of the *)
(* max_video_frames frames of its video. This is the variant behind        *)
(* RequestsEnd, and why a video whose header lies about its length cannot  *)
(* keep a slot for ever (video.py:144-145).                                *)
TaskBegins(r) == task[r] = "start" /\ task'[r] = "thread" /\ thread[r] = "off"
Decodes(r) ==
  /\ thread[r] = "frames" /\ thread'[r] = "frames"
  /\ frames'[r] = frames[r] + 1 /\ frames'[r] <= MaxVideoFrames
GoesOn(r) ==
  /\ task'[r] # task[r] => TaskLeft(task'[r]) < TaskLeft(task[r])
  /\ thread'[r] # thread[r] \/ frames'[r] # frames[r] =>
       \/ TaskBegins(r) /\ UNCHANGED frames
       \/ ThreadLeft(thread'[r]) < ThreadLeft(thread[r]) /\ UNCHANGED frames
       \/ Decodes(r)
RequestsGoOn == [][\A r \in Requests : GoesOn(r)]_vars

(* Every step of a task or a thread is one of these.                       *)
LEMMA GoesOnStep == ServiceInv /\ [Next]_vars => \A r \in Requests : GoesOn(r)
<1> SUFFICES ASSUME ServiceInv, [Next]_vars PROVE \A r \in Requests : GoesOn(r)
  OBVIOUS
<1>1. /\ task \in [Requests -> TaskPoints] /\ thread \in [Requests -> ThreadPoints]
      /\ frames \in [Requests -> 0..MaxVideoFrames]
  BY DEF ServiceInv, SlotInv, TypeOK
<1>2. /\ TaskLeft("new") = 4 /\ TaskLeft("slot") = 3 /\ TaskLeft("start") = 2
      /\ TaskLeft("thread") = 1 /\ \A p \in Ended : TaskLeft(p) = 0
  BY DEF TaskLeft, Ended, Results
<1>3. /\ ThreadLeft("file") = 6 /\ ThreadLeft("open") = 5 /\ ThreadLeft("load") = 4
      /\ ThreadLeft("decode") = 4 /\ ThreadLeft("frames") = 3 /\ ThreadLeft("borrow") = 3
      /\ ThreadLeft("release") = 2 /\ ThreadLeft("analyze") = 2 /\ ThreadLeft("unlink") = 1
      /\ ThreadLeft("giveBack") = 1 /\ ThreadLeft("off") = 0
  BY DEF ThreadLeft
<1>4. CASE UNCHANGED <<task, thread, frames>>
  BY <1>4 DEF GoesOn
<1>5. ASSUME NEW q \in Requests, NEW p, task' = [task EXCEPT ![q] = p],
             TaskLeft(p) < TaskLeft(task[q]), UNCHANGED <<thread, frames>>
      PROVE  \A r \in Requests : GoesOn(r)
  BY <1>1, <1>5 DEF GoesOn
<1>6. ASSUME NEW q \in Requests,
             StartImage(q) \/ StartVideo(q) \/ AcquireSlot(q) \/ SlotTimesOut(q)
      PROVE  \A r \in Requests : GoesOn(r)
  <2>1. PICK p \in {"start", "slot", "overloaded"} :
          /\ task' = [task EXCEPT ![q] = p] /\ TaskLeft(p) < TaskLeft(task[q])
    BY <1>2, <1>6 DEF StartImage, StartVideo, AcquireSlot, SlotTimesOut, TaskAt, TaskGoto, Ended,
                      Results
  <2>2. UNCHANGED <<thread, frames>>
    BY <1>6 DEF StartImage, StartVideo, AcquireSlot, SlotTimesOut, threadSide
  <2> QED
    BY <1>5, <2>1, <2>2
<1>7. ASSUME NEW q \in Requests, Return(q) \/ Cancel(q)
      PROVE  \A r \in Requests : GoesOn(r)
  <2>1. PICK p \in Ended : task' = [task EXCEPT ![q] = p]
    BY <1>7 DEF Return, Cancel, Leave, TaskGoto, Ended, ServiceInv, SlotInv, TypeOK
  <2>2. TaskLeft(task[q]) > 0 /\ TaskLeft(p) = 0
    BY <1>2, <1>7 DEF Return, Cancel, TaskAt, Holding
  <2>3. UNCHANGED <<thread, frames>>
    BY <1>7 DEF Return, Cancel, threadSide
  <2> QED
    BY <1>5, <2>1, <2>2, <2>3
<1>8. ASSUME NEW q \in Requests, StartThread(q) PROVE \A r \in Requests : GoesOn(r)
  <2>1. /\ task[q] = "start" /\ task' = [task EXCEPT ![q] = "thread"] /\ UNCHANGED frames
        /\ \A r \in Requests : r # q => thread'[r] = thread[r]
    BY <1>1, <1>8 DEF StartThread, TaskAt, TaskGoto
  <2>2. thread[q] = "off"
    BY <2>1 DEF ServiceInv, Started
  <2>3. TaskBegins(q)
    BY <1>1, <2>1, <2>2 DEF TaskBegins
  <2> QED
    BY <1>1, <1>2, <2>1, <2>3 DEF GoesOn
<1>9. ASSUME NEW q \in Requests, NEW p, thread' = [thread EXCEPT ![q] = p],
             ThreadLeft(p) < ThreadLeft(thread[q]), UNCHANGED <<task, frames>>
      PROVE  \A r \in Requests : GoesOn(r)
  BY <1>1, <1>9 DEF GoesOn
<1>10. ASSUME NEW q \in Requests,
              \/ Decode(q) \/ Borrow(q) \/ Analyze(q) \/ GiveBack(q) \/ WriteFile(q)
              \/ OpenVideo(q) \/ LoadModel(q) \/ Release(q) \/ Unlink(q)
       PROVE  \A r \in Requests : GoesOn(r)
  <2>1. UNCHANGED <<task, frames>>
    BY <1>10 DEF Decode, Borrow, Analyze, GiveBack, WriteFile, OpenVideo, LoadModel, Release,
                 Unlink, taskSide
  <2>2. PICK p \in ThreadPoints : /\ thread' = [thread EXCEPT ![q] = p]
                                  /\ ThreadLeft(p) < ThreadLeft(thread[q])
    BY <1>3, <1>10 DEF Decode, Borrow, Analyze, GiveBack, WriteFile, OpenVideo, LoadModel,
                       Release, Unlink, ThreadAt, ThreadGoto, EndsWith, ThreadPoints
  <2> QED
    BY <1>9, <2>1, <2>2
<1>11. ASSUME NEW q \in Requests, ReadFrame(q) PROVE \A r \in Requests : GoesOn(r)
  <2>1. thread[q] = "frames" /\ UNCHANGED task
    BY <1>11 DEF ReadFrame, ThreadAt, taskSide
  <2>2. CASE /\ EndsWith(q, "release", "failed") \/ EndsWith(q, "release", "ok")
             /\ UNCHANGED frames
    <3>1. thread' = [thread EXCEPT ![q] = "release"]
      BY <2>2 DEF EndsWith
    <3>2. ThreadLeft("release") < ThreadLeft(thread[q])
      BY <1>3, <2>1
    <3> QED
      BY <1>9, <2>1, <2>2, <3>1, <3>2
  <2>3. CASE /\ frames[q] < MaxVideoFrames /\ ThreadGoto(q, "frames")
             /\ frames' = [frames EXCEPT ![q] = @ + 1]
    <3>1. Decodes(q)
      BY <1>1, <2>1, <2>3, LimitAssumption DEF Decodes, ThreadGoto
    <3>2. \A r \in Requests : r # q => thread'[r] = thread[r] /\ frames'[r] = frames[r]
      BY <1>1, <2>3 DEF ThreadGoto
    <3> QED
      BY <2>1, <3>1, <3>2 DEF GoesOn
  <2> QED
    BY <1>11, <2>2, <2>3 DEF ReadFrame
<1> QED
  BY <1>4, <1>6, <1>7, <1>8, <1>10, <1>11
     DEF Next, TaskStep, ThreadStep, WarmUp, DrainEnds, Close, threadSide, vars

(* Every request makes four steps at most, its thread no more than six and *)
(* one for each frame; whatever is waited for in between, nothing that was *)
(* done is done again.                                                     *)
THEOREM RequestsGoOnHolds == Spec => RequestsGoOn
<1>1. ServiceInv /\ [Next]_vars => [\A r \in Requests : GoesOn(r)]_vars
  BY GoesOnStep
<1> QED
  BY <1>1, ServiceInvHolds, PTL DEF Spec, RequestsGoOn
=============================================================================
