------------------------- MODULE JobPipelineProofs -------------------------
(* Theorems about JobPipeline, for every number of jobs, handlers and      *)
(* deliveries.                                                             *)
EXTENDS JobPipeline, TLAPS

(* Points of a handler at which it holds a job: a message that did not     *)
(* parse never gets past "read".                                           *)
JobPoints == {"mark", "get", "analyze", "finish", "ack", "ackSeen", "cleanup"}

(* What a handler has in its hands.                                        *)
SlotsHold ==
  \A h \in Handlers :
    /\ slot[h].at # "fetch" => Msg(h) \in Msgs /\ queue[Msg(h)] # "absent"
    /\ slot[h].at \in JobPoints => Msg(h) \in Jobs

(* A message is delivered only below the limit, and not before its request *)
(* publishes it.                                                           *)
Deliverable ==
  /\ \A m \in Msgs : queue[m] = "ready" => delivered[m] < MaxDeliver
  /\ \A m \in Msgs : queue[m] = "absent" => delivered[m] = 0
  /\ \A j \in Jobs : request[j] \in {"idle", "uploaded", "queuing"} => queue[j] = "absent"

TypeInv == TypeOK /\ SlotsHold /\ Deliverable

LEMMA PutType ==
  ASSUME TypeOK, NEW j \in Jobs, NEW s \in Statuses, NEW n \in 0..MaxDeliver,
         Put(j, s, n) \/ UNCHANGED <<record, settled>>
  PROVE  /\ record' \in [Jobs -> [status : Statuses \cup {"none"}, attempts : 0..MaxDeliver]]
         /\ settled' \subseteq Jobs
  BY DEF TypeOK, Put

(* The slots a handler's own step can leave behind.                        *)
LEMMA SlotType ==
  ASSUME TypeOK, MaxDeliver \in Nat, NEW h \in Handlers, NEW p \in Points, NEW v \in Terminal,
         Goto(h, p) \/ Release(h) \/ Conclude(h, v) \/ UNCHANGED slot
  PROVE  slot' \in [Handlers -> [at : Points, msg : Msgs \cup {None},
                                 attempt : 0..MaxDeliver, verdict : Terminal]]
  <1>1. CASE Goto(h, p)
    BY <1>1 DEF TypeOK, Goto
  <1>2. CASE Release(h)
    BY <1>2 DEF TypeOK, Release, Free, Points, Terminal
  <1>3. CASE Conclude(h, v)
    <2>1. \A i \in Handlers :
            slot[i] \in [at : Points, msg : Msgs \cup {None},
                        attempt : 0..MaxDeliver, verdict : Terminal]
      BY DEF TypeOK
    <2>2. [slot[h] EXCEPT !.at = "finish", !.verdict = v]
            \in [at : Points, msg : Msgs \cup {None},
                attempt : 0..MaxDeliver, verdict : Terminal]
      BY <2>1 DEF Points
    <2>3. slot' = [slot EXCEPT ![h] = [slot[h] EXCEPT !.at = "finish", !.verdict = v]]
      BY <1>3 DEF Conclude, TypeOK
    <2>4. QED
      BY <2>1, <2>2, <2>3 DEF TypeOK
  <1>4. CASE UNCHANGED slot
    BY <1>4 DEF TypeOK
  <1>5. QED
    BY <1>1, <1>2, <1>3, <1>4

(* A handler's own step leaves the other slots alone, and keeps its message*)
(* while it works.                                                         *)
LEMMA ConcludeLemma ==
  ASSUME TypeOK, NEW h \in Handlers, NEW v \in Terminal, Conclude(h, v)
  PROVE  /\ slot'[h].at = "finish" /\ slot'[h].msg = slot[h].msg
         /\ \A i \in Handlers : i # h => slot'[i] = slot[i]
  <1>1. slot[h].at \in Points /\ slot \in [Handlers -> [at : Points, msg : Msgs \cup {None},
                                   attempt : 0..MaxDeliver, verdict : Terminal]]
    BY DEF TypeOK
  <1>2. QED
    BY <1>1 DEF Conclude

LEMMA WorkLemma ==
  ASSUME TypeOK, NEW h \in Handlers, GetInput(h) \/ Analyze(h)
  PROVE  /\ slot[h].at \in {"get", "analyze"}
         /\ slot'[h].at \in {"analyze", "finish", "nak"} /\ slot'[h].msg = slot[h].msg
         /\ \A i \in Handlers : i # h => slot'[i] = slot[i]
         /\ UNCHANGED <<request, stored, record, settled, queue, delivered>>
  <1>1. \/ Goto(h, "analyze") \/ Goto(h, "nak")
        \/ \E v \in Terminal : Conclude(h, v)
    BY DEF GetInput, Analyze, Retry, Terminal
  <1>2. /\ slot[h].at \in {"get", "analyze"}
        /\ UNCHANGED <<request, stored, record, settled, queue, delivered>>
    BY DEF GetInput, Analyze, Retry, At
  <1>3. ASSUME NEW p \in {"analyze", "nak"}, Goto(h, p)
        PROVE  /\ slot'[h].at = p /\ slot'[h].msg = slot[h].msg
               /\ \A i \in Handlers : i # h => slot'[i] = slot[i]
    BY <1>3 DEF Goto, TypeOK
  <1>4. QED
    BY <1>1, <1>2, <1>3, ConcludeLemma

LEMMA AckLemma ==
  ASSUME TypeOK, NEW h \in Handlers, Ack(h)
  PROVE  /\ slot[h].at \in {"ack", "ackSeen"}
         /\ slot'[h].at \in {"cleanup", "nak", "fetch"}
         /\ slot'[h].at # "fetch" => slot'[h].msg = slot[h].msg
         /\ \A i \in Handlers : i # h => slot'[i] = slot[i]
         /\ UNCHANGED queue \/ Remove(Msg(h))
         /\ UNCHANGED <<request, stored, record, settled, delivered>>
  <1>1. Goto(h, "cleanup") \/ Goto(h, "nak") \/ Release(h)
    BY DEF Ack, SendAck
  <1>2. /\ slot[h].at \in {"ack", "ackSeen"}
        /\ UNCHANGED queue \/ Remove(Msg(h))
        /\ UNCHANGED <<request, stored, record, settled, delivered>>
    BY DEF Ack, SendAck, At
  <1>3. CASE Release(h)
    BY <1>2, <1>3 DEF Release, Free, TypeOK
  <1>4. CASE Goto(h, "cleanup") \/ Goto(h, "nak")
    BY <1>2, <1>4 DEF Goto, TypeOK
  <1>5. QED
    BY <1>1, <1>3, <1>4

LEMMA TypeInit == Init => TypeInv
  BY MsgAssumption, DeliverAssumption
     DEF Init, TypeInv, TypeOK, SlotsHold, Deliverable, Free, Msg, JobPoints, Msgs,
         Statuses, Terminal, RequestStates, QueueStates, Points

LEMMA TypeStep == TypeInv /\ [Next]_vars => TypeInv'
  <1> SUFFICES ASSUME TypeInv, [Next]_vars PROVE TypeInv'
    OBVIOUS
  <1> USE MsgAssumption, DeliverAssumption
      DEF TypeInv, TypeOK, SlotsHold, Deliverable, Msg, JobPoints, Msgs, Statuses,
          Terminal, RequestStates, QueueStates, Points
  <1>1. ASSUME NEW j \in Jobs, Upload(j) PROVE TypeInv'
    <2>1. TypeOK'
      <3>1. request' \in [Jobs -> RequestStates]
        BY <1>1 DEF Upload, Moves
      <3>2. stored' \in [Jobs -> BOOLEAN]
        BY <1>1 DEF Upload, Moves
      <3>3. QED
        BY <1>1, <3>1, <3>2 DEF Upload, apiRest
    <2>2. SlotsHold'
      BY <1>1 DEF Upload, Moves, apiRest
    <2>3. Deliverable'
      BY <1>1 DEF Upload, Moves, apiRest
    <2>4. QED
      BY <2>1, <2>2, <2>3
  <1>2. ASSUME NEW j \in Jobs, SubmitRecord(j) PROVE TypeInv'
    <2>1. TypeOK'
      <3>1. /\ record' \in [Jobs -> [status : Statuses \cup {"none"}, attempts : 0..MaxDeliver]]
            /\ settled' \subseteq Jobs
        BY <1>2, PutType DEF SubmitRecord, PutFails
      <3>2. request' \in [Jobs -> RequestStates]
        BY <1>2 DEF SubmitRecord, Moves
      <3>3. QED
        BY <1>2, <3>1, <3>2 DEF SubmitRecord, apiRest
    <2>2. SlotsHold'
      BY <1>2 DEF SubmitRecord, apiRest
    <2>3. Deliverable'
      BY <1>2 DEF SubmitRecord, Moves, apiRest
    <2>4. QED
      BY <2>1, <2>2, <2>3
  <1>3. ASSUME NEW j \in Jobs, Publish(j) PROVE TypeInv'
    BY <1>3 DEF Publish, Moves
  <1>4. ASSUME NEW j \in Jobs, PublishAcked(j) PROVE TypeInv'
    BY <1>4 DEF PublishAcked, Moves, apiRest
  <1>5. ASSUME NEW j \in Jobs, UndoUpload(j) PROVE TypeInv'
    <2>1. /\ request[j] \in {"undo", "undoing"}
          /\ \E p \in {"rejected", "failed"} : request' = [request EXCEPT ![j] = p]
          /\ stored' \in [Jobs -> BOOLEAN]
      BY <1>5 DEF UndoUpload, Moves
    <2>2. PICK p \in {"rejected", "failed"} : request' = [request EXCEPT ![j] = p]
      BY <2>1
    <2>3. UNCHANGED <<record, settled, queue, delivered, slot>>
      BY <1>5 DEF UndoUpload, apiRest
    <2>4. Deliverable'
      BY <2>2, <2>3
    <2>5. QED
      BY <2>1, <2>2, <2>3, <2>4
  <1>6. ASSUME NEW j \in Jobs, ApiCrash(j) PROVE TypeInv'
    <2>1. /\ request[j] # "idle"
          /\ \E p \in {"lost", "undoing", "failed"} : request' = [request EXCEPT ![j] = p]
      BY <1>6 DEF ApiCrash, Moves
    <2>2. QED
      BY <1>6, <2>1 DEF ApiCrash, apiRest
  <1>7. ASSUME NEW j \in Jobs, ExpireRecord(j) \/ ExpireInput(j) PROVE TypeInv'
    <2>1. CASE ExpireRecord(j)
      BY <2>1 DEF ExpireRecord
    <2>2. CASE ExpireInput(j)
      <3>1. stored' \in [Jobs -> BOOLEAN] /\ UNCHANGED <<request, record, settled>>
            /\ UNCHANGED <<queue, delivered, slot>>
        BY <2>2 DEF ExpireInput
      <3>2. QED
        BY <3>1
    <2>3. QED
      BY <1>7, <2>1, <2>2
  <1>8. ASSUME NEW m \in Foreign, ForeignPublish(m) PROVE TypeInv'
    BY <1>8 DEF ForeignPublish
  <1>9. ASSUME NEW m \in Msgs, AckWaitExpires(m) PROVE TypeInv'
    BY <1>9 DEF AckWaitExpires, Requeue
  <1>10. ASSUME NEW m \in Msgs, ExpireMessage(m) PROVE TypeInv'
    BY <1>10 DEF ExpireMessage
  <1>11. ASSUME NEW h \in Handlers, NEW m \in Msgs, Deliver(h, m) PROVE TypeInv'
    BY <1>11 DEF Deliver, At
  <1>12. ASSUME NEW h \in Handlers, Terminate(h) PROVE TypeInv'
    <2>1. TypeOK'
      <3>1. slot' \in [Handlers -> [at : Points, msg : Msgs \cup {None},
                                   attempt : 0..MaxDeliver, verdict : Terminal]]
        BY <1>12, SlotType DEF Terminate
      <3>2. QED
        BY <1>12, <3>1 DEF Terminate, Remove
    <2>2. SlotsHold'
      <3>1. \A m \in Msgs : queue[m] # "absent" => queue'[m] # "absent"
        BY <1>12 DEF Terminate, Remove
      <3>2. CASE Release(h)
        BY <3>1, <3>2 DEF Release, Free
      <3>3. CASE Goto(h, "nak") /\ At(h, "read")
        BY <3>1, <3>3 DEF At, Goto
      <3>4. QED
        BY <1>12, <3>2, <3>3 DEF Terminate
    <2>3. Deliverable'
      BY <1>12 DEF Terminate, At, Remove
    <2>4. QED
      BY <2>1, <2>2, <2>3
  <1>13. ASSUME NEW h \in Handlers, ReadRecord(h) PROVE TypeInv'
    <2>1. TypeOK'
      <3>1. slot' \in [Handlers -> [at : Points, msg : Msgs \cup {None},
                                   attempt : 0..MaxDeliver, verdict : Terminal]]
        BY <1>13, SlotType DEF ReadRecord
      <3>2. QED
        BY <1>13, <3>1 DEF ReadRecord
    <2>2. SlotsHold'
      <3>1. At(h, "read") /\ Msg(h) \in Jobs /\ UNCHANGED queue
        BY <1>13 DEF ReadRecord
      <3>2. CASE Goto(h, "ackSeen")
        BY <3>1, <3>2 DEF At, Goto
      <3>3. CASE Goto(h, "mark")
        BY <3>1, <3>3 DEF At, Goto
      <3>4. CASE Goto(h, "nak")
        BY <3>1, <3>4 DEF At, Goto
      <3>5. QED
        BY <1>13, <3>2, <3>3, <3>4 DEF ReadRecord
    <2>3. Deliverable'
      BY <1>13 DEF ReadRecord
    <2>4. QED
      BY <2>1, <2>2, <2>3
  <1>14. ASSUME NEW h \in Handlers, MarkProcessing(h) PROVE TypeInv'
    <2>1. TypeOK'
      <3>1. /\ record' \in [Jobs -> [status : Statuses \cup {"none"}, attempts : 0..MaxDeliver]]
           /\ settled' \subseteq Jobs
        BY <1>14, PutType DEF MarkProcessing, At, PutFails
      <3>2. slot' \in [Handlers -> [at : Points, msg : Msgs \cup {None},
                                   attempt : 0..MaxDeliver, verdict : Terminal]]
        BY <1>14, SlotType DEF MarkProcessing
      <3>3. QED
        BY <1>14, <3>1, <3>2 DEF MarkProcessing
    <2>2. SlotsHold'
      BY <1>14 DEF MarkProcessing, At, Goto, Put, PutFails
    <2>3. Deliverable'
      BY <1>14 DEF MarkProcessing, At, Goto, Put, PutFails
    <2>4. QED
      BY <2>1, <2>2, <2>3
  <1>15. ASSUME NEW h \in Handlers, GetInput(h) PROVE TypeInv'
    <2>1. TypeOK'
      <3>1. slot' \in [Handlers -> [at : Points, msg : Msgs \cup {None},
                                   attempt : 0..MaxDeliver, verdict : Terminal]]
        BY <1>15, SlotType DEF GetInput, Retry
      <3>2. QED
        BY <1>15, <3>1 DEF GetInput, Retry
    <2>2. SlotsHold'
      BY <1>15, WorkLemma
    <2>3. Deliverable'
      BY <1>15, WorkLemma
    <2>4. QED
      BY <2>1, <2>2, <2>3
  <1>16. ASSUME NEW h \in Handlers, Analyze(h) PROVE TypeInv'
    <2>1. TypeOK'
      <3>1. slot' \in [Handlers -> [at : Points, msg : Msgs \cup {None},
                                   attempt : 0..MaxDeliver, verdict : Terminal]]
        BY <1>16, SlotType DEF Analyze, Retry
      <3>2. QED
        BY <1>16, <3>1 DEF Analyze, Retry
    <2>2. SlotsHold'
      BY <1>16, WorkLemma
    <2>3. Deliverable'
      BY <1>16, WorkLemma
    <2>4. QED
      BY <2>1, <2>2, <2>3
  <1>17. ASSUME NEW h \in Handlers, Finish(h) PROVE TypeInv'
    <2>1. TypeOK'
      <3>1. /\ record' \in [Jobs -> [status : Statuses \cup {"none"}, attempts : 0..MaxDeliver]]
           /\ settled' \subseteq Jobs
        BY <1>17, PutType DEF Finish, At, PutFails
      <3>2. slot' \in [Handlers -> [at : Points, msg : Msgs \cup {None},
                                   attempt : 0..MaxDeliver, verdict : Terminal]]
        BY <1>17, SlotType DEF Finish
      <3>3. QED
        BY <1>17, <3>1, <3>2 DEF Finish
    <2>2. SlotsHold'
      BY <1>17 DEF Finish, At, Goto, Put, PutFails
    <2>3. Deliverable'
      BY <1>17 DEF Finish, At, Goto, Put, PutFails
    <2>4. QED
      BY <2>1, <2>2, <2>3
  <1>18. ASSUME NEW h \in Handlers, Ack(h) PROVE TypeInv'
    <2>1. TypeOK'
      <3>1. slot' \in [Handlers -> [at : Points, msg : Msgs \cup {None},
                                   attempt : 0..MaxDeliver, verdict : Terminal]]
        BY <1>18, SlotType DEF Ack, SendAck
      <3>2. queue' \in [Msgs -> QueueStates]
        BY <1>18 DEF Ack, SendAck, Remove
      <3>3. QED
        BY <1>18, <3>1, <3>2 DEF Ack
    <2>2. SlotsHold'
      <3>1. \A m \in Msgs : queue[m] # "absent" => queue'[m] # "absent"
        BY <1>18 DEF Ack, SendAck, Remove
      <3>2. CASE Goto(h, "cleanup") /\ At(h, "ack")
        BY <3>1, <3>2 DEF At, Goto
      <3>3. CASE Goto(h, "nak") /\ At(h, "ack")
        BY <3>1, <3>3 DEF At, Goto
      <3>4. CASE Goto(h, "nak") /\ At(h, "ackSeen")
        BY <3>1, <3>4 DEF At, Goto
      <3>5. CASE Release(h)
        BY <3>1, <3>5 DEF Release, Free
      <3>6. QED
        BY <1>18, <3>2, <3>3, <3>4, <3>5 DEF Ack, SendAck
    <2>3. Deliverable'
      <3>1. Remove(Msg(h)) \/ UNCHANGED queue
        BY <1>18 DEF Ack, SendAck
      <3>2. UNCHANGED <<request, delivered>>
        BY <1>18 DEF Ack
      <3>3. QED
        BY <1>18, <3>1, <3>2 DEF Remove, Ack, At
    <2>4. QED
      BY <2>1, <2>2, <2>3
  <1>19. ASSUME NEW h \in Handlers, Cleanup(h) PROVE TypeInv'
    <2>1. TypeOK'
      <3>1. slot' \in [Handlers -> [at : Points, msg : Msgs \cup {None},
                                   attempt : 0..MaxDeliver, verdict : Terminal]]
        BY <1>19, SlotType DEF Cleanup
      <3>2. stored' \in [Jobs -> BOOLEAN]
        BY <1>19 DEF Cleanup
      <3>3. QED
        BY <1>19, <3>1, <3>2 DEF Cleanup
    <2>2. SlotsHold'
      BY <1>19 DEF Cleanup, At, Release, Free
    <2>3. Deliverable'
      BY <1>19 DEF Cleanup, At, Release, Free
    <2>4. QED
      BY <2>1, <2>2, <2>3
  <1>20. ASSUME NEW h \in Handlers, Nak(h) PROVE TypeInv'
    BY <1>20 DEF Nak, At, Requeue, Release, Free
  <1>21. ASSUME NEW h \in Handlers, WorkerCrash(h) PROVE TypeInv'
    BY <1>21 DEF WorkerCrash, At, Release, Free
  <1>22. CASE UNCHANGED vars
    BY <1>22 DEF vars
  <1>23. QED
    BY <1>1, <1>2, <1>3, <1>4, <1>5, <1>6, <1>7, <1>8, <1>9, <1>10, <1>11, <1>12, <1>13,
       <1>14, <1>15, <1>16, <1>17, <1>18, <1>19, <1>20, <1>21, <1>22
       DEF Next, ApiStep, WorkerStep

(* Every value stays in its type: in particular no message is delivered    *)
(* more than job_max_deliver times and no record shows more attempts.      *)
THEOREM TypeCorrect == Spec => []TypeOK
  <1>1. TypeInv => TypeOK
    BY DEF TypeInv
  <1>2. QED
    BY <1>1, TypeInit, TypeStep, PTL DEF Spec

-----------------------------------------------------------------------------
(* Persist before acknowledge                                              *)

(* The set settled remembers every outcome on record, and a handler that   *)
(* acknowledges or cleans up has seen the outcome persisted.               *)
OutcomeRemembered == \A j \in Jobs : record[j].status \in Terminal => j \in settled
AckersSettled ==
  \A h \in Handlers : slot[h].at \in {"ack", "ackSeen", "cleanup"} => Msg(h) \in settled

PersistInv == OutcomeRemembered /\ AckersSettled /\ PersistBeforeAck

LEMMA PersistStep == TypeInv /\ PersistInv /\ [Next]_vars => PersistInv'
  <1> SUFFICES ASSUME TypeInv, PersistInv, [Next]_vars PROVE PersistInv'
    OBVIOUS
  <1> USE MsgAssumption DEF TypeInv, TypeOK, SlotsHold, JobPoints, PersistInv,
        OutcomeRemembered, AckersSettled, PersistBeforeAck, Msg, Msgs, Terminal
  <1>1. ASSUME NEW j \in Jobs, Upload(j) PROVE PersistInv'
    BY <1>1 DEF Upload, Moves, apiRest
  <1>2. ASSUME NEW j \in Jobs, SubmitRecord(j) PROVE PersistInv'
    BY <1>2 DEF SubmitRecord, Moves, apiRest, Put, PutFails
  <1>3. ASSUME NEW j \in Jobs, Publish(j) PROVE PersistInv'
    BY <1>3 DEF Publish, Moves
  <1>4. ASSUME NEW j \in Jobs, PublishAcked(j) PROVE PersistInv'
    BY <1>4 DEF PublishAcked, Moves, apiRest
  <1>5. ASSUME NEW j \in Jobs, UndoUpload(j) PROVE PersistInv'
    BY <1>5 DEF UndoUpload, Moves, apiRest
  <1>6. ASSUME NEW j \in Jobs, ApiCrash(j) PROVE PersistInv'
    BY <1>6 DEF ApiCrash, Moves, apiRest
  <1>7. ASSUME NEW j \in Jobs, ExpireRecord(j) \/ ExpireInput(j) PROVE PersistInv'
    BY <1>7 DEF ExpireRecord, ExpireInput
  <1>8. ASSUME NEW m \in Foreign, ForeignPublish(m) PROVE PersistInv'
    BY <1>8 DEF ForeignPublish
  <1>9. ASSUME NEW m \in Msgs, AckWaitExpires(m) PROVE PersistInv'
    BY <1>9 DEF AckWaitExpires, Requeue
  <1>10. ASSUME NEW m \in Msgs, ExpireMessage(m) PROVE PersistInv'
    BY <1>10 DEF ExpireMessage
  <1>11. ASSUME NEW h \in Handlers, NEW m \in Msgs, Deliver(h, m) PROVE PersistInv'
    BY <1>11 DEF Deliver, At
  <1>12. ASSUME NEW h \in Handlers, Terminate(h) PROVE PersistInv'
    <2>1. OutcomeRemembered' /\ PersistBeforeAck'
      BY <1>12 DEF Terminate, At, Remove
    <2>2. AckersSettled'
      <3>1. CASE Release(h)
        BY <1>12, <3>1 DEF Terminate, Release, Free
      <3>2. CASE Goto(h, "nak")
        BY <1>12, <3>2 DEF Terminate, At, Goto
      <3>3. QED
        BY <1>12, <3>1, <3>2 DEF Terminate
    <2>3. QED
      BY <2>1, <2>2
  <1>13. ASSUME NEW h \in Handlers, ReadRecord(h) PROVE PersistInv'
    <2>1. OutcomeRemembered' /\ PersistBeforeAck'
      BY <1>13 DEF ReadRecord
    <2>2. AckersSettled'
      <3>1. CASE Goto(h, "ackSeen") /\ record[Msg(h)].status \in Terminal
        BY <1>13, <3>1 DEF ReadRecord, At, Goto
      <3>2. CASE Goto(h, "mark") \/ Goto(h, "nak")
        BY <1>13, <3>2 DEF ReadRecord, At, Goto
      <3>3. QED
        BY <1>13, <3>1, <3>2 DEF ReadRecord
    <2>3. QED
      BY <2>1, <2>2
  <1>14. ASSUME NEW h \in Handlers, MarkProcessing(h) PROVE PersistInv'
    <2>1. OutcomeRemembered' /\ PersistBeforeAck'
      BY <1>14 DEF MarkProcessing, At, Put, PutFails
    <2>2. AckersSettled'
      <3>1. CASE Put(Msg(h), "processing", slot[h].attempt) /\ Goto(h, "get")
        BY <1>14, <3>1 DEF MarkProcessing, At, Goto, Put
      <3>2. CASE Goto(h, "nak")
        BY <1>14, <3>2 DEF MarkProcessing, At, Goto, Put, PutFails
      <3>3. QED
        BY <1>14, <3>1, <3>2 DEF MarkProcessing
    <2>3. QED
      BY <2>1, <2>2
  <1>15. ASSUME NEW h \in Handlers, GetInput(h) PROVE PersistInv'
    BY <1>15, WorkLemma
  <1>16. ASSUME NEW h \in Handlers, Analyze(h) PROVE PersistInv'
    BY <1>16, WorkLemma
  <1>17. ASSUME NEW h \in Handlers, Finish(h) PROVE PersistInv'
    <2>1. OutcomeRemembered' /\ PersistBeforeAck'
      BY <1>17 DEF Finish, At, Put, PutFails
    <2>2. AckersSettled'
      <3>1. CASE Put(Msg(h), slot[h].verdict, slot[h].attempt) /\ Goto(h, "ack")
        BY <1>17, <3>1 DEF Finish, At, Goto, Put
      <3>2. CASE Goto(h, "nak")
        BY <1>17, <3>2 DEF Finish, At, Goto, Put, PutFails
      <3>3. QED
        BY <1>17, <3>1, <3>2 DEF Finish
    <2>3. QED
      BY <2>1, <2>2
  <1>18. ASSUME NEW h \in Handlers, Ack(h) PROVE PersistInv'
    <2>1. OutcomeRemembered'
      BY <1>18, AckLemma
    <2>2. Msg(h) \in settled
      BY <1>18, AckLemma
    <2>3. PersistBeforeAck'
      BY <1>18, <2>2, AckLemma DEF Remove
    <2>4. AckersSettled'
      BY <1>18, <2>2, AckLemma
    <2>5. QED
      BY <2>1, <2>3, <2>4
  <1>19. ASSUME NEW h \in Handlers, Cleanup(h) PROVE PersistInv'
    BY <1>19 DEF Cleanup, At, Release, Free
  <1>20. ASSUME NEW h \in Handlers, Nak(h) PROVE PersistInv'
    BY <1>20 DEF Nak, At, Requeue, Release, Free
  <1>21. ASSUME NEW h \in Handlers, WorkerCrash(h) PROVE PersistInv'
    BY <1>21 DEF WorkerCrash, At, Release, Free
  <1>22. CASE UNCHANGED vars
    BY <1>22 DEF vars
  <1>23. QED
    BY <1>1, <1>2, <1>3, <1>4, <1>5, <1>6, <1>7, <1>8, <1>9, <1>10, <1>11, <1>12, <1>13, <1>14,
       <1>15, <1>16, <1>17, <1>18, <1>19, <1>20, <1>21, <1>22
       DEF Next, ApiStep, WorkerStep

(* "Persist before acknowledge": whatever fails and in whatever order      *)
(* deliveries, acknowledgements and naks interleave, only a persisted      *)
(* outcome takes a job off the work queue.                                 *)
THEOREM PersistBeforeAckHolds == Spec => []PersistBeforeAck
  <1>1. Init => PersistInv
    BY DEF Init, PersistInv, OutcomeRemembered, AckersSettled, PersistBeforeAck, Free,
       Terminal, Msgs
  <1>2. PersistInv => PersistBeforeAck
    BY DEF PersistInv
  <1>3. QED
    BY <1>1, <1>2, TypeInit, TypeStep, PersistStep, PTL DEF Spec

-----------------------------------------------------------------------------
(* The input and the message of a job that is not settled                  *)

(* A message that is gone, by acknowledgement or by its age, stays so, and *)
(* one that has been parked is never delivered again.                      *)
StaysGone ==
  \A m \in Msgs :
    /\ queue[m] \in {"acked", "expired"} => queue'[m] = queue[m]
    /\ queue[m] = "exhausted" => queue'[m] \in {"exhausted", "acked", "expired"}
GoneIsGone == [][StaysGone]_queue

LEMMA StaysGoneStep == TypeInv /\ [Next]_vars => StaysGone
  <1> SUFFICES ASSUME TypeInv, [Next]_vars PROVE StaysGone
    OBVIOUS
  <1>1. queue \in [Msgs -> QueueStates] /\ Jobs \subseteq Msgs /\ Foreign \subseteq Msgs
    BY DEF TypeInv, TypeOK, Msgs
  <1>2. ASSUME NEW j \in Jobs, Publish(j) PROVE StaysGone
    <2>1. queue[j] = "absent"
      BY <1>2 DEF Publish, Moves, TypeInv, Deliverable
    <2>2. QED
      BY <1>1, <1>2, <2>1 DEF Publish, StaysGone
  <1>3. ASSUME NEW m \in Foreign, ForeignPublish(m) PROVE StaysGone
    BY <1>1, <1>3 DEF ForeignPublish, StaysGone
  <1>4. ASSUME NEW m \in Msgs, ExpireMessage(m) PROVE StaysGone
    BY <1>1, <1>4 DEF ExpireMessage, StaysGone
  <1>5. ASSUME NEW h \in Handlers, NEW m \in Msgs, Deliver(h, m) PROVE StaysGone
    BY <1>1, <1>5 DEF Deliver, StaysGone
  <1>6. ASSUME NEW m, Remove(m) \/ Requeue(m) PROVE StaysGone
    BY <1>1, <1>6 DEF Remove, Requeue, StaysGone
  <1>7. CASE UNCHANGED queue
    BY <1>7 DEF StaysGone
  <1>8. QED
    BY <1>2, <1>3, <1>4, <1>5, <1>6, <1>7
       DEF Next, ApiStep, WorkerStep, Upload, SubmitRecord, PublishAcked, UndoUpload,
           ApiCrash, ExpireRecord, ExpireInput, AckWaitExpires, Terminate, ReadRecord,
           MarkProcessing, GetInput, Analyze, Retry, Finish, Ack, SendAck, Cleanup, Nak,
           WorkerCrash, vars, apiRest

(* From its upload to its acceptance, the request keeps the input, and only*)
(* a handler that has seen the outcome persisted deletes it.               *)
InputInv ==
  \A j \in Jobs :
    /\ request[j] \in {"uploaded", "queuing", "sent", "accepted"}
    /\ j \notin settled /\ queue[j] # "expired"
    => stored[j]

(* A published message is in the stream until it is removed or expires.    *)
PublishedInv ==
  /\ \A j \in Jobs : request[j] \in {"sent", "accepted"} => queue[j] # "absent"
  /\ \A j \in Jobs : queue[j] = "expired" => May("expiry")

LEMMA InputStep == TypeInv /\ PersistInv /\ InputInv /\ [Next]_vars => InputInv'
  <1> SUFFICES ASSUME TypeInv, PersistInv, InputInv, [Next]_vars PROVE InputInv'
    OBVIOUS
  <1> DEFINE Kept == {"uploaded", "queuing", "sent", "accepted"}
  <1>1. /\ request \in [Jobs -> RequestStates] /\ stored \in [Jobs -> BOOLEAN]
        /\ Jobs \subseteq Msgs
    BY DEF TypeInv, TypeOK, Msgs
  <1>2. \A i \in Jobs : queue'[i] # "expired" => queue[i] # "expired"
    BY <1>1, StaysGoneStep DEF StaysGone
  <1>3. settled \subseteq settled'
    BY DEF Next, ApiStep, WorkerStep, Upload, SubmitRecord, Publish, PublishAcked, UndoUpload,
           ApiCrash, ExpireRecord, ExpireInput, ForeignPublish, AckWaitExpires, ExpireMessage,
           Deliver, Terminate, ReadRecord, MarkProcessing, GetInput, Analyze, Finish, Ack,
           Cleanup, Nak, WorkerCrash, Put, PutFails, apiRest, vars
  <1>4. SUFFICES \A i \in Jobs :
                   request'[i] \in Kept /\ i \notin settled' /\ queue'[i] # "expired" =>
                     stored'[i] \/ (request[i] \in Kept /\ (stored[i] => stored'[i]))
    BY <1>2, <1>3 DEF InputInv
  <1>5. ASSUME NEW j \in Jobs, Upload(j)
        PROVE  \A i \in Jobs : request'[i] \in Kept =>
                 stored'[i] \/ (request[i] \in Kept /\ (stored[i] => stored'[i]))
    BY <1>1, <1>5 DEF Upload, Moves
  <1>6. ASSUME NEW j \in Jobs,
               SubmitRecord(j) \/ Publish(j) \/ PublishAcked(j) \/ ApiCrash(j)
        PROVE  \A i \in Jobs : request'[i] \in Kept =>
                 request[i] \in Kept /\ (stored[i] => stored'[i])
    BY <1>1, <1>6 DEF SubmitRecord, Publish, PublishAcked, ApiCrash, Moves
  <1>7. ASSUME NEW j \in Jobs, UndoUpload(j)
        PROVE  \A i \in Jobs : request'[i] \in Kept =>
                 request[i] \in Kept /\ (stored[i] => stored'[i])
    BY <1>1, <1>7 DEF UndoUpload, Moves
  <1>8. ASSUME NEW j \in Jobs, ExpireInput(j)
        PROVE  \A i \in Jobs : request'[i] \in Kept /\ i \notin settled' /\ queue'[i] # "expired" =>
                 request[i] \in Kept /\ (stored[i] => stored'[i])
    BY <1>1, <1>8 DEF ExpireInput, PersistInv, PersistBeforeAck
  <1>9. ASSUME NEW h \in Handlers, Cleanup(h)
        PROVE  \A i \in Jobs : request'[i] \in Kept /\ i \notin settled' =>
                 request[i] \in Kept /\ (stored[i] => stored'[i])
    <2>1. Msg(h) \in settled
      BY <1>9 DEF Cleanup, At, PersistInv, AckersSettled, TypeInv, SlotsHold, JobPoints, Msg
    <2>2. QED
      BY <1>1, <1>9, <2>1 DEF Cleanup
  <1>10. CASE UNCHANGED <<request, stored>>
    BY <1>10
  <1>11. QED
    BY <1>5, <1>6, <1>7, <1>8, <1>9, <1>10
       DEF Next, ApiStep, WorkerStep, ExpireRecord, ForeignPublish, AckWaitExpires,
           ExpireMessage, Deliver, Terminate, ReadRecord, MarkProcessing, GetInput, Analyze,
           Finish, Ack, Nak, WorkerCrash, vars

LEMMA PublishedStep == TypeInv /\ PublishedInv /\ [Next]_vars => PublishedInv'
  <1> SUFFICES ASSUME TypeInv, PublishedInv, [Next]_vars PROVE PublishedInv'
    OBVIOUS
  <1> USE DEF TypeInv, TypeOK, SlotsHold, JobPoints, PublishedInv, Msg, Msgs, QueueStates
  <1>1. ASSUME NEW j \in Jobs, Upload(j) PROVE PublishedInv'
    BY <1>1 DEF Upload, Moves, apiRest
  <1>2. ASSUME NEW j \in Jobs, SubmitRecord(j) PROVE PublishedInv'
    BY <1>2 DEF SubmitRecord, Moves, apiRest
  <1>3. ASSUME NEW j \in Jobs, Publish(j) PROVE PublishedInv'
    BY <1>3 DEF Publish, Moves
  <1>4. ASSUME NEW j \in Jobs, PublishAcked(j) PROVE PublishedInv'
    BY <1>4 DEF PublishAcked, Moves, apiRest
  <1>5. ASSUME NEW j \in Jobs, UndoUpload(j) PROVE PublishedInv'
    BY <1>5 DEF UndoUpload, Moves, apiRest
  <1>6. ASSUME NEW j \in Jobs, ApiCrash(j) PROVE PublishedInv'
    BY <1>6 DEF ApiCrash, Moves, apiRest
  <1>7. ASSUME NEW j \in Jobs, ExpireRecord(j) \/ ExpireInput(j) PROVE PublishedInv'
    BY <1>7 DEF ExpireRecord, ExpireInput
  <1>8. ASSUME NEW m \in Foreign, ForeignPublish(m) PROVE PublishedInv'
    BY <1>8 DEF ForeignPublish
  <1>9. ASSUME NEW m \in Msgs, AckWaitExpires(m) PROVE PublishedInv'
    BY <1>9 DEF AckWaitExpires, Requeue
  <1>10. ASSUME NEW m \in Msgs, ExpireMessage(m) PROVE PublishedInv'
    BY <1>10 DEF ExpireMessage
  <1>11. ASSUME NEW h \in Handlers, NEW m \in Msgs, Deliver(h, m) PROVE PublishedInv'
    BY <1>11 DEF Deliver, At
  <1>12. ASSUME NEW h \in Handlers, Terminate(h) PROVE PublishedInv'
    BY <1>12 DEF Terminate, At, Remove
  <1>13. ASSUME NEW h \in Handlers, ReadRecord(h) PROVE PublishedInv'
    BY <1>13 DEF ReadRecord, At
  <1>14. ASSUME NEW h \in Handlers, MarkProcessing(h) PROVE PublishedInv'
    BY <1>14 DEF MarkProcessing, At
  <1>15. ASSUME NEW h \in Handlers, GetInput(h) PROVE PublishedInv'
    BY <1>15 DEF GetInput, At, Retry
  <1>16. ASSUME NEW h \in Handlers, Analyze(h) PROVE PublishedInv'
    BY <1>16 DEF Analyze, At, Retry
  <1>17. ASSUME NEW h \in Handlers, Finish(h) PROVE PublishedInv'
    BY <1>17 DEF Finish, At
  <1>18. ASSUME NEW h \in Handlers, Ack(h) PROVE PublishedInv'
    BY <1>18 DEF Ack, SendAck, At, Remove
  <1>19. ASSUME NEW h \in Handlers, Cleanup(h) PROVE PublishedInv'
    BY <1>19 DEF Cleanup, At
  <1>20. ASSUME NEW h \in Handlers, Nak(h) PROVE PublishedInv'
    BY <1>20 DEF Nak, At, Requeue
  <1>21. ASSUME NEW h \in Handlers, WorkerCrash(h) PROVE PublishedInv'
    BY <1>21 DEF WorkerCrash, At
  <1>22. CASE UNCHANGED vars
    BY <1>22 DEF vars
  <1>23. QED
    BY <1>1, <1>2, <1>3, <1>4, <1>5, <1>6, <1>7, <1>8, <1>9, <1>10, <1>11, <1>12, <1>13, <1>14,
       <1>15, <1>16, <1>17, <1>18, <1>19, <1>20, <1>21, <1>22
       DEF Next, ApiStep, WorkerStep

(* No retry, redelivery, crash or failed call deletes the video of an      *)
(* accepted job before its outcome is persisted.                           *)
THEOREM InputKeptHolds == Spec => []InputKeptUntilSettled
  <1>1. Init => PersistInv /\ InputInv
    BY DEF Init, PersistInv, OutcomeRemembered, AckersSettled, PersistBeforeAck, InputInv, Free,
           Terminal, Msgs
  <1>2. InputInv => InputKeptUntilSettled
    BY DEF InputInv, InputKeptUntilSettled
  <1>3. QED
    BY <1>1, <1>2, TypeInit, TypeStep, PersistStep, InputStep, PTL DEF Spec

(* An accepted job whose outcome is not persisted still has its message in *)
(* the stream, unless the stream's own time to live removed it.            *)
THEOREM AcceptedIsNotLostHolds == Spec => []AcceptedIsNotLost
  <1>1. Init => PersistInv /\ PublishedInv
    BY DEF Init, PersistInv, OutcomeRemembered, AckersSettled, PersistBeforeAck, PublishedInv,
       Free,
           Terminal, Msgs
  <1>2. TypeOK /\ PersistInv /\ PublishedInv => AcceptedIsNotLost
    BY DEF TypeOK, PersistInv, PersistBeforeAck, PublishedInv, AcceptedIsNotLost, QueueStates,
       Msgs
  <1>3. TypeInv => TypeOK
    BY DEF TypeInv
  <1>4. QED
    BY <1>1, <1>2, <1>3, TypeInit, TypeStep, PersistStep, PublishedStep, PTL DEF Spec

-----------------------------------------------------------------------------
(* Handlers that stay within job_ack_wait_s                                *)

InTime == "overrun" \notin Faults
Unexpired == "expiry" \notin Faults

(* What makes a handler the only one: the message it holds is pending, or  *)
(* gone, and its delivery is the latest.                                   *)
HoldersCurrent ==
  \A h \in Handlers : Msg(h) # None =>
    /\ queue[Msg(h)] \in {"inflight", "acked", "expired"}
    /\ slot[h].attempt = delivered[Msg(h)]

HoldInv == OneHandlerPerJob /\ HoldersCurrent

(* A handler's own step leaves every handler with the delivery it had, or  *)
(* with none.                                                              *)
Hands == \A i \in Handlers :
  \/ slot'[i].msg = None
  \/ slot'[i].msg = slot[i].msg /\ slot'[i].attempt = slot[i].attempt

LEMMA HandsLemma ==
  ASSUME TypeOK, NEW h \in Handlers, NEW p \in Points, NEW v \in Terminal,
         Goto(h, p) \/ Release(h) \/ Conclude(h, v)
  PROVE  Hands
  <1>1. CASE Goto(h, p)
    BY <1>1 DEF TypeOK, Goto, Hands
  <1>2. CASE Release(h)
    BY <1>2 DEF TypeOK, Release, Free, Hands
  <1>3. CASE Conclude(h, v)
    BY <1>3 DEF TypeOK, Conclude, Hands
  <1>4. QED
    BY <1>1, <1>2, <1>3

LEMMA HandsKeepHoldInv ==
  ASSUME TypeInv, HoldInv, Hands, UNCHANGED delivered,
         \A m \in Msgs : queue'[m] \in {queue[m], "acked"}
  PROVE  HoldInv'
  BY DEF TypeInv, TypeOK, Hands, HoldInv, OneHandlerPerJob, HoldersCurrent, Msg

LEMMA HoldStep ==
  ASSUME InTime
  PROVE  TypeInv /\ HoldInv /\ [Next]_vars => HoldInv'
  <1> SUFFICES ASSUME TypeInv, HoldInv, [Next]_vars PROVE HoldInv'
    OBVIOUS
  <1> USE MsgAssumption DEF TypeInv, TypeOK, SlotsHold, Deliverable, JobPoints, Msg, Msgs,
        HoldInv, OneHandlerPerJob, HoldersCurrent
  <1>1. ASSUME NEW j \in Jobs, Upload(j) PROVE HoldInv'
    BY <1>1 DEF Upload, Moves, apiRest
  <1>2. ASSUME NEW j \in Jobs, SubmitRecord(j) PROVE HoldInv'
    BY <1>2 DEF SubmitRecord, Moves, apiRest
  <1>3. ASSUME NEW j \in Jobs, Publish(j) PROVE HoldInv'
    BY <1>3 DEF Publish, Moves
  <1>4. ASSUME NEW j \in Jobs, PublishAcked(j) PROVE HoldInv'
    BY <1>4 DEF PublishAcked, Moves, apiRest
  <1>5. ASSUME NEW j \in Jobs, UndoUpload(j) PROVE HoldInv'
    BY <1>5 DEF UndoUpload, Moves, apiRest
  <1>6. ASSUME NEW j \in Jobs, ApiCrash(j) PROVE HoldInv'
    BY <1>6 DEF ApiCrash, Moves, apiRest
  <1>7. ASSUME NEW j \in Jobs, ExpireRecord(j) \/ ExpireInput(j) PROVE HoldInv'
    BY <1>7 DEF ExpireRecord, ExpireInput
  <1>8. ASSUME NEW m \in Foreign, ForeignPublish(m) PROVE HoldInv'
    BY <1>8 DEF ForeignPublish
  <1>9. ASSUME NEW m \in Msgs, AckWaitExpires(m) PROVE HoldInv'
    BY <1>9 DEF AckWaitExpires, Requeue, Holders, InTime, May
  <1>10. ASSUME NEW m \in Msgs, ExpireMessage(m) PROVE HoldInv'
    BY <1>10 DEF ExpireMessage
  <1>11. ASSUME NEW h \in Handlers, NEW m \in Msgs, Deliver(h, m) PROVE HoldInv'
    BY <1>11 DEF Deliver, At
  <1>12. ASSUME NEW h \in Handlers, Terminate(h) PROVE HoldInv'
    <2>1. Hands
      BY <1>12, HandsLemma DEF Terminate, Points, Terminal
    <2>2. UNCHANGED delivered /\ \A m \in Msgs : queue'[m] \in {queue[m], "acked"}
      BY <1>12 DEF Terminate, Remove
    <2>3. QED
      BY <2>1, <2>2, HandsKeepHoldInv
  <1>13. ASSUME NEW h \in Handlers, ReadRecord(h) PROVE HoldInv'
    <2>1. Hands
      BY <1>13, HandsLemma DEF ReadRecord, Points, Terminal
    <2>2. UNCHANGED delivered /\ \A m \in Msgs : queue'[m] \in {queue[m], "acked"}
      BY <1>13 DEF ReadRecord
    <2>3. QED
      BY <2>1, <2>2, HandsKeepHoldInv
  <1>14. ASSUME NEW h \in Handlers, MarkProcessing(h) PROVE HoldInv'
    <2>1. Hands
      BY <1>14, HandsLemma DEF MarkProcessing, Points, Terminal
    <2>2. UNCHANGED delivered /\ \A m \in Msgs : queue'[m] \in {queue[m], "acked"}
      BY <1>14 DEF MarkProcessing
    <2>3. QED
      BY <2>1, <2>2, HandsKeepHoldInv
  <1>15. ASSUME NEW h \in Handlers, GetInput(h) PROVE HoldInv'
    <2>1. Hands
      BY <1>15, HandsLemma DEF GetInput, Retry, Points, Terminal
    <2>2. UNCHANGED delivered /\ \A m \in Msgs : queue'[m] \in {queue[m], "acked"}
      BY <1>15 DEF GetInput, Retry
    <2>3. QED
      BY <2>1, <2>2, HandsKeepHoldInv
  <1>16. ASSUME NEW h \in Handlers, Analyze(h) PROVE HoldInv'
    <2>1. Hands
      BY <1>16, HandsLemma DEF Analyze, Retry, Points, Terminal
    <2>2. UNCHANGED delivered /\ \A m \in Msgs : queue'[m] \in {queue[m], "acked"}
      BY <1>16 DEF Analyze, Retry
    <2>3. QED
      BY <2>1, <2>2, HandsKeepHoldInv
  <1>17. ASSUME NEW h \in Handlers, Finish(h) PROVE HoldInv'
    <2>1. Hands
      BY <1>17, HandsLemma DEF Finish, Points, Terminal
    <2>2. UNCHANGED delivered /\ \A m \in Msgs : queue'[m] \in {queue[m], "acked"}
      BY <1>17 DEF Finish
    <2>3. QED
      BY <2>1, <2>2, HandsKeepHoldInv
  <1>18. ASSUME NEW h \in Handlers, Ack(h) PROVE HoldInv'
    <2>1. Hands
      BY <1>18, HandsLemma DEF Ack, SendAck, Points, Terminal
    <2>2. UNCHANGED delivered /\ \A m \in Msgs : queue'[m] \in {queue[m], "acked"}
      BY <1>18 DEF Ack, SendAck, Remove
    <2>3. QED
      BY <2>1, <2>2, HandsKeepHoldInv
  <1>19. ASSUME NEW h \in Handlers, Cleanup(h) PROVE HoldInv'
    BY <1>19 DEF Cleanup, At, Release, Free
  <1>20. ASSUME NEW h \in Handlers, Nak(h) PROVE HoldInv'
    BY <1>20 DEF Nak, At, Requeue, Release, Free
  <1>21. ASSUME NEW h \in Handlers, WorkerCrash(h) PROVE HoldInv'
    BY <1>21 DEF WorkerCrash, At, Release, Free
  <1>22. CASE UNCHANGED vars
    BY <1>22 DEF vars
  <1>23. QED
    BY <1>1, <1>2, <1>3, <1>4, <1>5, <1>6, <1>7, <1>8, <1>9, <1>10, <1>11, <1>12, <1>13, <1>14,
       <1>15, <1>16, <1>17, <1>18, <1>19, <1>20, <1>21, <1>22
       DEF Next, ApiStep, WorkerStep

(* Handlers that stay within the acknowledgement deadline never work on    *)
(* one job at the same time, whatever is redelivered.                      *)
THEOREM OneHandlerPerJobHolds ==
  ASSUME InTime
  PROVE  Spec => []OneHandlerPerJob
  <1>1. Init => HoldInv
    BY DEF Init, HoldInv, OneHandlerPerJob, HoldersCurrent, Free, Msg
  <1>2. HoldInv => OneHandlerPerJob
    BY DEF HoldInv
  <1>3. TypeInv /\ HoldInv /\ [Next]_vars => HoldInv'
    BY HoldStep
  <1>4. QED
    BY <1>1, <1>2, <1>3, TypeInit, TypeStep, PTL DEF Spec

-----------------------------------------------------------------------------
(* The record of a job moves forward only                                  *)

(* The record exists from before the message until its time to live, and   *)
(* its attempts are deliveries that took place.                            *)
OnRecord ==
  \A j \in Jobs :
    /\ request[j] \in {"idle", "uploaded"} => record[j].status = "none"
    /\ request[j] \in {"queuing", "sent", "accepted"} => record[j].status # "none"
    /\ queue[j] # "absent" => record[j].status # "none"
    /\ record[j].attempts <= delivered[j]

(* What a handler read or wrote is still what the record says.             *)
ViewsCurrent ==
  \A h \in Handlers :
    /\ slot[h].at = "mark" => record[Msg(h)].status \in {"queued", "processing"}
    /\ slot[h].at \in {"get", "analyze", "finish"} => record[Msg(h)].status = "processing"
    /\ slot[h].at \in {"ack", "ackSeen", "cleanup"} => record[Msg(h)].status \in Terminal

RecordInv == OnRecord /\ ViewsCurrent

LEMMA OnRecordStep ==
  ASSUME Unexpired
  PROVE  TypeInv /\ HoldInv /\ RecordInv /\ [Next]_vars => OnRecord'
  <1> SUFFICES ASSUME TypeInv, HoldInv, RecordInv, [Next]_vars PROVE OnRecord'
    OBVIOUS
  <1> USE MsgAssumption DEF TypeInv, TypeOK, SlotsHold, Deliverable, JobPoints, Msg, Msgs,
        HoldInv, OneHandlerPerJob, HoldersCurrent, Terminal, Statuses, OnRecord, ViewsCurrent,
        RecordInv
  <1>1. ASSUME NEW j \in Jobs, Upload(j) PROVE OnRecord'
    BY <1>1 DEF Upload, Moves, apiRest
  <1>2. ASSUME NEW j \in Jobs, SubmitRecord(j) PROVE OnRecord'
    BY <1>2 DEF SubmitRecord, Moves, apiRest, Put, PutFails
  <1>3. ASSUME NEW j \in Jobs, Publish(j) PROVE OnRecord'
    BY <1>3 DEF Publish, Moves
  <1>4. ASSUME NEW j \in Jobs, PublishAcked(j) PROVE OnRecord'
    BY <1>4 DEF PublishAcked, Moves, apiRest
  <1>5. ASSUME NEW j \in Jobs, UndoUpload(j) PROVE OnRecord'
    BY <1>5 DEF UndoUpload, Moves, apiRest
  <1>6. ASSUME NEW j \in Jobs, ApiCrash(j) PROVE OnRecord'
    BY <1>6 DEF ApiCrash, Moves, apiRest
  <1>7. ASSUME NEW j \in Jobs, ExpireRecord(j) \/ ExpireInput(j) PROVE OnRecord'
    BY <1>7 DEF ExpireRecord, ExpireInput, Unexpired, May
  <1>8. ASSUME NEW m \in Foreign, ForeignPublish(m) PROVE OnRecord'
    BY <1>8 DEF ForeignPublish
  <1>9. ASSUME NEW m \in Msgs, AckWaitExpires(m) PROVE OnRecord'
    BY <1>9 DEF AckWaitExpires, Requeue
  <1>10. ASSUME NEW m \in Msgs, ExpireMessage(m) PROVE OnRecord'
    BY <1>10 DEF ExpireMessage
  <1>11. ASSUME NEW h \in Handlers, NEW m \in Msgs, Deliver(h, m) PROVE OnRecord'
    BY <1>11 DEF Deliver, At
  <1>12. ASSUME NEW h \in Handlers, Terminate(h) PROVE OnRecord'
    BY <1>12 DEF Terminate, At, Remove, Release, Goto, Free
  <1>13. ASSUME NEW h \in Handlers, ReadRecord(h) PROVE OnRecord'
    BY <1>13 DEF ReadRecord, At, Goto
  <1>14. ASSUME NEW h \in Handlers, MarkProcessing(h) PROVE OnRecord'
    <2>1. /\ Put(Msg(h), "processing", slot[h].attempt) \/ UNCHANGED record
          /\ Msg(h) \in Jobs /\ UNCHANGED <<request, queue, delivered>>
      BY <1>14 DEF MarkProcessing, At, PutFails
    <2>2. request[Msg(h)] \notin {"idle", "uploaded"} /\ slot[h].attempt <= delivered[Msg(h)]
      BY <1>14, <2>1 DEF MarkProcessing, At
    <2>3. QED
      BY <2>1, <2>2 DEF Put
  <1>15. ASSUME NEW h \in Handlers, GetInput(h) PROVE OnRecord'
    BY <1>15, WorkLemma
  <1>16. ASSUME NEW h \in Handlers, Analyze(h) PROVE OnRecord'
    BY <1>16, WorkLemma
  <1>17. ASSUME NEW h \in Handlers, Finish(h) PROVE OnRecord'
    BY <1>17 DEF Finish, At, Goto, Put, PutFails
  <1>18. ASSUME NEW h \in Handlers, Ack(h) PROVE OnRecord'
    BY <1>18, AckLemma DEF Remove
  <1>19. ASSUME NEW h \in Handlers, Cleanup(h) PROVE OnRecord'
    BY <1>19 DEF Cleanup, At, Release, Free
  <1>20. ASSUME NEW h \in Handlers, Nak(h) PROVE OnRecord'
    BY <1>20 DEF Nak, At, Requeue, Release, Free
  <1>21. ASSUME NEW h \in Handlers, WorkerCrash(h) PROVE OnRecord'
    BY <1>21 DEF WorkerCrash, At, Release, Free
  <1>22. CASE UNCHANGED vars
    BY <1>22 DEF vars
  <1>23. QED
    BY <1>1, <1>2, <1>3, <1>4, <1>5, <1>6, <1>7, <1>8, <1>9, <1>10, <1>11, <1>12, <1>13, <1>14,
       <1>15, <1>16, <1>17, <1>18, <1>19, <1>20, <1>21, <1>22
       DEF Next, ApiStep, WorkerStep

LEMMA ViewsStep ==
  ASSUME Unexpired
  PROVE  TypeInv /\ HoldInv /\ RecordInv /\ [Next]_vars => ViewsCurrent'
  <1> SUFFICES ASSUME TypeInv, HoldInv, RecordInv, [Next]_vars PROVE ViewsCurrent'
    OBVIOUS
  <1> USE MsgAssumption DEF TypeInv, TypeOK, SlotsHold, Deliverable, JobPoints, Msg, Msgs,
        HoldInv, OneHandlerPerJob, HoldersCurrent, Terminal, Statuses, OnRecord, ViewsCurrent,
        RecordInv
  <1>1. ASSUME NEW j \in Jobs, Upload(j) PROVE ViewsCurrent'
    BY <1>1 DEF Upload, Moves, apiRest
  <1>2. ASSUME NEW j \in Jobs, SubmitRecord(j) PROVE ViewsCurrent'
    BY <1>2 DEF SubmitRecord, Moves, apiRest, Put, PutFails
  <1>3. ASSUME NEW j \in Jobs, Publish(j) PROVE ViewsCurrent'
    BY <1>3 DEF Publish, Moves
  <1>4. ASSUME NEW j \in Jobs, PublishAcked(j) PROVE ViewsCurrent'
    BY <1>4 DEF PublishAcked, Moves, apiRest
  <1>5. ASSUME NEW j \in Jobs, UndoUpload(j) PROVE ViewsCurrent'
    BY <1>5 DEF UndoUpload, Moves, apiRest
  <1>6. ASSUME NEW j \in Jobs, ApiCrash(j) PROVE ViewsCurrent'
    BY <1>6 DEF ApiCrash, Moves, apiRest
  <1>7. ASSUME NEW j \in Jobs, ExpireRecord(j) \/ ExpireInput(j) PROVE ViewsCurrent'
    BY <1>7 DEF ExpireRecord, ExpireInput, Unexpired, May
  <1>8. ASSUME NEW m \in Foreign, ForeignPublish(m) PROVE ViewsCurrent'
    BY <1>8 DEF ForeignPublish
  <1>9. ASSUME NEW m \in Msgs, AckWaitExpires(m) PROVE ViewsCurrent'
    BY <1>9 DEF AckWaitExpires, Requeue
  <1>10. ASSUME NEW m \in Msgs, ExpireMessage(m) PROVE ViewsCurrent'
    BY <1>10 DEF ExpireMessage
  <1>11. ASSUME NEW h \in Handlers, NEW m \in Msgs, Deliver(h, m) PROVE ViewsCurrent'
    BY <1>11 DEF Deliver, At
  <1>12. ASSUME NEW h \in Handlers, Terminate(h) PROVE ViewsCurrent'
    BY <1>12 DEF Terminate, At, Remove, Release, Goto, Free
  <1>13. ASSUME NEW h \in Handlers, ReadRecord(h) PROVE ViewsCurrent'
    BY <1>13 DEF ReadRecord, At, Goto
  <1>14. ASSUME NEW h \in Handlers, MarkProcessing(h) PROVE ViewsCurrent'
    BY <1>14 DEF MarkProcessing, At, Goto, Put, PutFails
  <1>15. ASSUME NEW h \in Handlers, GetInput(h) PROVE ViewsCurrent'
    BY <1>15, WorkLemma DEF GetInput, At
  <1>16. ASSUME NEW h \in Handlers, Analyze(h) PROVE ViewsCurrent'
    BY <1>16, WorkLemma DEF Analyze, At
  <1>17. ASSUME NEW h \in Handlers, Finish(h) PROVE ViewsCurrent'
    BY <1>17 DEF Finish, At, Goto, Put, PutFails
  <1>18. ASSUME NEW h \in Handlers, Ack(h) PROVE ViewsCurrent'
    BY <1>18, AckLemma DEF Remove
  <1>19. ASSUME NEW h \in Handlers, Cleanup(h) PROVE ViewsCurrent'
    BY <1>19 DEF Cleanup, At, Release, Free
  <1>20. ASSUME NEW h \in Handlers, Nak(h) PROVE ViewsCurrent'
    BY <1>20 DEF Nak, At, Requeue, Release, Free
  <1>21. ASSUME NEW h \in Handlers, WorkerCrash(h) PROVE ViewsCurrent'
    BY <1>21 DEF WorkerCrash, At, Release, Free
  <1>22. CASE UNCHANGED vars
    BY <1>22 DEF vars
  <1>23. QED
    BY <1>1, <1>2, <1>3, <1>4, <1>5, <1>6, <1>7, <1>8, <1>9, <1>10, <1>11, <1>12, <1>13, <1>14,
       <1>15, <1>16, <1>17, <1>18, <1>19, <1>20, <1>21, <1>22
       DEF Next, ApiStep, WorkerStep

LEMMA RecordInvLemma ==
  ASSUME InTime, Unexpired
  PROVE  Spec => [](TypeInv /\ HoldInv /\ RecordInv)
  <1>1. Init => HoldInv /\ RecordInv
    BY DEF Init, HoldInv, OneHandlerPerJob, HoldersCurrent, RecordInv, OnRecord, ViewsCurrent,
           Free, Msg, Msgs
  <1>2. TypeInv /\ HoldInv /\ [Next]_vars => HoldInv'
    BY HoldStep
  <1>3. TypeInv /\ HoldInv /\ RecordInv /\ [Next]_vars => RecordInv'
    BY OnRecordStep, ViewsStep DEF RecordInv
  <1>4. QED
    BY <1>1, <1>2, <1>3, TypeInit, TypeStep, PTL DEF Spec

(* The steps that write the record, and what they may write: the request   *)
(* creates it, and the one handler of the job moves it on.                 *)
Forward(j) ==
  \/ record'[j] = record[j]
  \/ /\ record[j].status \notin Terminal
     /\ record'[j].attempts >= record[j].attempts

LEMMA RecordMovesForward ==
  ASSUME Unexpired, TypeInv, HoldInv, RecordInv, [Next]_vars, NEW j \in Jobs
  PROVE  Forward(j)
  <1> USE DEF TypeInv, TypeOK, SlotsHold, JobPoints, Msg, Msgs, RecordInv, Terminal, Statuses,
        Forward
  <1>1. ASSUME NEW i \in Jobs, SubmitRecord(i) PROVE Forward(j)
    <2>1. record[i].status = "none" /\ record[i].attempts = 0
      BY <1>1 DEF SubmitRecord, Moves, OnRecord, Deliverable
    <2>2. Put(i, "queued", 0) \/ UNCHANGED record
      BY <1>1 DEF SubmitRecord, PutFails
    <2>3. QED
      BY <2>1, <2>2 DEF Put
  <1>2. ASSUME NEW h \in Handlers, MarkProcessing(h) PROVE Forward(j)
    <2>1. Msg(h) \in Jobs /\ record[Msg(h)].status \notin Terminal
      BY <1>2 DEF MarkProcessing, At, ViewsCurrent
    <2>2. slot[h].attempt = delivered[Msg(h)]
      BY <2>1, MsgAssumption DEF HoldInv, HoldersCurrent
    <2>3. record[Msg(h)].attempts <= slot[h].attempt
      BY <2>1, <2>2 DEF OnRecord
    <2>4. Put(Msg(h), "processing", slot[h].attempt) \/ UNCHANGED record
      BY <1>2 DEF MarkProcessing, PutFails
    <2>5. QED
      BY <2>1, <2>3, <2>4 DEF Put
  <1>3. ASSUME NEW h \in Handlers, Finish(h) PROVE Forward(j)
    <2>1. Msg(h) \in Jobs /\ record[Msg(h)].status \notin Terminal
      BY <1>3 DEF Finish, At, ViewsCurrent
    <2>2. slot[h].attempt = delivered[Msg(h)]
      BY <2>1, MsgAssumption DEF HoldInv, HoldersCurrent
    <2>3. record[Msg(h)].attempts <= slot[h].attempt
      BY <2>1, <2>2 DEF OnRecord
    <2>4. Put(Msg(h), slot[h].verdict, slot[h].attempt) \/ UNCHANGED record
      BY <1>3 DEF Finish, PutFails
    <2>5. QED
      BY <2>1, <2>3, <2>4 DEF Put
  <1>4. ASSUME NEW i \in Jobs, ExpireRecord(i) \/ ExpireInput(i) PROVE FALSE
    BY <1>4 DEF ExpireRecord, ExpireInput, Unexpired, May
  <1>5. CASE UNCHANGED record
    BY <1>5
  <1>6. QED
    BY <1>1, <1>2, <1>3, <1>4, <1>5
       DEF Next, ApiStep, WorkerStep, Upload, Publish, PublishAcked, UndoUpload, ApiCrash,
           ForeignPublish, AckWaitExpires, ExpireMessage, Deliver, Terminate, ReadRecord,
           GetInput,
           Analyze, Ack, Cleanup, Nak, WorkerCrash, vars, apiRest

(* While handlers stay within the deadline and no record expires, the      *)
(* outcome of a job is final: redelivery never overwrites it.              *)
THEOREM TerminalIsFinalHolds ==
  ASSUME InTime, Unexpired
  PROVE  Spec => TerminalIsFinal
  <1>1. TypeInv /\ HoldInv /\ RecordInv /\ [Next]_vars =>
          [\A j \in Jobs : record[j].status \in Terminal => record'[j] = record[j]]_record
    BY RecordMovesForward DEF Forward
  <1>2. QED
    BY <1>1, RecordInvLemma, PTL DEF Spec, TerminalIsFinal

(* Under the same assumptions the attempts shown to the client never go    *)
(* back, also when an outcome replaces a processing record.                *)
THEOREM AttemptsNeverDecreaseHolds ==
  ASSUME InTime, Unexpired
  PROVE  Spec => AttemptsNeverDecrease
  <1>1. TypeInv /\ HoldInv /\ RecordInv /\ [Next]_vars =>
          [\A j \in Jobs : record'[j].attempts >= record[j].attempts]_record
    BY RecordMovesForward DEF Forward, TypeInv, TypeOK
  <1>2. QED
    BY <1>1, RecordInvLemma, PTL DEF Spec, AttemptsNeverDecrease

-----------------------------------------------------------------------------
(* JobPipeline implements JobLifecycle                                     *)

LSame == UNCHANGED Lifecycle!vars
LStep == Lifecycle!Next \/ LSame

LEMMA LifecycleInit == Init => Lifecycle!Init
  BY DEF Init, Lifecycle!Init, ClientView

LEMMA LifecycleStep ==
  ASSUME Unexpired, TypeInv, HoldInv, RecordInv, [Next]_vars
  PROVE  LStep
  <1> USE DEF TypeInv, TypeOK, Lifecycle!vars, LSame, LStep
  <1>1. ASSUME NEW j \in Jobs, Upload(j) PROVE LStep
    <2>1. Lifecycle!Open(j)
      BY <1>1 DEF Upload, Moves, ClientView, Lifecycle!Open, Lifecycle!Set
    <2>2. QED
      BY <2>1 DEF Lifecycle!Next
  <1>2. ASSUME NEW j \in Jobs, SubmitRecord(j) PROVE LStep
    <2>1. record[j].status = "none" /\ request[j] = "uploaded"
      BY <1>2 DEF SubmitRecord, Moves, RecordInv, OnRecord
    <2>2. CASE Put(j, "queued", 0)
      <3>1. Lifecycle!Queue(j)
        BY <1>2, <2>1, <2>2 DEF SubmitRecord, Moves, Put, ClientView, Lifecycle!Queue,
           Lifecycle!Set
      <3>2. QED
        BY <3>1 DEF Lifecycle!Next
    <2>3. CASE UNCHANGED record
      BY <1>2, <2>1, <2>3 DEF SubmitRecord, Moves, ClientView
    <2>4. QED
      BY <1>2, <2>2, <2>3 DEF SubmitRecord, PutFails
  <1>3. ASSUME NEW j \in Jobs, Publish(j) PROVE LStep
    BY <1>3 DEF Publish, Moves, ClientView
  <1>4. ASSUME NEW j \in Jobs, PublishAcked(j) PROVE LStep
    <2>1. request[j] = "sent" /\ record[j].status # "none"
      BY <1>4 DEF PublishAcked, Moves, RecordInv, OnRecord
    <2>2. CASE request' = [request EXCEPT ![j] = "accepted"]
      <3>1. Lifecycle!Accept(j)
        BY <1>4, <2>1, <2>2 DEF PublishAcked, ClientView, Lifecycle!Accept, Lifecycle!Set
      <3>2. QED
        BY <3>1 DEF Lifecycle!Next
    <2>3. CASE request' = [request EXCEPT ![j] = "undo"]
      BY <1>4, <2>1, <2>3 DEF PublishAcked, ClientView
    <2>4. QED
      BY <1>4, <2>2, <2>3 DEF PublishAcked, Moves
  <1>5. ASSUME NEW j \in Jobs, UndoUpload(j) PROVE LStep
    <2>1. Lifecycle!Reject(j)
      BY <1>5 DEF UndoUpload, Moves, ClientView, Lifecycle!Reject, Lifecycle!Set
    <2>2. QED
      BY <2>1 DEF Lifecycle!Next
  <1>6. ASSUME NEW j \in Jobs, ApiCrash(j) PROVE LStep
    <2>1. ASSUME NEW p \in {"undo", "undoing"}, Moves(j, p, "failed") PROVE LStep
      <3>1. stored' = [stored EXCEPT ![j] = TRUE /\ stored[j]]
        BY <1>6 DEF ApiCrash
      <3>2. Lifecycle!Reject(j)
        BY <1>6, <2>1, <3>1 DEF ApiCrash, Moves, ClientView, Lifecycle!Reject, Lifecycle!Set
      <3>3. QED
        BY <3>2 DEF Lifecycle!Next
    <2>2. ASSUME NEW p \in {"uploaded", "queuing", "sent", "undo"},
                 NEW q \in {"lost", "undoing"}, Moves(j, p, q)
          PROVE  LStep
      BY <1>6, <2>2 DEF ApiCrash, Moves, ClientView
    <2>3. QED
      BY <1>6, <2>1, <2>2 DEF ApiCrash
  <1>7. ASSUME NEW j \in Jobs, ExpireRecord(j) \/ ExpireInput(j) PROVE LStep
    BY <1>7 DEF ExpireRecord, ExpireInput, Unexpired, May
  <1>8. ASSUME NEW h \in Handlers, MarkProcessing(h) PROVE LStep
    <2>1. Msg(h) \in Jobs /\ record[Msg(h)].status \in {"queued", "processing"}
      BY <1>8 DEF MarkProcessing, At, RecordInv, ViewsCurrent, SlotsHold, JobPoints
    <2>2. CASE Put(Msg(h), "processing", slot[h].attempt) /\ record[Msg(h)].status = "queued"
      <3>1. PICK j \in Jobs : j = Msg(h)
        BY <2>1
      <3>2. Lifecycle!Start(j)
        BY <1>8, <2>1, <2>2, <3>1 DEF MarkProcessing, Put, Lifecycle!Start, Lifecycle!Set
      <3>3. QED
        BY <3>2 DEF Lifecycle!Next
    <2>3. CASE Put(Msg(h), "processing", slot[h].attempt) /\ record[Msg(h)].status = "processing"
      BY <1>8, <2>1, <2>3 DEF MarkProcessing, Put
    <2>4. CASE UNCHANGED record
      BY <1>8, <2>4 DEF MarkProcessing
    <2>5. QED
      BY <1>8, <2>1, <2>2, <2>3, <2>4 DEF MarkProcessing, PutFails
  <1>9. ASSUME NEW h \in Handlers, Finish(h) PROVE LStep
    <2>1. Msg(h) \in Jobs /\ record[Msg(h)].status = "processing"
      BY <1>9 DEF Finish, At, RecordInv, ViewsCurrent, SlotsHold, JobPoints
    <2>2. CASE Put(Msg(h), slot[h].verdict, slot[h].attempt)
      <3>1. PICK j \in Jobs : j = Msg(h)
        BY <2>1
      <3>2. Lifecycle!Finish(j)
        BY <1>9, <2>1, <2>2, <3>1
           DEF Finish, Put, Terminal, Lifecycle!Finish, Lifecycle!Set, Lifecycle!Outcomes
      <3>3. QED
        BY <3>2 DEF Lifecycle!Next
    <2>3. CASE UNCHANGED record
      BY <1>9, <2>3 DEF Finish
    <2>4. QED
      BY <1>9, <2>2, <2>3 DEF Finish, PutFails
  <1>10. ASSUME NEW h \in Handlers, Cleanup(h) PROVE LStep
    <2>1. Msg(h) \in Jobs /\ record[Msg(h)].status \in Terminal
      BY <1>10 DEF Cleanup, At, RecordInv, ViewsCurrent, SlotsHold, JobPoints
    <2>2. CASE stored' = [stored EXCEPT ![Msg(h)] = FALSE]
      <3>1. PICK j \in Jobs : j = Msg(h)
        BY <2>1
      <3>2. Lifecycle!DropInput(j)
        BY <1>10, <2>1, <2>2, <3>1
           DEF Cleanup, Terminal, Lifecycle!DropInput, Lifecycle!Set, Lifecycle!Outcomes
      <3>3. QED
        BY <3>2 DEF Lifecycle!Next
    <2>3. CASE UNCHANGED stored
      BY <1>10, <2>3 DEF Cleanup
    <2>4. QED
      BY <1>10, <2>2, <2>3 DEF Cleanup
  <1>11. CASE UNCHANGED <<request, stored, record>>
    BY <1>11
  <1>12. QED
    BY <1>1, <1>2, <1>3, <1>4, <1>5, <1>6, <1>7, <1>8, <1>9, <1>10, <1>11
       DEF Next, ApiStep, WorkerStep, ForeignPublish, AckWaitExpires, ExpireMessage, Deliver,
           Terminate, ReadRecord, GetInput, Analyze, Ack, Nak, WorkerCrash, vars

(* The pipeline keeps the promises of JobLifecycle to the client as long   *)
(* as handlers stay within the deadline and no record expires: crashes,    *)
(* failing calls, lost acknowledgements and redelivery included.           *)
THEOREM ImplementsLifecycleHolds ==
  ASSUME InTime, Unexpired
  PROVE  Spec => ImplementsLifecycle
  <1>1. TypeInv /\ HoldInv /\ RecordInv /\ [Next]_vars => [Lifecycle!Next]_(Lifecycle!vars)
    BY LifecycleStep DEF LStep, LSame
  <1>2. QED
    BY <1>1, LifecycleInit, RecordInvLemma, PTL DEF Spec, ImplementsLifecycle, Lifecycle!Spec

-----------------------------------------------------------------------------
(* What the client finds while it polls                                    *)

(* A job that was settled at some time is still settled on record.         *)
SettledIsOnRecord == \A j \in settled : record[j].status \in Terminal

(* A client that was told 202 finds its job, and as long as it finds no    *)
(* outcome the video and the message that will lead to one are there; a    *)
(* message that was acknowledged has left an outcome behind that is still  *)
(* on record (jobs.py:201-214, worker.py:178-179).                         *)
AcceptedIsTracked ==
  \A j \in Jobs :
    /\ request[j] = "accepted" =>
         /\ record[j].status # "none"
         /\ record[j].status \notin Terminal =>
              stored[j] /\ queue[j] \in {"ready", "inflight", "exhausted"}
    /\ queue[j] = "acked" => record[j].status \in Terminal

(* The record of a settled job keeps its outcome.                          *)
LEMMA SettledStep ==
  ASSUME Unexpired, TypeInv, HoldInv, RecordInv, SettledIsOnRecord, [Next]_vars
  PROVE  SettledIsOnRecord'
  <1> USE DEF SettledIsOnRecord
  <1>1. \A j \in Jobs : record[j].status \in Terminal => record'[j] = record[j]
    BY RecordMovesForward DEF Forward
  <1>2. settled \subseteq Jobs /\ record \in [Jobs -> [status : Statuses \cup {"none"},
                                                      attempts : 0..MaxDeliver]]
    BY DEF TypeInv, TypeOK
  <1>3. ASSUME NEW j \in Jobs, NEW s, NEW n, Put(j, s, n) PROVE SettledIsOnRecord'
    BY <1>1, <1>2, <1>3 DEF Put
  <1>4. ASSUME NEW j \in Jobs, SubmitRecord(j) PROVE SettledIsOnRecord'
    BY <1>1, <1>2, <1>3, <1>4 DEF SubmitRecord, PutFails
  <1>5. ASSUME NEW h \in Handlers, MarkProcessing(h) \/ Finish(h) PROVE SettledIsOnRecord'
    <2>1. Msg(h) \in Jobs
      BY <1>5 DEF TypeInv, SlotsHold, JobPoints, MarkProcessing, Finish, At
    <2>2. \/ \E s, n : Put(Msg(h), s, n)
          \/ UNCHANGED <<record, settled>>
      BY <1>5 DEF MarkProcessing, Finish, PutFails
    <2>3. QED
      BY <1>3, <2>1, <2>2
  <1>6. CASE UNCHANGED settled
    BY <1>1, <1>2, <1>6
  <1>7. QED
    BY <1>4, <1>5, <1>6
       DEF Next, ApiStep, WorkerStep, Upload, Publish, PublishAcked, UndoUpload, ApiCrash,
           ExpireRecord, ExpireInput, ForeignPublish, AckWaitExpires, ExpireMessage, Deliver,
           Terminate, ReadRecord, GetInput, Analyze, Ack, Cleanup, Nak, WorkerCrash, vars, apiRest

(* While handlers stay within the deadline and nothing expires, what the   *)
(* histories say holds of the record itself, which is all a client sees.   *)
THEOREM AcceptedIsTrackedHolds ==
  ASSUME InTime, Unexpired
  PROVE  Spec => []AcceptedIsTracked
  <1>1. Init => SettledIsOnRecord
    BY DEF Init, SettledIsOnRecord
  <1>2. TypeInv /\ HoldInv /\ RecordInv /\ SettledIsOnRecord /\ [Next]_vars =>
          SettledIsOnRecord'
    BY SettledStep
  <1>3. /\ RecordInv /\ SettledIsOnRecord
        /\ PersistBeforeAck /\ InputKeptUntilSettled /\ AcceptedIsNotLost
        => AcceptedIsTracked
    BY DEF RecordInv, OnRecord, SettledIsOnRecord, PersistBeforeAck, InputKeptUntilSettled,
           AcceptedIsNotLost, AcceptedIsTracked, Unexpired, May
  <1>4. QED
    BY <1>1, <1>2, <1>3, RecordInvLemma, PersistBeforeAckHolds, InputKeptHolds,
       AcceptedIsNotLostHolds, PTL DEF Spec

-----------------------------------------------------------------------------
(* The last delivery                                                       *)

(* The handler has the latest delivery of the job in hand.                 *)
Keeps(h, j) == slot[h].at # "fetch" /\ slot[h].msg = j /\ slot[h].attempt = delivered[j]

(* The handler of the last delivery does not give the message back: it     *)
(* still holds it, or it has persisted an outcome.                         *)
LastConcludes ==
  /\ \A h \in Handlers : slot[h].at = "nak" => slot[h].attempt < MaxDeliver
  /\ \A m \in Msgs : queue[m] = "exhausted" => delivered[m] = MaxDeliver
  /\ \A j \in Jobs : delivered[j] = MaxDeliver =>
       j \in settled \/ \E h \in Handlers : Keeps(h, j)

(* No process dies, no task is cancelled, no call to NATS or S3 fails.     *)
Undisturbed == "crash" \notin Faults /\ "dependency" \notin Faults

(* A handler's own step that does not release it keeps its delivery.       *)
LEMMA HoldsOn ==
  ASSUME TypeOK, NEW h \in Handlers, NEW p \in Points \ {"fetch"}, NEW v \in Terminal,
         Goto(h, p) \/ Conclude(h, v), ~At(h, "fetch"), UNCHANGED delivered
  PROVE  /\ \A i \in Handlers : i # h => slot'[i] = slot[i]
         /\ slot'[h].at \in {p, "finish"} /\ slot'[h].attempt = slot[h].attempt
         /\ \A i \in Handlers, j \in Jobs : Keeps(i, j) => Keeps(i, j)'
  <1>1. slot \in [Handlers -> [at : Points, msg : Msgs \cup {None}, attempt : 0..MaxDeliver,
                              verdict : Terminal]]
    BY DEF TypeOK
  <1>2. CASE Goto(h, p)
    BY <1>1, <1>2 DEF Goto, Keeps, At
  <1>3. CASE Conclude(h, v)
    <2>1. /\ slot'[h].at = "finish" /\ slot'[h].msg = slot[h].msg
          /\ slot'[h].attempt = slot[h].attempt
          /\ \A i \in Handlers : i # h => slot'[i] = slot[i]
      BY <1>1, <1>3 DEF Conclude
    <2>2. QED
      BY <2>1 DEF Keeps, At
  <1>4. QED
    BY <1>2, <1>3

(* A handler that is released leaves the other deliveries where they are.  *)
LEMMA LetsGo ==
  ASSUME TypeOK, NEW h \in Handlers, Release(h), UNCHANGED delivered
  PROVE  /\ \A i \in Handlers : slot'[i].at = "nak" => slot'[i] = slot[i]
         /\ \A i \in Handlers, j \in Jobs : Keeps(i, j) /\ slot[h].msg # j => Keeps(i, j)'
  BY DEF TypeOK, Release, Free, Keeps

(* A message is parked only after its last delivery.                       *)
LEMMA RequeueLemma ==
  ASSUME TypeOK, NEW m \in Msgs, Requeue(m), NEW n \in Msgs, queue'[n] = "exhausted",
         queue[n] = "exhausted" => delivered[n] = MaxDeliver
  PROVE  delivered[n] = MaxDeliver
  <1>1. delivered[n] \in 0..MaxDeliver /\ queue \in [Msgs -> QueueStates]
    BY DEF TypeOK
  <1>2. CASE queue[n] = "exhausted"
    BY <1>2
  <1>3. CASE queue[n] # "exhausted"
    <2>1. n = m
      BY <1>1, <1>3 DEF Requeue
    <2>2. queue'[m] = IF queue[m] # "inflight" THEN queue[m]
                      ELSE IF delivered[m] < MaxDeliver THEN "ready" ELSE "exhausted"
      BY <1>1 DEF Requeue
    <2>3. ~(delivered[n] < MaxDeliver)
      BY <1>3, <2>1, <2>2
    <2>4. QED
      BY <1>1, <2>3, DeliverAssumption
  <1>4. QED
    BY <1>2, <1>3

(* Each of its three parts over one step, the failures left out.           *)
LEMMA LastStep ==
  ASSUME Undisturbed
  PROVE  TypeInv /\ PersistInv /\ LastConcludes /\ [Next]_vars => LastConcludes'
  <1> SUFFICES ASSUME TypeInv, PersistInv, LastConcludes, [Next]_vars PROVE LastConcludes'
    OBVIOUS
  <1> DEFINE Tries == \A h \in Handlers : slot[h].at = "nak" => slot[h].attempt < MaxDeliver
             Parked == \A m \in Msgs : queue[m] = "exhausted" => delivered[m] = MaxDeliver
             Last == \A j \in Jobs : delivered[j] = MaxDeliver =>
                       j \in settled \/ \E h \in Handlers : Keeps(h, j)
  <1>1. TypeOK /\ Tries /\ Parked /\ Last
    BY DEF TypeInv, LastConcludes
  <1>2. ASSUME UNCHANGED <<delivered, slot>>, settled \subseteq settled',
               \A m \in Msgs : queue'[m] = "exhausted" => delivered[m] = MaxDeliver
        PROVE  LastConcludes'
    BY <1>1, <1>2 DEF LastConcludes, Keeps
  <1>3. ASSUME NEW h \in Handlers, NEW p \in Points \ {"fetch"}, NEW v \in Terminal,
               Goto(h, p) \/ Conclude(h, v), ~At(h, "fetch"), UNCHANGED delivered,
               p = "nak" => slot[h].attempt < MaxDeliver,
               settled \subseteq settled',
               \A m \in Msgs : queue'[m] \in {queue[m], "acked"}
        PROVE  LastConcludes'
    <2>1. /\ \A i \in Handlers : i # h => slot'[i] = slot[i]
          /\ slot'[h].at \in {p, "finish"} /\ slot'[h].attempt = slot[h].attempt
          /\ \A i \in Handlers, j \in Jobs : Keeps(i, j) => Keeps(i, j)'
      BY <1>1, <1>3, HoldsOn
    <2>2. QED
      BY <1>1, <1>3, <2>1 DEF LastConcludes
  <1>4. ASSUME NEW h \in Handlers, Release(h), UNCHANGED <<delivered, settled>>,
               slot[h].msg \in Foreign \/ slot[h].msg \in settled
                 \/ slot[h].attempt < MaxDeliver,
               \A m \in Msgs : queue'[m] = "exhausted" => delivered[m] = MaxDeliver
        PROVE  LastConcludes'
    <2>1. \A i \in Handlers : slot'[i].at = "nak" => slot'[i] = slot[i]
      BY <1>1, <1>4, LetsGo
    <2>2. ASSUME NEW j \in Jobs, delivered[j] = MaxDeliver, j \notin settled
          PROVE  \E i \in Handlers : Keeps(i, j)'
      <3>1. PICK i \in Handlers : Keeps(i, j)
        BY <1>1, <2>2
      <3>2. CASE slot[h].msg # j
        BY <1>1, <1>4, <3>1, <3>2, LetsGo
      <3>3. CASE slot[h].msg = j
        <4>1. slot[h].attempt < MaxDeliver /\ slot[i].attempt = MaxDeliver
          BY <1>4, <2>2, <3>1, <3>3, MsgAssumption DEF Keeps
        <4>2. i # h
          BY <4>1, DeliverAssumption
        <4>3. slot'[i] = slot[i]
          BY <1>1, <1>4, <4>2 DEF Release, TypeOK
        <4>4. QED
          BY <1>4, <3>1, <4>3 DEF Keeps
      <3>4. QED
        BY <3>2, <3>3
    <2>3. QED
      BY <1>1, <1>4, <2>1, <2>2 DEF LastConcludes
  <1>5. ~May("crash") /\ ~May("dependency")
    BY DEF Undisturbed, May
  <1>6. ASSUME NEW j \in Jobs, ApiStep(j) \/ ApiCrash(j) \/ ExpireRecord(j) \/ ExpireInput(j)
        PROVE  LastConcludes'
    <2>1. /\ UNCHANGED <<delivered, slot>> /\ settled \subseteq settled'
          /\ UNCHANGED queue \/ queue' = [queue EXCEPT ![j] = "ready"]
      BY <1>6 DEF ApiStep, Upload, SubmitRecord, Publish, PublishAcked, UndoUpload, ApiCrash,
                  ExpireRecord, ExpireInput, apiRest, Put, PutFails
    <2>2. QED
      BY <1>1, <1>2, <2>1 DEF TypeOK
  <1>7. ASSUME NEW m \in Msgs,
               AckWaitExpires(m) \/ ExpireMessage(m) \/ (m \in Foreign /\ ForeignPublish(m))
        PROVE  LastConcludes'
    <2>1. UNCHANGED <<delivered, slot, settled>>
      BY <1>7 DEF AckWaitExpires, ExpireMessage, ForeignPublish
    <2>2. \A n \in Msgs : queue'[n] = "exhausted" => delivered[n] = MaxDeliver
      <3>1. CASE AckWaitExpires(m)
        BY <1>1, <3>1, RequeueLemma DEF AckWaitExpires
      <3>2. CASE ExpireMessage(m) \/ (m \in Foreign /\ ForeignPublish(m))
        BY <1>1, <3>2 DEF ExpireMessage, ForeignPublish, TypeOK
      <3>3. QED
        BY <1>7, <3>1, <3>2
    <2>3. QED
      BY <1>2, <2>1, <2>2
  <1>8. ASSUME NEW h \in Handlers, NEW m \in Msgs, Deliver(h, m) PROVE LastConcludes'
    <2>1. /\ At(h, "fetch") /\ UNCHANGED settled
          /\ delivered' = [delivered EXCEPT ![m] = delivered[m] + 1]
          /\ slot'[h].at = "read" /\ slot'[h].msg = m /\ slot'[h].attempt = delivered[m] + 1
          /\ \A i \in Handlers : i # h => slot'[i] = slot[i]
          /\ \A n \in Msgs : queue'[n] = "exhausted" => n # m /\ queue[n] = "exhausted"
      BY <1>1, <1>8 DEF Deliver, TypeOK
    <2>2. Tries'
      BY <1>1, <2>1
    <2>3. Parked'
      BY <1>1, <2>1 DEF TypeOK
    <2>4. ASSUME NEW j \in Jobs, delivered'[j] = MaxDeliver, j \notin settled'
          PROVE  \E i \in Handlers : Keeps(i, j)'
      <3>1. CASE j = m
        BY <1>1, <2>1, <3>1 DEF Keeps, TypeOK
      <3>2. CASE j # m
        <4>1. delivered'[j] = delivered[j] /\ j \notin settled
          BY <1>1, <2>1, <2>4, <3>2 DEF TypeOK, Msgs
        <4>2. PICK i \in Handlers : Keeps(i, j)
          BY <1>1, <2>4, <4>1
        <4>3. i # h
          BY <2>1, <4>2 DEF Keeps, At
        <4>4. QED
          BY <2>1, <4>1, <4>2, <4>3 DEF Keeps
      <3>3. QED
        BY <3>1, <3>2
    <2>5. QED
      BY <2>2, <2>3, <2>4 DEF LastConcludes
  <1>9. ASSUME NEW h \in Handlers, Terminate(h) PROVE LastConcludes'
    <2>1. slot[h].msg \in Foreign /\ Remove(Msg(h)) /\ Release(h)
          /\ UNCHANGED <<settled, delivered>>
      BY <1>5, <1>9 DEF Terminate, Msg
    <2>2. \A m \in Msgs : queue'[m] = "exhausted" => queue[m] = "exhausted"
      BY <1>1, <2>1 DEF Remove, TypeOK
    <2>3. QED
      BY <1>1, <1>4, <2>1, <2>2
  <1>10. ASSUME NEW h \in Handlers, ReadRecord(h) PROVE LastConcludes'
    <2>1. PICK p \in {"ackSeen", "mark"} : Goto(h, p)
      BY <1>5, <1>10 DEF ReadRecord
    <2>2. ~At(h, "fetch") /\ UNCHANGED <<settled, queue, delivered>>
      BY <1>10 DEF ReadRecord, At
    <2>3. p \in Points \ {"fetch"} /\ p # "nak" /\ "failed" \in Terminal
      BY DEF Points, Terminal
    <2>4. QED
      BY <1>3, <2>1, <2>2, <2>3
  <1>11. ASSUME NEW h \in Handlers, MarkProcessing(h) PROVE LastConcludes'
    <2>1. Goto(h, "get") /\ Put(Msg(h), "processing", slot[h].attempt)
          /\ ~At(h, "fetch") /\ UNCHANGED <<queue, delivered>>
      BY <1>5, <1>11 DEF MarkProcessing, PutFails, At
    <2>2. settled \subseteq settled'
      BY <2>1 DEF Put
    <2>3. "get" \in Points \ {"fetch"} /\ "failed" \in Terminal
      BY DEF Points, Terminal
    <2>4. QED
      BY <1>3, <2>1, <2>2, <2>3
  <1>12. ASSUME NEW h \in Handlers, GetInput(h) \/ Analyze(h) PROVE LastConcludes'
    <2>1. /\ \/ \E v \in Terminal : Conclude(h, v)
             \/ Goto(h, "analyze")
             \/ Goto(h, "nak") /\ slot[h].attempt < MaxDeliver
          /\ ~At(h, "fetch") /\ UNCHANGED <<settled, queue, delivered>>
      <3>1. slot[h].attempt \in 0..MaxDeliver /\ "failed" \in Terminal
        BY <1>1 DEF TypeOK, Terminal
      <3>2. QED
        BY <1>12, <3>1, DeliverAssumption DEF GetInput, Analyze, Retry, At
    <2>2. "analyze" \in Points \ {"fetch"} /\ "nak" \in Points \ {"fetch"}
          /\ "failed" \in Terminal /\ \A m \in Msgs : queue'[m] \in {queue[m], "acked"}
          /\ settled \subseteq settled'
      BY <2>1 DEF Points, Terminal
    <2>3. CASE Goto(h, "analyze")
      BY <1>3, <2>1, <2>2, <2>3
    <2>4. CASE Goto(h, "nak") /\ slot[h].attempt < MaxDeliver
      BY <1>3, <2>1, <2>2, <2>4
    <2>5. ASSUME NEW v \in Terminal, Conclude(h, v) PROVE LastConcludes'
      <3>1. "analyze" # "nak"
        OBVIOUS
      <3>2. QED
        BY <1>3, <2>1, <2>2, <2>5, <3>1
    <2>6. QED
      BY <2>1, <2>3, <2>4, <2>5
  <1>13. ASSUME NEW h \in Handlers, Finish(h) PROVE LastConcludes'
    <2>1. Goto(h, "ack") /\ Put(Msg(h), slot[h].verdict, slot[h].attempt)
          /\ ~At(h, "fetch") /\ UNCHANGED <<queue, delivered>>
      BY <1>5, <1>13 DEF Finish, PutFails, At
    <2>2. settled \subseteq settled'
      BY <2>1 DEF Put
    <2>3. "ack" \in Points \ {"fetch"} /\ "failed" \in Terminal
      BY DEF Points, Terminal
    <2>4. QED
      BY <1>3, <2>1, <2>2, <2>3
  <1>14. ASSUME NEW h \in Handlers, Ack(h) PROVE LastConcludes'
    <2>1. /\ Remove(Msg(h)) /\ UNCHANGED <<settled, delivered>> /\ ~At(h, "fetch")
          /\ Goto(h, "cleanup") \/ Release(h)
          /\ slot[h].msg \in settled
      BY <1>5, <1>14 DEF Ack, SendAck, At, PersistInv, AckersSettled, Msg
    <2>2. \A m \in Msgs : queue'[m] \in {queue[m], "acked"}
      BY <1>1, <2>1 DEF Remove, TypeOK
    <2>3. "cleanup" \in Points \ {"fetch"} /\ "failed" \in Terminal
      BY DEF Points, Terminal
    <2>4. CASE Goto(h, "cleanup")
      BY <1>3, <2>1, <2>2, <2>3, <2>4
    <2>5. CASE Release(h)
      BY <1>1, <1>4, <2>1, <2>2, <2>5
    <2>6. QED
      BY <2>1, <2>4, <2>5
  <1>15. ASSUME NEW h \in Handlers, Cleanup(h) PROVE LastConcludes'
    <2>1. Release(h) /\ UNCHANGED <<settled, delivered, queue>> /\ slot[h].msg \in settled
      BY <1>15 DEF Cleanup, At, PersistInv, AckersSettled, Msg
    <2>2. QED
      BY <1>1, <1>4, <2>1
  <1>16. ASSUME NEW h \in Handlers, Nak(h) PROVE LastConcludes'
    <2>1. Release(h) /\ Requeue(Msg(h)) /\ UNCHANGED <<settled, delivered>>
          /\ slot[h].attempt < MaxDeliver
      BY <1>1, <1>5, <1>16 DEF Nak, At
    <2>2. \A m \in Msgs : queue'[m] = "exhausted" => delivered[m] = MaxDeliver
      <3>1. Msg(h) \in Msgs
        BY <1>16 DEF TypeInv, SlotsHold, Nak, At
      <3>2. QED
        BY <1>1, <2>1, <3>1, RequeueLemma
    <2>3. QED
      BY <1>4, <2>1, <2>2
  <1>17. CASE UNCHANGED vars
    BY <1>1, <1>2, <1>17 DEF vars
  <1>18. QED
    BY <1>5, <1>6, <1>7, <1>8, <1>9, <1>10, <1>11, <1>12, <1>13, <1>14, <1>15, <1>16, <1>17
       DEF Next, WorkerStep, WorkerCrash, Msgs

(* "Retried with back-off up to EB_JOB_MAX_DELIVER, then failed" holds as  *)
(* long as no process dies and no call to NATS or the object store fails,  *)
(* however often analyses fail, time out and are redelivered. Only then:   *)
(* with a failing KV the run jobs_kv_outage shows the contrary.            *)
THEOREM ExhaustedIsFailedHolds ==
  ASSUME Undisturbed
  PROVE  Spec => []ExhaustedIsFailed
  <1>1. Init => PersistInv /\ LastConcludes
    BY DeliverAssumption
       DEF Init, PersistInv, OutcomeRemembered, AckersSettled, PersistBeforeAck, LastConcludes,
           Free, Terminal, Msgs
  <1>2. TypeInv /\ PersistInv /\ LastConcludes /\ [Next]_vars => LastConcludes'
    BY LastStep
  <1>3. LastConcludes => ExhaustedIsFailed
    BY DEF LastConcludes, ExhaustedIsFailed, Holders, Keeps, Msgs
  <1>4. QED
    BY <1>1, <1>2, <1>3, TypeInit, TypeStep, PersistStep, PTL DEF Spec

-----------------------------------------------------------------------------
(* Why no message is handled for ever                                      *)

(* How far a handler is from its next fetch.                               *)
Distance(p) ==
  CASE p = "fetch" -> 0 [] p = "nak" -> 1 [] p = "cleanup" -> 2
    [] p \in {"ack", "ackSeen"} -> 3 [] p = "finish" -> 4 [] p = "analyze" -> 5
    [] p = "get" -> 6 [] p = "mark" -> 7 [] p = "read" -> 8

(* A handler comes nearer to its next fetch with every step and keeps its  *)
(* message until then, or takes a message and with it one of the           *)
(* job_max_deliver deliveries that message has: the variant behind         *)
(* MessagesSettle. Nothing gives a delivery back.                          *)
Takes(h, m) ==
  /\ slot[h].at = "fetch" /\ slot'[h].msg = m
  /\ delivered'[m] = delivered[m] + 1 /\ delivered'[m] <= MaxDeliver
Nears(h) ==
  /\ Distance(slot'[h].at) < Distance(slot[h].at)
  /\ slot'[h].at # "fetch" => slot'[h].msg = slot[h].msg
MovesOn ==
  /\ \A h \in Handlers : slot'[h] # slot[h] => Nears(h) \/ \E m \in Msgs : Takes(h, m)
  /\ \A m \in Msgs : delivered'[m] >= delivered[m]
HandlersMoveOn == [][MovesOn]_<<slot, delivered>>

(* A handler's own step, as far as its distance goes.                      *)
LEMMA NearsLemma ==
  ASSUME TypeInv, NEW h \in Handlers, NEW p \in Points, NEW v \in Terminal,
         \/ Goto(h, p) /\ Distance(p) < Distance(slot[h].at)
         \/ Release(h) /\ 0 < Distance(slot[h].at)
         \/ Conclude(h, v) /\ 4 < Distance(slot[h].at),
         UNCHANGED delivered
  PROVE  MovesOn
  <1>1. slot \in [Handlers -> [at : Points, msg : Msgs \cup {None}, attempt : 0..MaxDeliver,
                              verdict : Terminal]]
        /\ delivered \in [Msgs -> 0..MaxDeliver]
    BY DEF TypeInv, TypeOK
  <1>2. \A i \in Handlers : i # h => slot'[i] = slot[i]
    BY <1>1 DEF Goto, Release, Conclude
  <1>3. Distance("fetch") = 0 /\ Distance("finish") = 4
    BY DEF Distance
  <1>4. CASE Goto(h, p) /\ Distance(p) < Distance(slot[h].at)
    <2>1. slot'[h].at = p /\ slot'[h].msg = slot[h].msg
      BY <1>1, <1>4 DEF Goto
    <2>2. QED
      BY <1>1, <1>2, <1>4, <2>1 DEF MovesOn, Nears
  <1>5. CASE Release(h) /\ 0 < Distance(slot[h].at)
    <2>1. slot'[h].at = "fetch"
      BY <1>1, <1>5 DEF Release, Free
    <2>2. QED
      BY <1>1, <1>2, <1>3, <1>5, <2>1 DEF MovesOn, Nears
  <1>6. CASE Conclude(h, v) /\ 4 < Distance(slot[h].at)
    <2>1. slot'[h].at = "finish" /\ slot'[h].msg = slot[h].msg
      BY <1>1, <1>6 DEF Conclude
    <2>2. QED
      BY <1>1, <1>2, <1>3, <1>6, <2>1 DEF MovesOn, Nears
  <1>7. QED
    BY <1>4, <1>5, <1>6

(* Every step moves handlers on.                                           *)
LEMMA MovesOnStep == TypeInv /\ [Next]_vars => MovesOn
  <1> SUFFICES ASSUME TypeInv, [Next]_vars PROVE MovesOn
    OBVIOUS
  <1>1. /\ Distance("fetch") = 0 /\ Distance("nak") = 1 /\ Distance("cleanup") = 2
        /\ Distance("ack") = 3 /\ Distance("ackSeen") = 3 /\ Distance("finish") = 4
        /\ Distance("analyze") = 5 /\ Distance("get") = 6 /\ Distance("mark") = 7
        /\ Distance("read") = 8
    BY DEF Distance
  <1>2. \A p \in Points : p # "fetch" => 0 < Distance(p)
    BY <1>1 DEF Points
  <1>3. "failed" \in Terminal /\ "fetch" \in Points
    BY DEF Terminal, Points
  <1>4. CASE UNCHANGED <<slot, delivered>>
    BY <1>4 DEF MovesOn, TypeInv, TypeOK
  <1>5. ASSUME NEW h \in Handlers, NEW m \in Msgs, Deliver(h, m) PROVE MovesOn
    <2>1. /\ At(h, "fetch") /\ delivered[m] \in Nat /\ delivered[m] < MaxDeliver
          /\ delivered' = [delivered EXCEPT ![m] = delivered[m] + 1]
          /\ slot'[h].msg = m /\ \A i \in Handlers : i # h => slot'[i] = slot[i]
          /\ delivered \in [Msgs -> 0..MaxDeliver]
      BY <1>5 DEF Deliver, TypeInv, TypeOK, Deliverable
    <2>2. Takes(h, m)
      BY <2>1, DeliverAssumption DEF Takes, At
    <2>3. QED
      BY <2>1, <2>2 DEF MovesOn
  <1>6. ASSUME NEW h \in Handlers, Release(h), ~At(h, "fetch"), UNCHANGED delivered
        PROVE  MovesOn
    <2>1. 0 < Distance(slot[h].at)
      BY <1>2, <1>6 DEF At, TypeInv, TypeOK
    <2>2. QED
      BY <1>3, <1>6, <2>1, NearsLemma
  <1>7. ASSUME NEW h \in Handlers, NEW p \in Points, Goto(h, p),
               Distance(p) < Distance(slot[h].at), UNCHANGED delivered
        PROVE  MovesOn
    BY <1>3, <1>7, NearsLemma
  <1>8. ASSUME NEW h \in Handlers, Terminate(h) PROVE MovesOn
    BY <1>1, <1>6, <1>7, <1>8 DEF Terminate, At, Points
  <1>9. ASSUME NEW h \in Handlers, ReadRecord(h) PROVE MovesOn
    BY <1>1, <1>7, <1>9 DEF ReadRecord, At, Points
  <1>10. ASSUME NEW h \in Handlers, MarkProcessing(h) PROVE MovesOn
    BY <1>1, <1>7, <1>10 DEF MarkProcessing, At, Points
  <1>11. ASSUME NEW h \in Handlers, GetInput(h) \/ Analyze(h) PROVE MovesOn
    <2>1. /\ \/ Goto(h, "analyze") /\ At(h, "get")
             \/ Goto(h, "nak")
             \/ \E v \in Terminal : Conclude(h, v)
          /\ At(h, "get") \/ At(h, "analyze")
          /\ UNCHANGED delivered
      BY <1>11 DEF GetInput, Analyze, Retry, Terminal
    <2>2. CASE Goto(h, "analyze") /\ At(h, "get")
      BY <1>1, <1>7, <2>1, <2>2 DEF At, Points
    <2>3. CASE Goto(h, "nak")
      BY <1>1, <1>7, <2>1, <2>3 DEF At, Points
    <2>4. ASSUME NEW v \in Terminal, Conclude(h, v) PROVE MovesOn
      <3>1. 4 < Distance(slot[h].at)
        BY <1>1, <2>1 DEF At
      <3>2. QED
        BY <1>3, <2>1, <2>4, <3>1, NearsLemma
    <2>5. QED
      BY <2>1, <2>2, <2>3, <2>4
  <1>12. ASSUME NEW h \in Handlers, Finish(h) PROVE MovesOn
    BY <1>1, <1>7, <1>12 DEF Finish, At, Points
  <1>13. ASSUME NEW h \in Handlers, Ack(h) PROVE MovesOn
    <2>1. /\ Goto(h, "cleanup") \/ Goto(h, "nak") \/ Release(h)
          /\ At(h, "ack") \/ At(h, "ackSeen")
          /\ UNCHANGED delivered
      BY <1>13 DEF Ack, SendAck
    <2>2. Distance(slot[h].at) = 3 /\ ~At(h, "fetch")
      BY <1>1, <2>1 DEF At
    <2>3. "cleanup" \in Points /\ "nak" \in Points
      BY DEF Points
    <2>4. QED
      BY <1>1, <1>6, <1>7, <2>1, <2>2, <2>3
  <1>14. ASSUME NEW h \in Handlers, Cleanup(h) \/ Nak(h) \/ WorkerCrash(h) PROVE MovesOn
    BY <1>6, <1>14 DEF Cleanup, Nak, WorkerCrash, At
  <1>15. QED
    BY <1>4, <1>5, <1>8, <1>9, <1>10, <1>11, <1>12, <1>13, <1>14
       DEF Next, ApiStep, WorkerStep, Upload, SubmitRecord, Publish, PublishAcked, UndoUpload,
           ApiCrash, ExpireRecord, ExpireInput, ForeignPublish, AckWaitExpires, ExpireMessage,
           vars, apiRest

(* The work on a message is bounded: at most job_max_deliver times a       *)
(* handler takes it, and each time it takes at most eight steps.           *)
THEOREM HandlersMoveOnHolds == Spec => HandlersMoveOn
  <1>1. TypeInv /\ [Next]_vars => [MovesOn]_<<slot, delivered>>
    BY MovesOnStep
  <1>2. QED
    BY <1>1, TypeInit, TypeStep, PTL DEF Spec, HandlersMoveOn

(* No nak, expired acknowledgement timer or republication brings a message *)
(* back that was acknowledged, has expired, or has been parked.            *)
THEOREM GoneIsGoneHolds == Spec => GoneIsGone
  <1>1. TypeInv /\ [Next]_vars => [StaysGone]_queue
    BY StaysGoneStep
  <1>2. QED
    BY <1>1, TypeInit, TypeStep, PTL DEF Spec, GoneIsGone

-----------------------------------------------------------------------------
(* What becomes of the uploaded video                                      *)

(* The video of a settled job is deleted, or a handler is about to do it.  *)
Deletes(h, j) == slot[h].msg = j /\ slot[h].at \in {"ack", "cleanup"}
InputDeleted == \A j \in settled : stored[j] => \E h \in Handlers : Deletes(h, j)

(* A job is not settled before it is delivered, and not delivered before   *)
(* it is uploaded.                                                         *)
SettledWasUploaded == \A j \in Jobs : request[j] = "idle" => j \notin settled

LEMMA UploadedStep == TypeInv /\ SettledWasUploaded /\ [Next]_vars => SettledWasUploaded'
  <1> SUFFICES ASSUME TypeInv, SettledWasUploaded, [Next]_vars PROVE SettledWasUploaded'
    OBVIOUS
  <1>1. request \in [Jobs -> RequestStates]
    BY DEF TypeInv, TypeOK
  <1>2. ASSUME NEW j \in Jobs, ApiStep(j) \/ ApiCrash(j)
        PROVE  settled' = settled /\ \A i \in Jobs : request'[i] = "idle" => request[i] = "idle"
    <2>1. /\ \E p \in RequestStates \ {"idle"} : request' = [request EXCEPT ![j] = p]
          /\ settled' = settled
      BY <1>2 DEF ApiStep, Upload, SubmitRecord, Publish, PublishAcked, UndoUpload, ApiCrash,
                  Moves, Put, PutFails, Terminal, RequestStates
    <2>2. QED
      BY <1>1, <2>1
  <1>3. ASSUME NEW h \in Handlers, MarkProcessing(h) \/ Finish(h) PROVE SettledWasUploaded'
    <2>1. Msg(h) \in Jobs /\ request[Msg(h)] # "idle" /\ request' = request
      BY <1>3 DEF MarkProcessing, Finish, At, TypeInv, SlotsHold, Deliverable, JobPoints, Msg
    <2>2. settled' \subseteq settled \cup {Msg(h)}
      BY <1>3 DEF MarkProcessing, Finish, Put, PutFails
    <2>3. QED
      BY <2>1, <2>2 DEF SettledWasUploaded
  <1>4. CASE UNCHANGED <<request, settled>>
    BY <1>4 DEF SettledWasUploaded
  <1>5. QED
    BY <1>2, <1>3, <1>4
       DEF SettledWasUploaded, Next, WorkerStep, ExpireRecord, ExpireInput, ForeignPublish,
           AckWaitExpires, ExpireMessage, Deliver, Terminate, ReadRecord, GetInput, Analyze,
           Ack, Cleanup, Nak, WorkerCrash, vars

(* Only a handler that has deleted the video lets go of a job it settled.  *)
LEMMA DeletedStep ==
  ASSUME Undisturbed, DeleteInput
  PROVE  TypeInv /\ SettledWasUploaded /\ InputDeleted /\ [Next]_vars => InputDeleted'
  <1> SUFFICES ASSUME TypeInv, SettledWasUploaded, InputDeleted, [Next]_vars
               PROVE  InputDeleted'
    OBVIOUS
  <1>1. /\ TypeOK /\ settled \subseteq Jobs
        /\ stored \in [Jobs -> BOOLEAN]
        /\ slot \in [Handlers -> [at : Points, msg : Msgs \cup {None}, attempt : 0..MaxDeliver,
                                  verdict : Terminal]]
    BY DEF TypeInv, TypeOK
  <1>2. ~May("crash") /\ ~May("dependency")
    BY DEF Undisturbed, May
  <1>3. ASSUME NEW h \in Handlers, slot[h].at \notin {"ack", "cleanup"},
               \A i \in Handlers : i # h => slot'[i] = slot[i],
               UNCHANGED <<settled, stored>>
        PROVE  InputDeleted'
    BY <1>3 DEF InputDeleted, Deletes
  <1>4. ASSUME NEW j \in Jobs, ApiStep(j) \/ ApiCrash(j) \/ ExpireRecord(j) \/ ExpireInput(j)
        PROVE  InputDeleted'
    <2>1. settled' = settled /\ slot' = slot
      BY <1>4 DEF ApiStep, Upload, SubmitRecord, Publish, PublishAcked, UndoUpload, ApiCrash,
                  ExpireRecord, ExpireInput, apiRest, Put, PutFails, Terminal
    <2>2. \/ request[j] = "idle" /\ \A i \in Jobs : i # j => stored'[i] = stored[i]
          \/ \A i \in Jobs : stored'[i] => stored[i]
      BY <1>1, <1>4 DEF ApiStep, Upload, SubmitRecord, Publish, PublishAcked, UndoUpload,
                        ApiCrash, ExpireRecord, ExpireInput, Moves
    <2>3. QED
      BY <1>1, <2>1, <2>2 DEF InputDeleted, Deletes, SettledWasUploaded
  <1>5. ASSUME NEW h \in Handlers, NEW m \in Msgs, Deliver(h, m) PROVE InputDeleted'
    BY <1>1, <1>3, <1>5 DEF Deliver, At
  <1>6. ASSUME NEW h \in Handlers, Terminate(h) \/ ReadRecord(h) \/ Nak(h) PROVE InputDeleted'
    <2>1. /\ slot[h].at \notin {"ack", "cleanup"} /\ UNCHANGED <<settled, stored>>
          /\ Release(h) \/ Goto(h, "nak") \/ Goto(h, "ackSeen") \/ Goto(h, "mark")
      BY <1>6 DEF Terminate, ReadRecord, Nak, At
    <2>2. \A i \in Handlers : i # h => slot'[i] = slot[i]
      BY <1>1, <2>1 DEF Release, Goto
    <2>3. QED
      BY <1>3, <2>1, <2>2
  <1>7. ASSUME NEW h \in Handlers, MarkProcessing(h) PROVE InputDeleted'
    <2>1. /\ slot[h].at \notin {"ack", "cleanup"} /\ UNCHANGED <<settled, stored>>
          /\ Goto(h, "get")
      BY <1>2, <1>7 DEF MarkProcessing, PutFails, Put, At, Terminal
    <2>2. \A i \in Handlers : i # h => slot'[i] = slot[i]
      BY <1>1, <2>1 DEF Goto
    <2>3. QED
      BY <1>3, <2>1, <2>2
  <1>8. ASSUME NEW h \in Handlers, GetInput(h) \/ Analyze(h) PROVE InputDeleted'
    BY <1>1, <1>3, <1>8, WorkLemma
  <1>9. ASSUME NEW h \in Handlers, Finish(h) PROVE InputDeleted'
    <2>1. Put(Msg(h), slot[h].verdict, slot[h].attempt) /\ Goto(h, "ack") /\ stored' = stored
          /\ At(h, "finish")
      BY <1>2, <1>9 DEF Finish, PutFails
    <2>2. /\ slot'[h].at = "ack" /\ slot'[h].msg = Msg(h)
          /\ \A i \in Handlers : i # h => slot'[i] = slot[i]
      BY <1>1, <2>1 DEF Goto, Msg
    <2>3. settled' \subseteq settled \cup {Msg(h)}
      BY <2>1 DEF Put
    <2>4. ASSUME NEW j \in settled', stored'[j] PROVE \E i \in Handlers : Deletes(i, j)'
      <3>1. CASE j = Msg(h)
        BY <2>2, <3>1 DEF Deletes
      <3>2. CASE j # Msg(h)
        <4>1. PICK i \in Handlers : Deletes(i, j)
          BY <2>1, <2>3, <2>4, <3>2 DEF InputDeleted
        <4>2. i # h
          BY <3>2, <4>1 DEF Deletes, Msg
        <4>3. QED
          BY <2>2, <4>1, <4>2 DEF Deletes
      <3>3. QED
        BY <3>1, <3>2
    <2>5. QED
      BY <2>4 DEF InputDeleted
  <1>10. ASSUME NEW h \in Handlers, Ack(h) PROVE InputDeleted'
    <2>1. CASE At(h, "ackSeen")
      <3>1. slot[h].at \notin {"ack", "cleanup"}
        BY <2>1 DEF At
      <3>2. QED
        BY <1>1, <1>3, <1>10, <3>1, AckLemma
    <2>2. CASE At(h, "ack") /\ Goto(h, "cleanup")
      <3>1. \A i \in Handlers, j \in Jobs : Deletes(i, j) => Deletes(i, j)'
        BY <1>1, <2>2 DEF Goto, Deletes
      <3>2. QED
        BY <1>1, <1>10, <3>1 DEF InputDeleted, Ack
    <2>3. QED
      BY <1>2, <1>10, <2>1, <2>2 DEF Ack, SendAck
  <1>11. ASSUME NEW h \in Handlers, Cleanup(h) PROVE InputDeleted'
    <2>1. stored' = [stored EXCEPT ![Msg(h)] = FALSE] /\ Release(h) /\ settled' = settled
      BY <1>2, <1>11 DEF Cleanup
    <2>2. \A i \in Handlers : i # h => slot'[i] = slot[i]
      BY <1>1, <2>1 DEF Release
    <2>3. ASSUME NEW j \in settled, stored'[j] PROVE \E i \in Handlers : Deletes(i, j)'
      <3>1. j # Msg(h) /\ stored[j]
        BY <1>1, <2>1, <2>3
      <3>2. PICK i \in Handlers : Deletes(i, j)
        BY <3>1 DEF InputDeleted
      <3>3. i # h
        BY <3>1, <3>2 DEF Deletes, Msg
      <3>4. QED
        BY <2>2, <3>2, <3>3 DEF Deletes
    <2>4. QED
      BY <2>1, <2>3 DEF InputDeleted
  <1>12. CASE UNCHANGED <<slot, settled, stored>>
    BY <1>12 DEF InputDeleted, Deletes
  <1>13. QED
    BY <1>2, <1>4, <1>5, <1>6, <1>7, <1>8, <1>9, <1>10, <1>11, <1>12
       DEF Next, WorkerStep, ForeignPublish, AckWaitExpires, ExpireMessage, WorkerCrash, vars

(* "Uploaded videos are deleted after processing" (ARCHITECTURE.md:104):   *)
(* without crashes and failing calls a video outlives its outcome only     *)
(* until the handler that persisted it has cleaned up, however often the   *)
(* job was redelivered meanwhile. UploadIsDeleted says what faults change. *)
THEOREM InputDeletedHolds ==
  ASSUME Undisturbed, DeleteInput
  PROVE  Spec => []InputDeleted
  <1>1. Init => SettledWasUploaded /\ InputDeleted
    BY DEF Init, SettledWasUploaded, InputDeleted
  <1>2. TypeInv /\ SettledWasUploaded /\ InputDeleted /\ [Next]_vars => InputDeleted'
    BY DeletedStep
  <1>3. QED
    BY <1>1, <1>2, TypeInit, TypeStep, UploadedStep, PTL DEF Spec
=============================================================================
