-------------------------- MODULE LiveStreamProofs --------------------------
(* What TLAPS proves of LiveStream, for sessions of any length and all     *)
(* faults.                                                                 *)
EXTENDS LiveStream, TLAPS

(* The mailbox holds the last accepted frame, or nothing after that frame  *)
(* has been taken; the event is set exactly as long as a frame waits, or   *)
(* for the outcome.                                                        *)
Mailbox ==
  /\ latest # 0 => latest = accepted /\ taken < latest /\ haveFrame
  /\ latest = 0 => taken = accepted
  /\ accepted <= received
  /\ haveFrame => latest # 0 \/ outcome # "none"

(* A reader that has given its reason, or whose pump has left, reads no    *)
(* more.                                                                   *)
ReaderStopped ==
  /\ outcome # "none" => reader = "done"
  /\ pump \in {"returned", "raised"} => reader \in {"done", "failed", "cancelled"}

StreamInv == TypeOK /\ Mailbox /\ ReaderStopped /\ DrainedBeforeReturn

-----------------------------------------------------------------------------
LEMMA NoFrame == 0 \in 0..MaxFrames
BY StreamAssumption

LEMMA StreamInit == Init => StreamInv
<1>1. Init => TypeOK
  BY NoFrame DEF Init, TypeOK
<1>2. Init => Mailbox /\ ReaderStopped /\ DrainedBeforeReturn
  BY DEF Init, Mailbox, ReaderStopped, DrainedBeforeReturn
<1> QED
  BY <1>1, <1>2 DEF StreamInv

LEMMA EnvironmentStep ==
  ASSUME StreamInv, Disconnect \/ DeadlinePasses
  PROVE StreamInv'
<1>1. TypeOK'
  BY DEF StreamInv, TypeOK, Disconnect, DeadlinePasses
<1>2. Mailbox' /\ ReaderStopped' /\ DrainedBeforeReturn'
  BY DEF StreamInv, Mailbox, ReaderStopped, DrainedBeforeReturn, Disconnect, DeadlinePasses
<1> QED
  BY <1>1, <1>2 DEF StreamInv

LEMMA ReaderStep ==
  ASSUME StreamInv, Reader
  PROVE StreamInv'
<1> USE DEF pumpSide
<1>1. CASE ReceiveFrame
  <2>1. /\ received \in 0..MaxFrames /\ received < MaxFrames /\ received' = received + 1
        /\ MaxFrames \in Nat
    BY <1>1, StreamAssumption DEF ReceiveFrame, StreamInv, TypeOK
  <2>2. received' \in 0..MaxFrames /\ received' > received
    BY <2>1
  <2>3. TypeOK'
    BY <1>1, <2>2 DEF ReceiveFrame, StreamInv, TypeOK
  <2>4. taken \in 0..MaxFrames /\ accepted \in 0..MaxFrames /\ taken <= accepted
    BY DEF StreamInv, TypeOK, Mailbox
  <2>5. Mailbox'
    BY <1>1, <2>1, <2>2, <2>4 DEF ReceiveFrame, StreamInv, Mailbox
  <2>6. ReaderStopped' /\ DrainedBeforeReturn'
    BY <1>1 DEF ReceiveFrame, StreamInv, ReaderStopped, DrainedBeforeReturn
  <2> QED
    BY <2>3, <2>5, <2>6 DEF StreamInv
<1>2. CASE ReceivePing \/ Pong
  BY <1>2 DEF ReceivePing, Pong, StreamInv, TypeOK, Mailbox, ReaderStopped, DrainedBeforeReturn
<1>3. ASSUME NEW o \in Outcomes, ReadsLast(o)
      PROVE StreamInv'
  BY <1>3 DEF ReadsLast, Outcomes, StreamInv, TypeOK, Mailbox, ReaderStopped, DrainedBeforeReturn
<1>4. CASE ReceiveTooBig \/ ReceiveDisconnect \/ IdleTimeout
  <2>1. \E o \in Outcomes : ReadsLast(o)
    BY <1>4 DEF ReceiveTooBig, ReceiveDisconnect, IdleTimeout, Outcomes
  <2> QED
    BY <2>1, <1>3
<1> QED
  BY <1>1, <1>2, <1>4 DEF Reader, ReaderEvents

(* Leaving the loop is safe when the mailbox is empty, or for a reason     *)
(* other than the reader's.                                                *)
LEMMA LeaveLemma ==
  ASSUME StreamInv,
         NEW how \in {"returned", "raised"},
         NEW r \in Outcomes \cup {"max_duration", "error"},
         Leave(how, r),
         how = "returned" /\ r \in Outcomes => latest = 0,
         UNCHANGED <<received, outcome, accepted, connected, expired, latest, taken>>,
         haveFrame' = haveFrame \/ (latest = 0 /\ haveFrame' = FALSE)
  PROVE StreamInv'
<1>1. pump' = how /\ reason' = r /\ inHand' = 0
  BY DEF Leave
<1>2. /\ reader' \in {"done", "failed", "cancelled"}
      /\ reader = "done" => reader' = "done"
  BY DEF Leave, StreamInv, TypeOK
<1>3. TypeOK'
  <2>1. haveFrame' \in BOOLEAN
    BY DEF StreamInv, TypeOK
  <2> QED
    BY <1>1, <1>2, <2>1, NoFrame DEF StreamInv, TypeOK
<1>4. Mailbox' /\ ReaderStopped'
  BY <1>2 DEF StreamInv, Mailbox, ReaderStopped
<1>5. DrainedBeforeReturn'
  BY <1>1 DEF StreamInv, Mailbox, DrainedBeforeReturn
<1> QED
  BY <1>3, <1>4, <1>5 DEF StreamInv

LEMMA AgainLemma ==
  ASSUME StreamInv, Again, pump \notin {"returned", "raised"},
         UNCHANGED <<readerSide, latest, haveFrame, taken>>
  PROVE StreamInv'
<1>1. CASE expired
  <2>1. "max_duration" \notin Outcomes /\ "returned" \in {"returned", "raised"}
    BY DEF Outcomes
  <2> QED
    BY <1>1, <2>1, LeaveLemma DEF Again, readerSide
<1>2. CASE ~expired
  BY <1>2, StreamAssumption
     DEF Again, readerSide, StreamInv, TypeOK, Mailbox, ReaderStopped, DrainedBeforeReturn
<1> QED
  BY <1>1, <1>2

LEMMA PumpStep ==
  ASSUME StreamInv, Pump
  PROVE StreamInv'
<1> USE DEF readerSide
<1>1. "max_duration" \notin Outcomes /\ "error" \notin Outcomes /\ "client_closed" \in Outcomes
  BY DEF Outcomes
<1>2. CASE WaitTimesOut
  BY <1>1, <1>2, LeaveLemma DEF WaitTimesOut
<1>3. CASE Wake
  <2>1. CASE latest = 0
    <3>1. outcome # "none" /\ Leave("returned", outcome) /\ haveFrame' = FALSE
          /\ UNCHANGED <<latest, taken, readerSide>>
      BY <1>3, <2>1 DEF Wake
    <3>2. outcome \in Outcomes
      BY <3>1 DEF StreamInv, TypeOK
    <3> QED
      BY <2>1, <3>1, <3>2, LeaveLemma
  <2>2. CASE latest # 0
    <3>1. /\ haveFrame' = FALSE /\ pump' = "processing" /\ inHand' = latest /\ latest' = 0
          /\ taken' = latest /\ UNCHANGED <<reader, reason, readerSide>>
      BY <1>3, <2>2 DEF Wake
    <3>2. TypeOK'
      BY <3>1, NoFrame DEF StreamInv, TypeOK
    <3> QED
      BY <2>2, <3>1, <3>2 DEF Wake, StreamInv, Mailbox, ReaderStopped, DrainedBeforeReturn
  <2> QED
    BY <2>1, <2>2
<1>4. CASE Analyse
  <2>1. CASE Leave("raised", "error")
    BY <1>1, <1>4, <2>1, LeaveLemma DEF Analyse
  <2>2. CASE pump' \in {"replying", "erroring"} /\ UNCHANGED <<inHand, reason, reader>>
    BY <1>4, <2>2
       DEF Analyse, StreamInv, TypeOK, Mailbox, ReaderStopped, DrainedBeforeReturn
  <2> QED
    BY <1>4, <2>1, <2>2 DEF Analyse
<1>5. CASE Reply \/ ReplyError
  <2>1. UNCHANGED <<latest, haveFrame, taken, readerSide>> /\ pump \in {"replying", "erroring"}
    BY <1>5 DEF Reply, ReplyError
  <2>2. CASE SendFails
    BY <1>1, <2>1, <2>2, LeaveLemma DEF SendFails
  <2>3. CASE outcome # "none" /\ latest = 0 /\ Leave("returned", outcome)
    <3>1. outcome \in Outcomes
      BY <2>3 DEF StreamInv, TypeOK
    <3> QED
      BY <2>1, <2>3, <3>1, LeaveLemma
  <2>4. CASE Again
    BY <2>1, <2>4, AgainLemma
  <2> QED
    BY <1>5, <2>2, <2>3, <2>4 DEF Reply, ReplyError
<1> QED
  BY <1>2, <1>3, <1>4, <1>5 DEF Pump

LEMMA StreamInvHolds == Spec => []StreamInv
<1>1. ASSUME StreamInv, [Next]_vars PROVE StreamInv'
  <2>1. CASE Next
    BY <1>1, <2>1, EnvironmentStep, ReaderStep, PumpStep DEF Next
  <2>2. CASE UNCHANGED vars
    BY <1>1, <2>2 DEF vars, StreamInv, TypeOK, Mailbox, ReaderStopped, DrainedBeforeReturn
  <2> QED
    BY <1>1, <2>1, <2>2
<1> QED
  BY <1>1, StreamInit, PTL DEF Spec

-----------------------------------------------------------------------------
(* The places of both tasks, the mailbox and the outcome stay in range.    *)
THEOREM TypeCorrect == Spec => []TypeOK
BY StreamInvHolds, PTL DEF StreamInv

(* No wake-up is lost and none is idle, whatever the reader and the pump   *)
(* interleave.                                                             *)
THEOREM WaitingFrameWakesHolds == Spec => []WaitingFrameWakes
<1>1. StreamInv => WaitingFrameWakes
  BY DEF StreamInv, Mailbox, WaitingFrameWakes
<1> QED
  BY <1>1, StreamInvHolds, PTL

(* A session that ends for the reader's reason leaves no frame behind.     *)
THEOREM DrainedBeforeReturnHolds == Spec => []DrainedBeforeReturn
BY StreamInvHolds, PTL DEF StreamInv

(* The pump only ever takes the newest frame, and never one twice.         *)
THEOREM NewestFrameNextHolds == Spec => NewestFrameNext
<1> DEFINE Newest == taken' # taken \/ (pump' = "processing" /\ pump # "processing") =>
                       inHand' = accepted /\ inHand' > taken
<1>1. ASSUME StreamInv, Next PROVE Newest
  <2>1. CASE Wake
    <3>1. CASE latest = 0
      BY <2>1, <3>1 DEF Wake, Leave
    <3>2. CASE latest # 0
      <4>1. inHand' = latest
        BY <2>1, <3>2 DEF Wake
      <4>2. latest = accepted /\ taken < latest
        BY <1>1, <3>2 DEF StreamInv, Mailbox
      <4>3. taken \in 0..MaxFrames /\ latest \in 0..MaxFrames
        BY <1>1 DEF StreamInv, TypeOK
      <4> QED
        BY <4>1, <4>2, <4>3, StreamAssumption
    <3> QED
      BY <3>1, <3>2
  <2>2. CASE Disconnect \/ DeadlinePasses
    BY <2>2 DEF Disconnect, DeadlinePasses
  <2>3. CASE Reader
    BY <2>3 DEF Reader, ReaderEvents, ReceiveFrame, ReceivePing, Pong, ReceiveTooBig,
                ReceiveDisconnect, IdleTimeout, ReadsLast, pumpSide
  <2>4. CASE WaitTimesOut \/ Analyse \/ Reply \/ ReplyError
    BY <2>4 DEF WaitTimesOut, Analyse, Reply, ReplyError, SendFails, Again, Leave
  <2> QED
    BY <1>1, <2>1, <2>2, <2>3, <2>4 DEF Next, Pump
<1>2. ASSUME UNCHANGED vars PROVE Newest
  BY <1>2 DEF vars
<1>3. StreamInv /\ [Next]_vars => [Newest]_vars
  BY <1>1, <1>2
<1> QED
  BY <1>3, StreamInvHolds, PTL DEF Spec, NewestFrameNext

-----------------------------------------------------------------------------
(* How a session ends                                                      *)

(* The pump has left its loop.                                             *)
Gone == pump \in {"returned", "raised"}

(* When the reader has given its reason it accepts no more frames and keeps*)
(* to the reason; when the pump has left, the session does nothing more:   *)
(* no frame is taken or answered after its result was returned             *)
(* (routes.py:332-335, the reader is cancelled and awaited).               *)
Over ==
  /\ outcome # "none" => UNCHANGED <<outcome, received, accepted>>
  /\ Gone => UNCHANGED <<pump, reason, reader, outcome, received, accepted, taken, latest>>
EndIsFinal == [][Over]_vars

(* What the pump may still do before it looks at the deadline again.       *)
StepsLeft(p) ==
  CASE p = "waiting" -> 3 [] p = "processing" -> 2 [] p \in {"replying", "erroring"} -> 1
    [] OTHER -> 0

(* Once stream_max_duration_s has passed, the pump only comes nearer to its*)
(* end: it takes one more frame at most, and never waits again. This is the*)
(* variant behind DeadlineEndsSession.                                     *)
Hurries == expired /\ pump' # pump => StepsLeft(pump') < StepsLeft(pump)
DeadlineIsNear == [][Hurries]_vars

(* A pump that waits although the reader has ended the session is about to *)
(* notice it.                                                              *)
OutcomeWakes == outcome # "none" /\ pump = "waiting" => haveFrame

(* No step of either task gets past its end.                               *)
LEMMA OverStep == StreamInv /\ [Next]_vars => Over
<1> SUFFICES ASSUME StreamInv, [Next]_vars PROVE Over
  OBVIOUS
<1> USE DEF StreamInv, ReaderStopped, Over, Gone
<1>1. CASE Disconnect \/ DeadlinePasses
  BY <1>1 DEF Disconnect, DeadlinePasses
<1>2. CASE Reader
  <2>1. reader \in {"receiving", "ponging"}
    BY <1>2 DEF Reader, ReaderEvents, ReceiveFrame, ReceivePing, Pong, ReceiveTooBig,
                ReceiveDisconnect, IdleTimeout, ReadsLast
  <2> QED
    BY <2>1
<1>3. CASE Pump
  <2>1. ~Gone /\ UNCHANGED readerSide
    BY <1>3 DEF Pump, WaitTimesOut, Wake, Analyse, Reply, ReplyError
  <2> QED
    BY <2>1 DEF readerSide
<1>4. CASE UNCHANGED vars
  BY <1>4 DEF vars
<1> QED
  BY <1>1, <1>2, <1>3, <1>4 DEF Next

(* The end of a session is final, whichever task it comes from.            *)
THEOREM EndIsFinalHolds == Spec => EndIsFinal
<1>1. StreamInv /\ [Next]_vars => [Over]_vars
  BY OverStep
<1> QED
  BY <1>1, StreamInvHolds, PTL DEF Spec, EndIsFinal

(* After the deadline the pump makes three steps at most.                  *)
THEOREM DeadlineIsNearHolds == Spec => DeadlineIsNear
<1>1. ASSUME [Next]_vars PROVE Hurries
  <2>1. /\ StepsLeft("waiting") = 3 /\ StepsLeft("processing") = 2
        /\ StepsLeft("replying") = 1 /\ StepsLeft("erroring") = 1
        /\ StepsLeft("returned") = 0 /\ StepsLeft("raised") = 0
    BY DEF StepsLeft
  <2>2. CASE Disconnect \/ DeadlinePasses \/ Reader \/ UNCHANGED vars
    BY <2>2 DEF Disconnect, DeadlinePasses, Reader, ReaderEvents, ReceiveFrame, ReceivePing,
                Pong, ReceiveTooBig, ReceiveDisconnect, IdleTimeout, ReadsLast, pumpSide, vars,
                Hurries
  <2>3. CASE WaitTimesOut
    BY <2>1, <2>3 DEF WaitTimesOut, Leave, Hurries
  <2>4. CASE Wake
    BY <2>1, <2>4 DEF Wake, Leave, Hurries
  <2>5. CASE Analyse
    BY <2>1, <2>5 DEF Analyse, Leave, Hurries
  <2>6. CASE Reply \/ ReplyError
    BY <2>1, <2>6 DEF Reply, ReplyError, SendFails, Again, Leave, Hurries
  <2> QED
    BY <1>1, <2>2, <2>3, <2>4, <2>5, <2>6 DEF Next, Pump
<1> QED
  BY <1>1, PTL DEF Spec, DeadlineIsNear

(* As long as every frame can be decoded, a session that its reader has    *)
(* ended is not left asleep: the pump that waits has been woken. With an   *)
(* undecodable frame the run stream_too_big shows the contrary.            *)
THEOREM OutcomeWakesHolds ==
  ASSUME ~May("undecodable")
  PROVE  Spec => []OutcomeWakes
<1> DEFINE WakeInv == OutcomeWakes /\ pump # "erroring"
<1>1. Init => WakeInv
  BY DEF Init, OutcomeWakes
<1>2. StreamInv /\ WakeInv /\ [Next]_vars => WakeInv'
  <2> SUFFICES ASSUME StreamInv, WakeInv, [Next]_vars PROVE WakeInv'
    OBVIOUS
  <2> USE DEF OutcomeWakes
  <2>1. CASE Disconnect \/ DeadlinePasses \/ UNCHANGED vars
    BY <2>1 DEF Disconnect, DeadlinePasses, vars
  <2>2. CASE Reader
    BY <2>2 DEF Reader, ReaderEvents, ReceiveFrame, ReceivePing, Pong, ReceiveTooBig,
                ReceiveDisconnect, IdleTimeout, ReadsLast, pumpSide
  <2>3. CASE WaitTimesOut \/ Wake \/ Analyse
    BY <2>3 DEF WaitTimesOut, Wake, Analyse, Leave, readerSide
  <2>4. CASE Reply
    BY <2>4 DEF Reply, SendFails, Again, Leave, readerSide, StreamInv, Mailbox
  <2>5. CASE ReplyError
    BY <2>5 DEF ReplyError
  <2> QED
    BY <2>1, <2>2, <2>3, <2>4, <2>5 DEF Next, Pump
<1> QED
  BY <1>1, <1>2, StreamInvHolds, PTL DEF Spec
=============================================================================
